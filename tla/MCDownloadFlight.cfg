SPECIFICATION Spec
CONSTANTS
  r1 = r1  r2 = r2  r3 = r3  h1 = h1  h2 = h2
  Requests = {r1, r2, r3}
  Items = {i1, i2}
  Hashes = {h1}
  Asked <- SameFile
  Stores = 2
  MaxConn = 1
  MaxBegun = 2
  WithGc = TRUE
  NoItem = NoItem
SYMMETRY Symmetry
INVARIANTS
  SingleFlight
  IndexedBeforeServed
  
  BuffersConserved
