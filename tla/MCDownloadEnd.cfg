SPECIFICATION FairSpec
CONSTANTS
  r1 = r1  r2 = r2  r3 = r3  h1 = h1  h2 = h2
  Requests = {r1, r2}
  Items = {i1, i2}
  Hashes = {h1, h2}
  Asked <- OneOrTwoFiles
  Stores = 1
  MaxConn = 1
  MaxBegun = 3
  WithGc = FALSE
  NoItem = NoItem
PROPERTIES JoinedAreReleased EndStopsFetch
