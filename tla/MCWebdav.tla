------------------------------ MODULE MCWebdav -------------------------------
(* A small instance of WebdavStorage for TLC.  A scenario makes no other calls than its   *)
(* own.                                                                                *)
EXTENDS WebdavStorage, TLC

VARIABLE scenario

First == CHOOSE h \in Hashes : TRUE
Asks(ops) == \A r \in Requests : job'[r].op \in ops \cup {"none"} /\ job'[r].hash \in {First, "none"}
NoWalk == \A w \in Walks : walk'[w].stage = "none"
Lone == Cardinality({r \in Requests : job'[r] # Idle}) <= 1

\* Checks by requests whose link is cached; requests that need slots; walks beside a request.
StorageStep ==
  CASE scenario = "health" -> Asks({"serve"}) /\ NoWalk /\ links' = links
    [] scenario = "slots"  -> Asks(Ops) /\ now' = now /\ NoWalk
    [] scenario = "walks"  -> Asks({"size"}) /\ now' = now /\ Lone

MCInit ==
  /\ Init
  /\ scenario \in {"health", "slots", "walks"}
  /\ links = IF scenario = "health" THEN Hashes ELSE {}
  /\ scenario # "walks" => stored = {}
  /\ scenario = "walks" => measured

MCNext == Next /\ StorageStep /\ UNCHANGED scenario
MCSpec == MCInit /\ [][MCNext]_<<vars, scenario>>

MCDirOf == [h \in Hashes |-> h]
MCSymmetry == Permutations(Requests)
=============================================================================
