---------------------------- MODULE MCDashboard ------------------------------
(* Small instances of Dashboard for TLC, from one evening to the next.  Each     *)
(* scenario leaves out steps that do not touch its tables, so that their          *)
(* combinations need not be explored.                                             *)
EXTENDS Dashboard, FiniteSets, TLC

VARIABLE scenario

MCSchedules == {22 * 60}
MCStart     == 22 * 60 + 1
\* Before and after half past, and the next evening.
MCTimes     == {22 * 60 + 29, 22 * 60 + 31, 46 * 60}

Quiet    == now' = now /\ sender' = sender /\ nextReport' = nextReport
NoEvent  == sender'["event"] = Idle
NoFiles  == updates' = 0 /\ answer'.table # "files"
\* One session, and requests one after the other.
OneByOne == /\ Cardinality(DOMAIN issued' \cup DOMAIN db'.tokens) <= 1
            /\ Cardinality({r \in Requests : rq'[r] # Free}) <= 1
            /\ issued # NoRows => challenge' = challenge
Only(ops) == \A r \in Requests : rq'[r] # Free => rq'[r].op \in ops

Within ==
  CASE scenario = "sessions" -> Quiet /\ NoFiles
    [] scenario = "files"    -> Quiet /\ served' = 0
    [] scenario = "reports"  -> /\ NoFiles /\ OneByOne /\ (now # Start => NoEvent)
                                /\ Only({"subscribe_POST", "subscribe_DELETE"})
    [] scenario = "mails"    -> /\ NoFiles /\ OneByOne /\ NoEvent
                                /\ Only({"subscribe_email_POST", "subscribe_email_PATCH"})

MCInit == Init /\ scenario \in {"sessions", "files", "reports", "mails"}
MCNext == Next /\ Within /\ UNCHANGED scenario
MCSpec == MCInit /\ [][MCNext]_<<vars, scenario>>

MCSymmetry == Permutations(Tokens) \cup Permutations(Requests)
=============================================================================
