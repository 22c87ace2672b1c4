----------------------------- MODULE MCHitReport -----------------------------
(* Small instances of the two parts of Statistics for TLC, one after the other.         *)
EXTENDS Statistics, TLC

VARIABLE scenario

MCInit == Init /\ Periods!Init /\ scenario \in {"report", "periods"}

\* There is no next hit when the bound is reached.
NoMoreHits == ~ENABLED Periods!Next /\ UNCHANGED <<vars, periodVars>>

MCNext ==
  /\ UNCHANGED scenario
  /\ \/ scenario = "report" /\ Next /\ UNCHANGED periodVars
     \/ scenario = "periods" /\ Periods!Next /\ UNCHANGED vars
     \/ scenario = "periods" /\ NoMoreHits

MCSpec == MCInit /\ [][MCNext]_<<vars, periodVars, scenario>>

\* A month with a day to skip, and short ones.
MCDaysOf == 0 :> 3 @@ 1 :> 1 @@ 2 :> 1
=============================================================================
