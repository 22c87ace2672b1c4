------------------------------ MODULE Presence ------------------------------
(***************************************************************************)
(* What the rest of the program may assume of a cluster's presence: it is   *)
(* on or off, each time it comes on a new generation begins, and the end    *)
(* of a generation is announced at most once, while that generation is the  *)
(* current one.  A generation can also lapse without an announcement (a      *)
(* lost connection); the announcement of a lapsed generation never comes.    *)
(***************************************************************************)
EXTENDS Naturals

VARIABLES
  on,          \* is the cluster serving?
  generation,  \* how many times it has come on
  ended        \* the generations whose end was announced

presenceVars == <<on, generation, ended>>

PresenceInit ==
  /\ on = FALSE
  /\ generation = 0
  /\ ended = {0}

ComeOn ==
  /\ ~on
  /\ on' = TRUE
  /\ generation' = generation + 1
  /\ UNCHANGED ended

GoOff ==
  /\ on
  /\ generation \notin ended
  /\ on' = FALSE
  /\ ended' = ended \union {generation}
  /\ UNCHANGED generation

Lapse ==
  /\ on
  /\ on' = FALSE
  /\ UNCHANGED <<generation, ended>>

PresenceNext == ComeOn \/ GoOff \/ Lapse

PresenceSpec == PresenceInit /\ [][PresenceNext]_presenceVars
=============================================================================
