------------------------------ MODULE HitReport ------------------------------
(***************************************************************************)
(* How the hits get to the central server: the counters that handleDownload  *)
(* adds to and KeepAlive reads, sends and, once answered, settles.  Between  *)
(* the packet and its answer KeepAlive saves the statistics (StatsFile),     *)
(* which the same hits are counted in.                                       *)
(*                                                                          *)
(* The counters are atomics read one by one, while requests go on.  Some     *)
(* requests are for the statistics only (they came through the hijacker) and *)
(* must not be reported.  The bytes are counted like the hits.               *)
(***************************************************************************)
EXTENDS StatsFile

CONSTANT Requests   \* downloads that may end at the same time

ASSUME RequestsAssumption == IsFiniteSet(Requests)

VARIABLES
  hits, lastHits, statOnlyHits,  \* s.hits, cr.lastHits, cr.statOnlyHits
  req,            \* the step a request is at
  only, sub,      \* whether it is for the statistics only, and its storage
  job,            \* the step a call of KeepAlive is at
  seenHits, seenLast, seenOnly,  \* what it has read
  served, acked   \* hits to be reported, and acknowledged, in this process (history)

counters == <<hits, lastHits, statOnlyHits>>
requests == <<req, only, sub>>
reads    == <<seenHits, seenLast, seenOnly>>
history  == <<served, acked>>
vars     == <<statVars, counters, requests, job, reads, history>>

Init ==
  /\ StatsInit
  /\ hits = 0 /\ lastHits = 0 /\ statOnlyHits = 0
  /\ req = [r \in Requests |-> "idle"]
  /\ only = [r \in Requests |-> FALSE]
  /\ sub = [r \in Requests |-> Main]
  /\ job = [s \in Savers |-> "idle"]
  /\ seenHits = [s \in Savers |-> 0]
  /\ seenLast = [s \in Savers |-> 0]
  /\ seenOnly = [s \in Savers |-> 0]
  /\ served = 0 /\ acked = 0
-----------------------------------------------------------------------------
(* A download has been served *)

Busy == {r \in Requests : req[r] # "idle"}

\* AddHits adds to s.hits before it waits for the lock.
AddHits(r) ==
  /\ phase = "up" /\ req[r] = "idle"
  /\ \A f \in Files : mem[f] + Cardinality(Busy) < MaxCount
  /\ hits' = hits + 1
  /\ req' = [req EXCEPT ![r] = "count"]
  /\ \E o \in BOOLEAN, f \in Files :
       /\ only' = [only EXCEPT ![r] = o]
       /\ sub' = [sub EXCEPT ![r] = f]
       /\ served' = IF o THEN served ELSE served + 1
  /\ UNCHANGED <<statVars, lastHits, statOnlyHits, job, reads, acked>>

Done(r) ==
  /\ req' = [req EXCEPT ![r] = "idle"]
  /\ only' = [only EXCEPT ![r] = FALSE]
  /\ sub' = [sub EXCEPT ![r] = Main]

CountHit(r) ==
  /\ req[r] = "count"
  /\ Count(sub[r])
  /\ IF only[r] THEN req' = [req EXCEPT ![r] = "only"] /\ UNCHANGED <<only, sub>>
               ELSE Done(r)
  /\ UNCHANGED <<counters, job, reads, history>>

AddStatOnly(r) ==
  /\ req[r] = "only"
  /\ statOnlyHits' = statOnlyHits + 1
  /\ Done(r)
  /\ UNCHANGED <<statVars, hits, lastHits, job, reads, history>>

Request(r) == AddHits(r) \/ CountHit(r) \/ AddStatOnly(r)
-----------------------------------------------------------------------------
(* KeepAlive *)

Goto(s, where) == job' = [job EXCEPT ![s] = where]

Return(s) ==
  /\ Goto(s, "idle")
  /\ seenHits' = [seenHits EXCEPT ![s] = 0]
  /\ seenLast' = [seenLast EXCEPT ![s] = 0]
  /\ seenOnly' = [seenOnly EXCEPT ![s] = 0]

ReadHits(s) ==
  /\ phase = "up" /\ job[s] = "idle"
  /\ Goto(s, "last")
  /\ seenHits' = [seenHits EXCEPT ![s] = hits]
  /\ UNCHANGED <<statVars, counters, requests, seenLast, seenOnly, history>>

ReadLast(s) ==
  /\ job[s] = "last"
  /\ Goto(s, "only")
  /\ seenLast' = [seenLast EXCEPT ![s] = lastHits]
  /\ UNCHANGED <<statVars, counters, requests, seenHits, seenOnly, history>>

ReadOnly(s) ==
  /\ job[s] = "only"
  /\ Goto(s, "emit")
  /\ seenOnly' = [seenOnly EXCEPT ![s] = statOnlyHits]
  /\ UNCHANGED <<statVars, counters, requests, seenHits, seenLast, history>>

\* The hits of the packet.
Sent(s) == seenHits[s] - seenLast[s] - seenOnly[s]

\* The packet is sent, or fails to be, and the statistics are saved.
Emit(s) ==
  /\ job[s] = "emit"
  /\ Goto(s, "save")
  /\ SaveBegin(s)
  /\ UNCHANGED <<counters, requests, reads, history>>

SaveStep(s) ==
  /\ job[s] = "save"
  /\ Save(s)
  /\ UNCHANGED <<counters, requests, job, reads, history>>

Saved(s) ==
  /\ job[s] = "save" /\ at[s] = "idle"
  /\ Goto(s, "wait")
  /\ UNCHANGED <<statVars, counters, requests, reads, history>>

Answered(s) ==
  /\ job[s] = "wait"
  /\ Goto(s, "store")
  /\ acked' = acked + Sent(s)
  /\ UNCHANGED <<statVars, counters, requests, reads, served>>

\* The packet could not be sent, no answer came in time, or it was an error.
Unanswered(s) ==
  /\ job[s] = "wait"
  /\ Return(s)
  /\ UNCHANGED <<statVars, counters, requests, history>>

\* Mutant of StoreLast: the counter is read again.
StoreNow(s) ==
  /\ job[s] = "store"
  /\ Goto(s, "settle")
  /\ lastHits' = hits
  /\ UNCHANGED <<statVars, hits, statOnlyHits, requests, reads, history>>

\* What was sent is settled, not what has been counted since.
StoreLast(s) ==
  /\ job[s] = "store"
  /\ Goto(s, "settle")
  /\ lastHits' = seenHits[s]
  /\ UNCHANGED <<statVars, hits, statOnlyHits, requests, reads, history>>

SettleOnly(s) ==
  /\ job[s] = "settle"
  /\ Return(s)
  /\ statOnlyHits' = statOnlyHits - seenOnly[s]
  /\ UNCHANGED <<statVars, hits, lastHits, requests, history>>

KeepAlive(s) ==
  \/ ReadHits(s) \/ ReadLast(s) \/ ReadOnly(s) \/ Emit(s) \/ SaveStep(s) \/ Saved(s)
  \/ Answered(s) \/ Unanswered(s) \/ StoreLast(s) \/ SettleOnly(s)
-----------------------------------------------------------------------------
\* The counters are not kept on disk.
Stop ==
  /\ Crash
  /\ hits' = 0 /\ lastHits' = 0 /\ statOnlyHits' = 0
  /\ req' = [r \in Requests |-> "idle"]
  /\ only' = [r \in Requests |-> FALSE]
  /\ sub' = [r \in Requests |-> Main]
  /\ job' = [s \in Savers |-> "idle"]
  /\ seenHits' = [s \in Savers |-> 0]
  /\ seenLast' = [s \in Savers |-> 0]
  /\ seenOnly' = [s \in Savers |-> 0]
  /\ served' = 0 /\ acked' = 0

Restart ==
  /\ Start \/ Load
  /\ UNCHANGED <<counters, requests, job, reads, history>>

Next ==
  \/ \E r \in Requests : Request(r)
  \/ \E s \in Savers : KeepAlive(s)
  \/ Stop \/ Restart

Spec == Init /\ [][Next]_vars
-----------------------------------------------------------------------------
(* Properties *)

TypeOK ==
  /\ StatsTypeOK
  /\ hits \in Nat /\ lastHits \in Nat /\ statOnlyHits \in Int
  /\ req \in [Requests -> {"idle", "count", "only"}]
  /\ only \in [Requests -> BOOLEAN]
  /\ sub \in [Requests -> Files]
  /\ job \in [Savers -> {"idle", "last", "only", "emit", "save", "wait", "store", "settle"}]
  /\ seenHits \in [Savers -> Nat] /\ seenLast \in [Savers -> Nat]
  /\ seenOnly \in [Savers -> Int]
  /\ served \in Nat /\ acked \in Int
  /\ \A s \in Savers : at[s] # "idle" => job[s] = "save"

\* Hits in s.hits that are not to be reported, and not in statOnlyHits yet.
NotYetOnly == {r \in Busy : only[r]}

\* Between two reports: what the server has acknowledged and what the next
\* packet would carry are the hits served, each once, whatever requests came
\* between the reads, the packet, its answer and its settling.
EachHitOnce ==
  (\A s \in Savers : job[s] = "idle") =>
    acked + (hits - lastHits - statOnlyHits) = served + Cardinality(NotYetOnly)
=============================================================================
