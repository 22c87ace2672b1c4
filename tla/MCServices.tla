----------------------------- MODULE MCServices ------------------------------
(* Small instances for TLC of the services, a scenario each: the API's limits, with both *)
(* on and with that of the minute alone; the budget of bytes; the hijacker's cache; the    *)
(* token of the cluster.                                                                  *)
EXTENDS Services, TLC

VARIABLE scenario

hijackVars == <<watch, restarts, cache, saved, disk, req, timer, armed, strays, called, saving, failed>>
tokenVars  == <<clock, token, lock, call>>
rateVars   == <<used, now, closed, stream, reads, writes, reader, writer, got, sent>>
allVars    == <<vars, hijackVars, tokenVars, rateVars, scenario>>

MCLimits == {[perMin |-> 1, perHour |-> 2], [perMin |-> 2, perHour |-> 0]}

\* Streams that read; streams that write; one with deadlines.
Timeless == \A s \in Streams : reader'[s].deadline = -1 /\ writer'[s].deadline = -1
Mute(calls) == \A s \in Streams : calls[s].stage = "idle" /\ calls[s].deadline = -1
RateStep ==
  CASE scenario = "reads"  -> ~closed' /\ Timeless /\ \A s \in Streams : writer'[s].stage = "idle"
    [] scenario = "writes" -> ~closed' /\ Timeless /\ \A s \in Streams : reader'[s].stage = "idle"
    [] scenario = "deadlines" -> /\ Cardinality({s \in Streams : stream'[s] # "new"}) <= 1
                                /\ \/ reads'.last = 0 /\ Mute(reader')
                                   \/ writes'.last = 0 /\ Mute(writer')

MCInit ==
  /\ Init /\ Hijack!Init /\ Token!Init /\ Rates!Init
  /\ scenario \in {"limits", "hijack", "token", "reads", "writes", "deadlines"}

\* Only both limits together have no end of their own.
Rests == (scenario = "limits" => ~checkHour) /\ UNCHANGED <<vars, hijackVars, tokenVars, rateVars>>

MCNext ==
  /\ UNCHANGED scenario
  /\ \/ scenario = "limits" /\ Next /\ UNCHANGED <<hijackVars, tokenVars, rateVars>>
     \/ scenario = "hijack" /\ Hijack!Next /\ UNCHANGED <<vars, tokenVars, rateVars>>
     \/ scenario = "token" /\ Token!Next /\ UNCHANGED <<vars, hijackVars, rateVars>>
     \/ /\ scenario \in {"reads", "writes", "deadlines"} /\ Rates!Next /\ RateStep
        /\ UNCHANGED <<vars, hijackVars, tokenVars>>
     \/ Rests

MCSpec == MCInit /\ [][MCNext]_allVars

Symmetry == Permutations(Requests) \cup Permutations(HijackRequests) \cup Permutations(Streams)
=============================================================================
