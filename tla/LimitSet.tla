------------------------------ MODULE LimitSet ------------------------------
(***************************************************************************)
(* The request counters of the API rate limit: limitSet of                  *)
(* limited/api_rate.go (try, release, clean) and the part of ServeMiddle     *)
(* that decides on their results.                                            *)
(*                                                                          *)
(* A client has one counter per minute and one per hour.  try finds or       *)
(* creates them under a lock but adds to them after it let the lock go, so   *)
(* clean can replace the counters in between: a request then works on the    *)
(* counters of a window that is over.  The number of the window is what      *)
(* release compares before it gives a request back (cleanId).                *)
(***************************************************************************)
EXTENDS Integers, FiniteSets

CONSTANTS
  Requests,            \* requests to the API at the same time
  Clients,
  Limits,              \* what may be configured: requests per minute and per hour; 0 is no limit
  TicksPerHour,        \* every which clean of the minute also cleans the hour
  MinTags, HourTags,   \* how many windows cleanCount tells apart
  MaxCleans,           \* bound on the number of cleans
  MaxCount             \* bound on the requests of a client counted in one minute

ASSUME LimitsAssumption == Limits \subseteq [perMin : Nat, perHour : Nat]
ASSUME RequestsAssumption == IsFiniteSet(Requests)
ASSUME ClientsAssumption == Clients # {}
ASSUME TicksAssumption == TicksPerHour \in Nat \ {0}
\* No request is served for so long that the numbers of the windows repeat.
ASSUME TagsAssumption ==
  MaxCleans \in Nat /\ MaxCount \in Nat /\ MinTags \in Nat /\ HourTags \in Nat
  /\ MinTags > MaxCleans + 1 /\ HourTags > MaxCleans

VARIABLES
  limit,                 \* s.Limit
  minutes, hours,        \* windows that are over; cleanCount is made of both
  accessMin, accessHour, \* clients with a counter in the current window
  countMin, countHour,   \* the counters of every window
  pc,
  client,                \* whose request it is
  min, hour,             \* the windows of the counters try has found
  tagMin, tagHour,       \* cleanId
  keptMin, keptHour      \* admitted in the current window, not given back (history)

windows  == <<minutes, hours>>
maps     == <<accessMin, accessHour>>
counters == <<countMin, countHour>>
request  == <<client, min, hour, tagMin, tagHour>>
kept     == <<keptMin, keptHour>>
vars     == <<limit, windows, maps, counters, pc, request, kept>>

Windows == 0..MaxCleans
NoCounter == -1

PerMin  == limit.perMin
PerHour == limit.perHour

checkMin  == PerMin > 0
checkHour == PerHour > 0

MinTag(w)  == (1 + w) % MinTags
HourTag(w) == w % HourTags

Init ==
  /\ limit \in Limits
  /\ minutes = 0 /\ hours = 0
  /\ accessMin = {} /\ accessHour = {}
  /\ countMin = [w \in Windows |-> [c \in Clients |-> 0]]
  /\ countHour = [w \in Windows |-> [c \in Clients |-> 0]]
  /\ pc = [r \in Requests |-> "idle"]
  /\ client \in [Requests -> Clients]
  /\ min = [r \in Requests |-> NoCounter]
  /\ hour = [r \in Requests |-> NoCounter]
  /\ tagMin = [r \in Requests |-> 0]
  /\ tagHour = [r \in Requests |-> 0]
  /\ keptMin = [c \in Clients |-> 0]
  /\ keptHour = [c \in Clients |-> 0]

Goto(r, where) == pc' = [pc EXCEPT ![r] = where]

Tag(r) ==
  /\ tagMin' = [tagMin EXCEPT ![r] = minutes]
  /\ tagHour' = [tagHour EXCEPT ![r] = hours]

\* The request is over: its pointers are dropped.
End(r) ==
  /\ Goto(r, "idle")
  /\ min' = [min EXCEPT ![r] = NoCounter]
  /\ hour' = [hour EXCEPT ![r] = NoCounter]
  /\ tagMin' = [tagMin EXCEPT ![r] = 0]
  /\ tagHour' = [tagHour EXCEPT ![r] = 0]
  /\ UNCHANGED client
-----------------------------------------------------------------------------
(* try *)

Arrive(r) ==
  /\ pc[r] = "idle"
  /\ checkMin \/ checkHour  \* otherwise nothing is counted
  /\ \E c \in Clients :
       /\ countMin[minutes][c] < MaxCount
       /\ client' = [client EXCEPT ![r] = c]
  /\ Goto(r, "look")
  /\ UNCHANGED <<windows, maps, counters, min, hour, tagMin, tagHour, kept>>

\* Under the read lock: the counters that exist, and the number of the window.
Look(r) ==
  /\ pc[r] = "look"
  /\ LET hasHour == checkHour /\ client[r] \in accessHour
         hasMin  == checkMin /\ client[r] \in accessMin
     IN  /\ hour' = [hour EXCEPT ![r] = IF hasHour THEN hours ELSE NoCounter]
         /\ min' = [min EXCEPT ![r] = IF hasMin THEN minutes ELSE NoCounter]
         /\ Goto(r, CASE checkHour /\ ~hasHour -> "lockHour"
                      [] hasHour -> "addHour"
                      [] ~checkHour /\ ~hasMin -> "lockMin"
                      [] OTHER -> "addMin")
  /\ Tag(r)
  /\ UNCHANGED <<windows, maps, counters, client, kept>>

\* Under the lock: the counter of the hour is found or made, and with it the
\* counter of the minute.
LockHour(r) ==
  /\ pc[r] = "lockHour"
  /\ hour' = [hour EXCEPT ![r] = hours]
  /\ accessHour' = accessHour \union {client[r]}
  /\ min' = [min EXCEPT ![r] = IF checkMin THEN minutes ELSE NoCounter]
  /\ accessMin' = IF checkMin THEN accessMin \union {client[r]} ELSE accessMin
  /\ Tag(r)
  /\ Goto(r, "addHour")
  /\ UNCHANGED <<windows, counters, client, kept>>

AddTo(count, w, c, n) == [count EXCEPT ![w][c] = @ + n]

\* Mutant of Fits: the request over the limit is let in.
FitsOneMore(n, most) == n <= most

\* The counter after this request is within the limit.
Fits(n, most) == n < most

\* try returns and the request is served.
Admit(r) ==
  /\ Goto(r, "admitted")
  /\ keptMin' = IF min[r] = minutes
       THEN [keptMin EXCEPT ![client[r]] = @ + 1] ELSE keptMin
  /\ keptHour' = IF hour[r] = hours
       THEN [keptHour EXCEPT ![client[r]] = @ + 1] ELSE keptHour
  /\ UNCHANGED request

AddHour(r) ==
  /\ pc[r] = "addHour"
  /\ countHour' = AddTo(countHour, hour[r], client[r], 1)
  /\ CASE ~Fits(countHour[hour[r]][client[r]], PerHour) ->
            Goto(r, "undoHour") /\ UNCHANGED <<request, kept>>
       [] Fits(countHour[hour[r]][client[r]], PerHour) /\ checkMin ->
            /\ Goto(r, IF min[r] = NoCounter THEN "lockMin" ELSE "addMin")
            /\ UNCHANGED <<request, kept>>
       [] OTHER -> Admit(r)
  /\ UNCHANGED <<windows, maps, countMin>>

\* Over the limit of the hour: the request is taken back and denied.
UndoHour(r) ==
  /\ pc[r] = "undoHour"
  /\ countHour' = AddTo(countHour, hour[r], client[r], -1)
  /\ End(r)
  /\ UNCHANGED <<windows, maps, countMin, kept>>

\* The counter of the minute is found or made; cleanId is read again.
LockMin(r) ==
  /\ pc[r] = "lockMin"
  /\ min' = [min EXCEPT ![r] = minutes]
  /\ accessMin' = accessMin \union {client[r]}
  /\ Tag(r)
  /\ Goto(r, "addMin")
  /\ UNCHANGED <<windows, accessHour, counters, client, hour, kept>>

AddMin(r) ==
  /\ pc[r] = "addMin"
  /\ countMin' = AddTo(countMin, min[r], client[r], 1)
  /\ IF Fits(countMin[min[r]][client[r]], PerMin)
       THEN Admit(r)
       ELSE Goto(r, "undoMinHour") /\ UNCHANGED <<request, kept>>
  /\ UNCHANGED <<windows, maps, countHour>>

\* Mutant of UndoMinHour: only the counter of the minute is taken back.
UndoMinOnly(r) ==
  /\ pc[r] = "undoMinHour"
  /\ Goto(r, "undoMin")
  /\ UNCHANGED <<windows, maps, counters, request, kept>>

\* Over the limit of the minute: both counters are taken back, the hour first.
\* Without a limit of the hour its counter is a nil pointer.
UndoMinHour(r) ==
  /\ pc[r] = "undoMinHour"
  /\ IF checkHour
       THEN Goto(r, "undoMin") /\ countHour' = AddTo(countHour, hour[r], client[r], -1)
       ELSE Goto(r, "panic") /\ UNCHANGED countHour
  /\ UNCHANGED <<windows, maps, countMin, request, kept>>

UndoMin(r) ==
  /\ pc[r] = "undoMin"
  /\ countMin' = AddTo(countMin, min[r], client[r], -1)
  /\ End(r)
  /\ UNCHANGED <<windows, maps, countHour, kept>>

\* net/http recovers the panic and drops the connection.
Recover(r) ==
  /\ pc[r] = "panic"
  /\ End(r)
  /\ UNCHANGED <<windows, maps, counters, kept>>
-----------------------------------------------------------------------------
(* The response, and release *)

\* The header is written with a status that counts, or not through WriteHeader.
Reply(r) ==
  /\ pc[r] = "admitted"
  /\ End(r)
  /\ UNCHANGED <<windows, maps, counters, kept>>

\* A status 1xx or 3xx, or a handler that asked to be skipped.
ReplyFree(r) ==
  /\ pc[r] = "admitted"
  /\ Goto(r, "release")
  /\ UNCHANGED <<windows, maps, counters, request, kept>>

\* Mutant of SameMinute: release believes that it is still the same minute.
AnyMinute(r) == checkMin

SameMinute(r) == checkMin /\ MinTag(tagMin[r]) = MinTag(minutes)
SameHour(r)   == checkHour /\ HourTag(tagHour[r]) = HourTag(hours)

Release(r) ==
  /\ pc[r] = "release"
  /\ countHour' = IF SameHour(r) /\ client[r] \in accessHour
                    THEN AddTo(countHour, hours, client[r], -1) ELSE countHour
  /\ countMin' = IF SameMinute(r) /\ client[r] \in accessMin
                   THEN AddTo(countMin, minutes, client[r], -1) ELSE countMin
  /\ keptMin' = IF min[r] = minutes
       THEN [keptMin EXCEPT ![client[r]] = @ - 1] ELSE keptMin
  /\ keptHour' = IF hour[r] = hours
       THEN [keptHour EXCEPT ![client[r]] = @ - 1] ELSE keptHour
  /\ End(r)
  /\ UNCHANGED <<windows, maps>>
-----------------------------------------------------------------------------
(* clean *)

\* The ticker's goroutine counts the minutes since it last cleaned the hour.
EndsHour == (minutes + 1) % TicksPerHour = 0

Clean ==
  /\ minutes < MaxCleans
  /\ minutes' = minutes + 1
  /\ accessMin' = {}
  /\ keptMin' = [c \in Clients |-> 0]
  /\ IF EndsHour
       THEN /\ hours' = hours + 1
            /\ accessHour' = {}
            /\ keptHour' = [c \in Clients |-> 0]
       ELSE UNCHANGED <<hours, accessHour, keptHour>>
  /\ UNCHANGED <<counters, pc, request>>

Try(r) ==
  \/ Arrive(r) \/ Look(r) \/ LockHour(r) \/ AddHour(r) \/ UndoHour(r)
  \/ LockMin(r) \/ AddMin(r) \/ UndoMinHour(r) \/ UndoMin(r) \/ Recover(r)

Serve(r) == Reply(r) \/ ReplyFree(r) \/ Release(r)

Next ==
  /\ Clean \/ \E r \in Requests : Try(r) \/ Serve(r)
  /\ UNCHANGED limit

Spec == Init /\ [][Next]_vars
-----------------------------------------------------------------------------
(* Properties *)

Steps == {"idle", "look", "lockHour", "addHour", "undoHour", "lockMin", "addMin",
          "undoMinHour", "undoMin", "panic", "admitted", "release"}

\* Types, and that a request adds to a counter it has found.
TypeOK ==
  /\ limit \in Limits
  /\ minutes \in Windows /\ hours \in 0..minutes
  /\ accessMin \subseteq Clients /\ accessHour \subseteq Clients
  /\ countMin \in [Windows -> [Clients -> Int]]
  /\ countHour \in [Windows -> [Clients -> Int]]
  /\ pc \in [Requests -> Steps]
  /\ client \in [Requests -> Clients]
  /\ min \in [Requests -> Windows \union {NoCounter}]
  /\ hour \in [Requests -> Windows \union {NoCounter}]
  /\ tagMin \in [Requests -> Windows] /\ tagHour \in [Requests -> Windows]
  /\ keptMin \in [Clients -> Int] /\ keptHour \in [Clients -> Int]
  /\ \A r \in Requests :
       /\ pc[r] \in {"addHour", "undoHour"} => hour[r] # NoCounter
       /\ pc[r] \in {"addMin", "undoMinHour", "undoMin"} => min[r] # NoCounter
       /\ checkHour /\ pc[r] \in {"lockMin", "addMin", "undoMinHour"} => hour[r] # NoCounter

\* Requests that have added to the current counter and will take it back.
OverMin(c) == {r \in Requests :
  client[r] = c /\ min[r] = minutes /\ pc[r] \in {"undoMinHour", "undoMin"}}
OverHour(c) == {r \in Requests :
  client[r] = c /\ hour[r] = hours
  /\ pc[r] \in {"undoHour", "lockMin", "addMin", "undoMinHour"}}

\* README.MD, api-rate-limit: in one window of a minute no more requests of a
\* client are served and kept than the limit allows, however the requests and
\* the cleaner interleave.
MinuteLimit == checkMin => \A c \in Clients : keptMin[c] <= PerMin

\* A denied request leaves no trace, and a request given back is taken from the
\* window it was counted in: the counter of the minute is exactly the requests
\* kept and those about to be denied.
MinuteExact ==
  checkMin /\ checkHour =>
    \A c \in Clients : countMin[minutes][c] = keptMin[c] + Cardinality(OverMin(c))

\* The same of the hour, for the requests on their way through try, as long as
\* none of them has seen an hour end.
HourExact ==
  checkHour /\ hours = 0 =>
    \A c \in Clients : countHour[hours][c] = keptHour[c] + Cardinality(OverHour(c))

\* README.MD, api-rate-limit: at most per-hour requests in one hour.
HourLimit == checkHour => \A c \in Clients : keptHour[c] <= PerHour

\* README.MD, api-rate-limit: a limit of 0 is no limit; turning the limit of the
\* hour off leaves the limit of the minute working.
UnlimitedHourWorks == \A r \in Requests : pc[r] # "panic"
=============================================================================
