--------------------------- MODULE ServicesProofs ---------------------------
(***************************************************************************)
(* Proofs about what requests meet beside the storages: the limits of the     *)
(* API (LimitSet), the cluster's token, the index of the hijacker's cache and  *)
(* the budget of bytes, each for any number of actors and any configuration.   *)
(*                                                                          *)
(* The limits: the limit of the minute is kept whatever the cleaner does.     *)
(* MinuteLimit says nothing of the counters, so it is not inductive: it       *)
(* needs that the counter of the current minute covers the requests kept      *)
(* and those that will take themselves back (Counted), which in turn needs    *)
(* that no request points to a window that has not begun, and that a request  *)
(* in the current minute knows it (PointerInv).  HourExact is the same of the *)
(* hour, with what a request knows of its counter until an hour ends          *)
(* (HourInv).                                                                *)
(***************************************************************************)
EXTENDS Services, TLAPS, FiniteSetTheorems

(* The limits of the API *)


\* The steps at which a request has its counter of the minute.
MinSteps == {"addMin", "undoMinHour", "undoMin", "admitted", "release"}

\* What the counter a request has found says of the window it is in.
PointerInv ==
  \A r \in Requests :
    /\ pc[r] \in {"idle", "look"} => min[r] = NoCounter
    /\ pc[r] = "lockMin" => checkMin
    /\ pc[r] # "idle" => checkMin \/ checkHour
    /\ checkMin /\ pc[r] \in MinSteps => min[r] # NoCounter
    /\ min[r] # NoCounter => min[r] <= minutes /\ tagMin[r] = min[r]
    /\ min[r] = minutes => client[r] \in accessMin

\* The counters of the windows to come are untouched.
FutureInv ==
  \A w \in Windows, c \in Clients : w > minutes => countMin[w][c] = 0

\* The counter of the current minute and the requests it stands for.
Counted(c) ==
  /\ countMin[minutes][c] >= keptMin[c] + Cardinality(OverMin(c))
  /\ checkHour => countMin[minutes][c] = keptMin[c] + Cardinality(OverMin(c))

CountInv ==
  checkMin => \A c \in Clients : Counted(c) /\ keptMin[c] <= PerMin

\* The same of the hour, which is only true until an hour ends: what a request
\* has found is the counter of this hour, and the counter is exact.
HourKnown(r) ==
  /\ pc[r] \in {"idle", "look"} => hour[r] = NoCounter
  /\ pc[r] \in {"admitted", "release"} => hour[r] # NoCounter
  /\ hour[r] # NoCounter => hour[r] = 0 /\ client[r] \in accessHour

HourCounted(c) == countHour[hours][c] = keptHour[c] + Cardinality(OverHour(c))

HourInv ==
  checkHour /\ hours = 0 =>
    /\ \A r \in Requests : HourKnown(r)
    /\ \A r \in Requests : tagHour[r] = 0
    /\ \A c \in Clients : HourCounted(c)

IInv == TypeOK /\ PointerInv /\ FutureInv /\ CountInv /\ HourInv
-----------------------------------------------------------------------------
\* Lemma: a number below the divisor is its own remainder.
LEMMA SmallRemainder ==
  ASSUME NEW a \in Nat, NEW n \in Nat, a < n
  PROVE  a % n = a
PROOF
  BY SMT

\* Lemma: the tags tell every two windows apart.
LEMMA TagsDiffer ==
  ASSUME NEW v \in Windows, NEW w \in Windows, MinTag(v) = MinTag(w)
  PROVE  v = w
PROOF
  <1>1. 1 + v \in Nat /\ 1 + v < MinTags /\ 1 + w \in Nat /\ 1 + w < MinTags
    BY TagsAssumption DEF Windows
  <1>2. (1 + v) % MinTags = 1 + v /\ (1 + w) % MinTags = 1 + w
    BY <1>1, TagsAssumption, SmallRemainder
  <1>3. 1 + v = 1 + w
    BY <1>2 DEF MinTag
  <1>4. QED
    BY <1>3 DEF Windows

\* Lemma: what is added to a counter may be negative.
LEMMA MinusOne == -1 \in Int
  OBVIOUS

\* Lemma: the requests over the limit are finitely many.
LEMMA OverFinite ==
  ASSUME NEW c
  PROVE  IsFiniteSet(OverMin(c)) /\ Cardinality(OverMin(c)) \in Nat
PROOF
  BY RequestsAssumption, FS_Subset, FS_CardinalityType DEF OverMin

\* What is configured does not change.
LimitKept ==
  /\ limit' = limit /\ PerMin' = PerMin /\ PerHour' = PerHour
  /\ checkMin' = checkMin /\ checkHour' = checkHour

\* Lemma: a step keeps the limits.
LEMMA LimitStays == ASSUME [Next]_vars PROVE LimitKept
  BY DEF LimitKept, Next, vars, PerMin, PerHour, checkMin, checkHour

\* Lemma: the limits are numbers.
LEMMA LimitNumbers == ASSUME limit \in Limits PROVE PerMin \in Nat /\ PerHour \in Nat
  BY LimitsAssumption DEF PerMin, PerHour

\* Lemma: the invariant holds before the first request.
LEMMA InitInv == Init => IInv
PROOF
  <1> SUFFICES ASSUME Init PROVE IInv
    OBVIOUS
  <1>1. TypeOK
    <2>1. minutes \in Windows /\ hours \in 0..minutes
      BY TagsAssumption DEF Init, Windows
    <2>2. /\ countMin \in [Windows -> [Clients -> Int]]
          /\ countHour \in [Windows -> [Clients -> Int]]
      BY DEF Init
    <2>3. tagMin \in [Requests -> Windows] /\ tagHour \in [Requests -> Windows]
      BY TagsAssumption DEF Init, Windows
    <2>4. QED
      BY <2>1, <2>2, <2>3 DEF Init, TypeOK, Steps
  <1>2. PointerInv
    BY DEF Init, PointerInv, MinSteps, NoCounter
  <1>3. FutureInv
    BY DEF Init, FutureInv
  <1>4. CountInv
    <2> SUFFICES ASSUME NEW c \in Clients PROVE Counted(c) /\ keptMin[c] <= PerMin
      BY DEF CountInv
    <2>1. OverMin(c) = {}
      BY DEF Init, OverMin
    <2>2. Cardinality(OverMin(c)) = 0
      BY <2>1, FS_EmptySet
    <2>3. countMin[minutes][c] = 0 /\ keptMin[c] = 0
      BY TagsAssumption DEF Init, Windows
    <2>4. QED
      BY <2>2, <2>3, LimitNumbers DEF Init, Counted
  <1>5. HourInv
    <2>1. \A r \in Requests : HourKnown(r) /\ tagHour[r] = 0
      BY DEF Init, HourKnown, NoCounter
    <2>2. ASSUME NEW c \in Clients PROVE HourCounted(c)
      <3>1. OverHour(c) = {}
        BY DEF Init, OverHour
      <3>2. Cardinality(OverHour(c)) = 0
        BY <3>1, FS_EmptySet
      <3>3. countHour[hours][c] = 0 /\ keptHour[c] = 0
        BY TagsAssumption DEF Init, Windows
      <3>4. QED
        BY <3>2, <3>3 DEF HourCounted
    <2>3. QED
      BY <2>1, <2>2 DEF HourInv
  <1>6. QED
    BY <1>1, <1>2, <1>3, <1>4, <1>5 DEF IInv

\* Lemma: adding to a counter keeps the counters integers.
LEMMA AddType ==
  ASSUME NEW count \in [Windows -> [Clients -> Int]],
         NEW w \in Windows, NEW c \in Clients, NEW n \in Int
  PROVE  AddTo(count, w, c, n) \in [Windows -> [Clients -> Int]]
PROOF
  <1>1. count[w] \in [Clients -> Int]
    OBVIOUS
  <1>2. [count[w] EXCEPT ![c] = @ + n] \in [Clients -> Int]
    BY <1>1
  <1>3. QED
    BY <1>2 DEF AddTo

\* Lemma: every step keeps the types.
LEMMA TypeStep ==
  ASSUME TypeOK, [Next]_vars
  PROVE  TypeOK'
PROOF
  <1>k. LimitKept
    BY LimitStays
  <1>. USE <1>k DEF LimitKept
  <1>a. minutes \in Windows /\ hours \in Windows /\ 0 \in Windows /\ NoCounter \notin Windows
    BY TagsAssumption DEF TypeOK, Windows, NoCounter
  <1>1. ASSUME NEW r \in Requests, Arrive(r) PROVE TypeOK'
    BY <1>1, <1>a DEF Arrive, Goto, TypeOK, Steps, windows, maps, counters,
      request, kept
  <1>2. ASSUME NEW r \in Requests, Look(r) PROVE TypeOK'
    BY <1>2, <1>a DEF Look, Goto, Tag, TypeOK, Steps, windows, maps, counters,
      request, kept
  <1>3. ASSUME NEW r \in Requests, LockHour(r) PROVE TypeOK'
    BY <1>3, <1>a DEF LockHour, Goto, Tag, TypeOK, Steps, windows, maps,
      counters, request, kept
  <1>4. ASSUME NEW r \in Requests, AddHour(r) PROVE TypeOK'
    <2>1. /\ countHour \in [Windows -> [Clients -> Int]]
          /\ client[r] \in Clients /\ hour[r] \in Windows
          /\ countHour' = AddTo(countHour, hour[r], client[r], 1)
      BY <1>4, <1>a DEF AddHour, TypeOK
    <2>2. countHour' \in [Windows -> [Clients -> Int]]
      BY <2>1, AddType
    <2>3. CASE Fits(countHour[hour[r]][client[r]], PerHour) /\ ~checkMin
      <3>1. Admit(r) /\ UNCHANGED <<windows, maps, countMin>>
        BY <1>4, <2>3 DEF AddHour
      <3>2. QED
        BY <1>a, <2>2, <2>3, <3>1 DEF Goto, Admit, TypeOK, Steps, windows, maps,
      counters, request, kept
    <2>4. CASE Fits(countHour[hour[r]][client[r]], PerHour) /\ checkMin
      <3>1. /\ Goto(r, IF min[r] = NoCounter THEN "lockMin" ELSE "addMin")
            /\ pc[r] = "addHour"
            /\ UNCHANGED <<windows, maps, countMin, request, kept>>
        BY <1>4, <2>4 DEF AddHour
      <3>2. QED
        BY <1>a, <2>2, <2>4, <3>1 DEF Goto, TypeOK, Steps, windows, maps,
      counters, request, kept
    <2>5. CASE ~Fits(countHour[hour[r]][client[r]], PerHour)
      BY <1>4, <1>a, <2>5, <2>2 DEF AddHour, Goto, Admit, TypeOK, Steps,
      windows, maps, counters, request, kept
    <2>6. QED
      BY <2>4, <2>5, <2>3
  <1>5. ASSUME NEW r \in Requests, UndoHour(r) PROVE TypeOK'
    <2>1. /\ countHour \in [Windows -> [Clients -> Int]]
          /\ client[r] \in Clients /\ hour[r] \in Windows
          /\ countHour' = AddTo(countHour, hour[r], client[r], -1)
      BY <1>5, <1>a DEF UndoHour, TypeOK
    <2>2. countHour' \in [Windows -> [Clients -> Int]]
      BY <2>1, AddType, MinusOne
    <2>3. QED
      BY <1>5, <1>a, <2>2 DEF UndoHour, End, Goto, TypeOK, Steps, windows, maps,
      counters, request, kept
  <1>6. ASSUME NEW r \in Requests, LockMin(r) PROVE TypeOK'
    BY <1>6, <1>a DEF LockMin, Goto, Tag, TypeOK, Steps, windows, maps,
      counters, request, kept
  <1>7. ASSUME NEW r \in Requests, AddMin(r) PROVE TypeOK'
    <2>1. /\ countMin \in [Windows -> [Clients -> Int]]
          /\ client[r] \in Clients /\ min[r] \in Windows
          /\ countMin' = AddTo(countMin, min[r], client[r], 1)
      BY <1>7, <1>a DEF AddMin, TypeOK
    <2>2. countMin' \in [Windows -> [Clients -> Int]]
      BY <2>1, AddType
    <2>3. CASE Fits(countMin[min[r]][client[r]], PerMin)
      BY <1>7, <1>a, <2>3, <2>2 DEF AddMin, Goto, Admit, TypeOK, Steps, windows,
      maps, counters, request, kept
    <2>4. CASE ~Fits(countMin[min[r]][client[r]], PerMin)
      BY <1>7, <1>a, <2>4, <2>2 DEF AddMin, Goto, Admit, TypeOK, Steps, windows,
      maps, counters, request, kept
    <2>5. QED
      BY <2>3, <2>4
  <1>8. ASSUME NEW r \in Requests, UndoMinHour(r) PROVE TypeOK'
    <2>1. /\ countHour \in [Windows -> [Clients -> Int]] /\ client[r] \in Clients
          /\ \/ countHour' = countHour
             \/ hour[r] \in Windows /\ countHour' = AddTo(countHour, hour[r], client[r], -1)
      BY <1>8, <1>a DEF UndoMinHour, TypeOK, checkHour
    <2>2. countHour' \in [Windows -> [Clients -> Int]]
      BY <2>1, AddType, MinusOne
    <2>3. QED
      BY <1>8, <1>a, <2>2 DEF UndoMinHour, Goto, TypeOK, Steps, windows, maps,
      counters, request, kept
  <1>9. ASSUME NEW r \in Requests, UndoMin(r) PROVE TypeOK'
    <2>1. /\ countMin \in [Windows -> [Clients -> Int]]
          /\ client[r] \in Clients /\ min[r] \in Windows
          /\ countMin' = AddTo(countMin, min[r], client[r], -1)
      BY <1>9, <1>a DEF UndoMin, TypeOK
    <2>2. countMin' \in [Windows -> [Clients -> Int]]
      BY <2>1, AddType, MinusOne
    <2>3. QED
      BY <1>9, <1>a, <2>2 DEF UndoMin, End, Goto, TypeOK, Steps, windows, maps,
      counters, request, kept
  <1>10. ASSUME NEW r \in Requests, Recover(r) PROVE TypeOK'
    BY <1>10, <1>a DEF Recover, End, Goto, TypeOK, Steps, windows, maps,
      counters, request, kept
  <1>11. ASSUME NEW r \in Requests, Reply(r) PROVE TypeOK'
    BY <1>11, <1>a DEF Reply, End, Goto, TypeOK, Steps, windows, maps, counters,
      request, kept
  <1>12. ASSUME NEW r \in Requests, ReplyFree(r) PROVE TypeOK'
    BY <1>12, <1>a DEF ReplyFree, Goto, TypeOK, Steps, windows, maps, counters,
      request, kept
  <1>13. ASSUME NEW r \in Requests, Release(r) PROVE TypeOK'
    <2>1. /\ countHour \in [Windows -> [Clients -> Int]]
          /\ client[r] \in Clients /\ hours \in Windows
          /\ countHour' = countHour \/ countHour' = AddTo(countHour, hours, client[r], -1)
      BY <1>13, <1>a DEF Release, TypeOK
    <2>2. countHour' \in [Windows -> [Clients -> Int]]
      BY <2>1, AddType, MinusOne
    <2>3. /\ countMin \in [Windows -> [Clients -> Int]]
          /\ client[r] \in Clients /\ minutes \in Windows
          /\ countMin' = countMin \/ countMin' = AddTo(countMin, minutes, client[r], -1)
      BY <1>13, <1>a DEF Release, TypeOK
    <2>4. countMin' \in [Windows -> [Clients -> Int]]
      BY <2>3, AddType
    <2>5. QED
      BY <1>13, <1>a, <2>2, <2>4 DEF Release, End, Goto, TypeOK, Steps, windows,
      maps, counters, request, kept
  <1>14. ASSUME Clean PROVE TypeOK'
    <2>1. minutes' \in Windows /\ hours' \in 0..minutes'
      <3>1. /\ minutes \in 0..MaxCleans /\ hours \in 0..minutes /\ MaxCleans \in Nat
            /\ minutes < MaxCleans /\ minutes' = minutes + 1
        BY <1>14, <1>a, TagsAssumption DEF Clean, TypeOK, Windows
      <3>2. hours' = hours \/ hours' = hours + 1
        BY <1>14 DEF Clean
      <3>3. QED
        BY <3>1, <3>2 DEF Windows
    <2>2. keptMin' \in [Clients -> Int] /\ keptHour' \in [Clients -> Int]
      BY <1>14 DEF Clean, TypeOK
    <2>3. accessMin' \subseteq Clients /\ accessHour' \subseteq Clients
      BY <1>14 DEF Clean, TypeOK
    <2>4. QED
      BY <1>14, <2>1, <2>2, <2>3 DEF Clean, TypeOK, counters, request
  <1>15. ASSUME UNCHANGED vars PROVE TypeOK'
    BY <1>15 DEF vars, TypeOK, windows, maps, counters, request, kept
  <1>16. QED
    BY <1>1, <1>2, <1>3, <1>4, <1>5, <1>6, <1>7, <1>8, <1>9, <1>10, <1>11, <1>12, <1>13, <1>14, <1>15 DEF Next, Try, Serve

\* Lemma: every step keeps what the pointers say.
LEMMA PointerStep ==
  ASSUME TypeOK, PointerInv, [Next]_vars
  PROVE  PointerInv'
PROOF
  <1>k. LimitKept
    BY LimitStays
  <1>. USE <1>k DEF LimitKept
  <1>a. /\ minutes \in Int /\ Windows \subseteq Nat /\ NoCounter \notin Windows
        /\ minutes \in Windows /\ minutes + 1 # NoCounter /\ minutes # NoCounter
    BY TagsAssumption DEF TypeOK, Windows, NoCounter
  <1>c. \A r \in Requests : min[r] \in Int
    BY DEF TypeOK, Windows, NoCounter
  <1>b. /\ pc \in [Requests -> Steps] /\ client \in [Requests -> Clients]
        /\ min \in [Requests -> Windows \union {NoCounter}]
        /\ tagMin \in [Requests -> Windows]
    BY DEF TypeOK
  <1>1. ASSUME NEW r \in Requests, Arrive(r) PROVE PointerInv'
    BY <1>1, <1>a, <1>b DEF Arrive, Goto, PointerInv, MinSteps, windows, maps,
      counters, request, kept, checkMin
  <1>2. ASSUME NEW r \in Requests, Look(r) PROVE PointerInv'
    <2>1. /\ pc' \in [Requests -> {"idle", "lockHour", "addHour", "lockMin", "addMin"} \union Steps]
          /\ \A q \in Requests \ {r} :
               pc'[q] = pc[q] /\ min'[q] = min[q] /\ tagMin'[q] = tagMin[q]
          /\ UNCHANGED <<minutes, accessMin, client>>
      BY <1>2, <1>b DEF Look, Goto, Tag, Steps, windows, maps
    <2>2. min'[r] = (IF checkMin /\ client[r] \in accessMin THEN minutes ELSE NoCounter)
          /\ tagMin'[r] = minutes
      BY <1>2, <1>b DEF Look, Tag
    <2>3. /\ pc'[r] \in {"lockHour", "addHour", "lockMin", "addMin"}
          /\ pc'[r] = "lockMin" => ~checkHour
          /\ pc'[r] = "addMin" => checkMin /\ client[r] \in accessMin
      BY <1>2, <1>b DEF Look, Goto, checkHour, checkMin
    <2>4. ~checkHour => checkMin
      BY <1>2 DEF Look, PointerInv
    <2>5. QED
      BY <1>a, <2>1, <2>2, <2>3, <2>4 DEF PointerInv, MinSteps, checkMin
  <1>3. ASSUME NEW r \in Requests, LockHour(r) PROVE PointerInv'
    BY <1>3, <1>a, <1>b DEF LockHour, Goto, Tag, PointerInv, MinSteps, windows,
      maps, counters, request, kept, checkMin
  <1>4. ASSUME NEW r \in Requests, AddHour(r) PROVE PointerInv'
    BY <1>4, <1>a, <1>b DEF AddHour, Goto, Admit, PointerInv, MinSteps, windows,
      maps, counters, request, kept, TypeOK, checkMin
  <1>5. ASSUME NEW r \in Requests, UndoHour(r) PROVE PointerInv'
    BY <1>5, <1>a, <1>b DEF UndoHour, End, Goto, PointerInv, MinSteps, windows,
      maps, counters, request, kept, checkMin
  <1>6. ASSUME NEW r \in Requests, LockMin(r) PROVE PointerInv'
    BY <1>6, <1>a, <1>b DEF LockMin, Goto, Tag, PointerInv, MinSteps, windows,
      maps, counters, request, kept, checkMin
  <1>7. ASSUME NEW r \in Requests, AddMin(r) PROVE PointerInv'
    BY <1>7, <1>a, <1>b DEF AddMin, Goto, Admit, PointerInv, MinSteps, windows,
      maps, counters, request, kept, checkMin
  <1>8. ASSUME NEW r \in Requests, UndoMinHour(r) PROVE PointerInv'
    BY <1>8, <1>a, <1>b DEF UndoMinHour, Goto, PointerInv, MinSteps, windows,
      maps, counters, request, kept, checkMin
  <1>9. ASSUME NEW r \in Requests, UndoMin(r) PROVE PointerInv'
    BY <1>9, <1>a, <1>b DEF UndoMin, End, Goto, PointerInv, MinSteps, windows,
      maps, counters, request, kept, checkMin
  <1>10. ASSUME NEW r \in Requests, Recover(r) PROVE PointerInv'
    BY <1>10, <1>a, <1>b DEF Recover, End, Goto, PointerInv, MinSteps, windows,
      maps, counters, request, kept, checkMin
  <1>11. ASSUME NEW r \in Requests, Reply(r) PROVE PointerInv'
    BY <1>11, <1>a, <1>b DEF Reply, End, Goto, PointerInv, MinSteps, windows,
      maps, counters, request, kept, checkMin
  <1>12. ASSUME NEW r \in Requests, ReplyFree(r) PROVE PointerInv'
    BY <1>12, <1>a, <1>b DEF ReplyFree, Goto, PointerInv, MinSteps, windows,
      maps, counters, request, kept, checkMin
  <1>13. ASSUME NEW r \in Requests, Release(r) PROVE PointerInv'
    BY <1>13, <1>a, <1>b DEF Release, End, Goto, PointerInv, MinSteps, windows,
      maps, counters, request, kept, checkMin
  <1>14. ASSUME Clean PROVE PointerInv'
    <2>1. /\ minutes' = minutes + 1 /\ accessMin' = {}
          /\ UNCHANGED <<pc, client, min, tagMin>>
      BY <1>14 DEF Clean, request
    <2>2. \A r \in Requests : min[r] # NoCounter => min[r] <= minutes + 1 /\ min[r] # minutes + 1
      BY <1>a, <1>c DEF PointerInv
    <2>3. \A r \in Requests : min[r] # minutes + 1
      BY <1>a, <2>2
    <2>4. QED
      BY <2>1, <2>2, <2>3 DEF PointerInv, checkMin
  <1>15. ASSUME UNCHANGED vars PROVE PointerInv'
    BY <1>15 DEF vars, PointerInv, MinSteps, checkMin, windows, maps, counters,
      request, kept
  <1>16. QED
    BY <1>1, <1>2, <1>3, <1>4, <1>5, <1>6, <1>7, <1>8, <1>9, <1>10, <1>11, <1>12, <1>13, <1>14, <1>15 DEF Next, Try, Serve

\* Lemma: no step adds to a window that has not begun.
LEMMA FutureStep ==
  ASSUME TypeOK, PointerInv, FutureInv, [Next]_vars
  PROVE  FutureInv'
PROOF
  <1>k. LimitKept
    BY LimitStays
  <1>. USE <1>k DEF LimitKept
  <1>a. /\ minutes \in Int /\ Windows \subseteq Nat /\ NoCounter \notin Windows
        /\ \A r \in Requests : min[r] \in Int
        /\ \A w \in Windows : w \in Int
    BY TagsAssumption DEF TypeOK, Windows, NoCounter
  <1>1. ASSUME NEW r \in Requests, Arrive(r) PROVE FutureInv'
    BY <1>1 DEF Arrive, FutureInv, windows, counters, maps
  <1>2. ASSUME NEW r \in Requests, Look(r) PROVE FutureInv'
    BY <1>2 DEF Look, FutureInv, windows, counters, maps
  <1>3. ASSUME NEW r \in Requests, LockHour(r) PROVE FutureInv'
    BY <1>3 DEF LockHour, FutureInv, windows, counters, maps
  <1>4. ASSUME NEW r \in Requests, AddHour(r) PROVE FutureInv'
    BY <1>4 DEF AddHour, FutureInv, windows, counters, maps
  <1>5. ASSUME NEW r \in Requests, UndoHour(r) PROVE FutureInv'
    BY <1>5 DEF UndoHour, FutureInv, windows, counters, maps
  <1>6. ASSUME NEW r \in Requests, LockMin(r) PROVE FutureInv'
    BY <1>6 DEF LockMin, FutureInv, windows, counters, maps
  <1>7. ASSUME NEW r \in Requests, AddMin(r) PROVE FutureInv'
    <2>1. /\ countMin \in [Windows -> [Clients -> Int]] /\ minutes' = minutes
          /\ min[r] \in Windows /\ client[r] \in Clients
      BY <1>7 DEF AddMin, TypeOK, windows
    <2>2. \A v \in Windows : v > minutes => v # min[r]
      BY <1>7, <1>a DEF PointerInv, AddMin
    <2>3. CASE countMin' = countMin
      BY <2>1, <2>3 DEF FutureInv
    <2>4. CASE countMin' = AddTo(countMin, min[r], client[r], 1)
      <3>1. \A v \in Windows, d \in Clients :
              v # min[r] => AddTo(countMin, min[r], client[r], 1)[v][d] = countMin[v][d]
        BY <2>1 DEF AddTo
      <3>2. \A v \in Windows, d \in Clients : v # min[r] => countMin'[v][d] = countMin[v][d]
        BY <2>4, <3>1
      <3>3. QED
        BY <2>1, <2>2, <3>2 DEF FutureInv
    <2>5. QED
      BY <1>7, <2>3, <2>4 DEF AddMin
  <1>8. ASSUME NEW r \in Requests, UndoMinHour(r) PROVE FutureInv'
    BY <1>8 DEF UndoMinHour, FutureInv, windows, counters, maps
  <1>9. ASSUME NEW r \in Requests, UndoMin(r) PROVE FutureInv'
    <2>1. /\ countMin \in [Windows -> [Clients -> Int]] /\ minutes' = minutes
          /\ min[r] \in Windows /\ client[r] \in Clients
      BY <1>9 DEF UndoMin, TypeOK, windows
    <2>2. \A v \in Windows : v > minutes => v # min[r]
      BY <1>9, <1>a DEF PointerInv, UndoMin
    <2>3. CASE countMin' = countMin
      BY <2>1, <2>3 DEF FutureInv
    <2>4. CASE countMin' = AddTo(countMin, min[r], client[r], -1)
      <3>1. \A v \in Windows, d \in Clients :
              v # min[r] => AddTo(countMin, min[r], client[r], -1)[v][d] = countMin[v][d]
        BY <2>1 DEF AddTo
      <3>2. \A v \in Windows, d \in Clients : v # min[r] => countMin'[v][d] = countMin[v][d]
        BY <2>4, <3>1
      <3>3. QED
        BY <2>1, <2>2, <3>2 DEF FutureInv
    <2>5. QED
      BY <1>9, <2>3, <2>4 DEF UndoMin
  <1>10. ASSUME NEW r \in Requests, Recover(r) PROVE FutureInv'
    BY <1>10 DEF Recover, FutureInv, windows, counters, maps
  <1>11. ASSUME NEW r \in Requests, Reply(r) PROVE FutureInv'
    BY <1>11 DEF Reply, FutureInv, windows, counters, maps
  <1>12. ASSUME NEW r \in Requests, ReplyFree(r) PROVE FutureInv'
    BY <1>12 DEF ReplyFree, FutureInv, windows, counters, maps
  <1>13. ASSUME NEW r \in Requests, Release(r) PROVE FutureInv'
    <2>1. /\ countMin \in [Windows -> [Clients -> Int]] /\ minutes' = minutes
          /\ minutes \in Windows /\ client[r] \in Clients
      BY <1>13 DEF Release, TypeOK, windows
    <2>2. \A v \in Windows : v > minutes => v # minutes
      BY <1>13, <1>a DEF PointerInv, Release
    <2>3. CASE countMin' = countMin
      BY <2>1, <2>3 DEF FutureInv
    <2>4. CASE countMin' = AddTo(countMin, minutes, client[r], -1)
      <3>1. \A v \in Windows, d \in Clients :
              v # minutes => AddTo(countMin, minutes, client[r], -1)[v][d] = countMin[v][d]
        BY <2>1 DEF AddTo
      <3>2. \A v \in Windows, d \in Clients : v # minutes => countMin'[v][d] = countMin[v][d]
        BY <2>4, <3>1
      <3>3. QED
        BY <2>1, <2>2, <3>2 DEF FutureInv
    <2>5. QED
      BY <1>13, <2>3, <2>4 DEF Release
  <1>14. ASSUME Clean PROVE FutureInv'
    <2>1. minutes' = minutes + 1 /\ countMin' = countMin
      BY <1>14 DEF Clean, counters
    <2>2. \A w \in Windows : w > minutes + 1 => w > minutes
      BY <1>a
    <2>3. QED
      BY <2>1, <2>2 DEF FutureInv
  <1>15. ASSUME UNCHANGED vars PROVE FutureInv'
    BY <1>15 DEF vars, FutureInv, windows, counters
  <1>16. QED
    BY <1>1, <1>2, <1>3, <1>4, <1>5, <1>6, <1>7, <1>8, <1>9, <1>10, <1>11, <1>12, <1>13, <1>14, <1>15 DEF Next, Try, Serve


Undoing == {"undoMinHour", "undoMin"}

\* Request r moves and the others stand still.
Alone(r) ==
  /\ UNCHANGED <<minutes, client>>
  /\ \A q \in Requests \ {r} : pc'[q] = pc[q] /\ min'[q] = min[q]

\* Lemma: the requests over the limit stay the same when r neither becomes nor
\* stops being one of them.
LEMMA OverStays ==
  ASSUME NEW r \in Requests, Alone(r), NEW d,
         r \in OverMin(d) <=> r \in OverMin(d)', LimitKept
  PROVE  OverMin(d)' = OverMin(d)
PROOF
  <1>. USE DEF LimitKept
  <1>1. \A q \in Requests \ {r} : q \in OverMin(d) <=> q \in OverMin(d)'
    BY DEF Alone, OverMin
  <1>2. OverMin(d) \subseteq Requests /\ OverMin(d)' \subseteq Requests
    BY DEF OverMin
  <1>3. QED
    BY <1>1, <1>2

\* Lemma: a step of r that counts nothing keeps the count.
LEMMA NothingCounted ==
  ASSUME NEW r \in Requests, Alone(r), UNCHANGED <<countMin, keptMin>>, CountInv,
         \A d \in Clients : r \in OverMin(d) <=> r \in OverMin(d)', LimitKept
  PROVE  CountInv'
PROOF
  <1>. USE DEF LimitKept
  <1>1. \A d \in Clients : OverMin(d)' = OverMin(d)
    BY OverStays
  <1>2. ASSUME NEW d \in Clients, Counted(d) PROVE Counted(d)'
    <2>1. OverMin(d)' = OverMin(d) /\ UNCHANGED <<minutes, countMin, keptMin>>
      BY <1>1 DEF Alone
    <2>2. QED
      BY <1>2, <2>1 DEF Counted, checkHour
  <1>3. QED
    BY <1>2 DEF CountInv, checkMin

\* Lemma: what AddTo does to the counter of a client in the current window.
LEMMA AddNow ==
  ASSUME NEW count \in [Windows -> [Clients -> Int]], NEW m \in Windows,
         NEW w \in Windows, NEW c \in Clients, NEW n \in Int, NEW d \in Clients
  PROVE  AddTo(count, w, c, n)[m][d] =
           IF w = m /\ d = c THEN count[m][d] + n ELSE count[m][d]
PROOF
  BY DEF AddTo

\* Lemma: the same for a request that is taken back.
LEMMA TakeNow ==
  ASSUME NEW count \in [Windows -> [Clients -> Int]], NEW m \in Windows,
         NEW w \in Windows, NEW c \in Clients, NEW d \in Clients
  PROVE  AddTo(count, w, c, -1)[m][d] =
           IF w = m /\ d = c THEN count[m][d] + (-1) ELSE count[m][d]
PROOF
  BY MinusOne, AddNow

\* Facts about one client that the lemmas below start from.
CountFacts(d) ==
  /\ countMin \in [Windows -> [Clients -> Int]] /\ minutes \in Windows
  /\ keptMin \in [Clients -> Int] /\ client \in [Requests -> Clients]
  /\ pc \in [Requests -> Steps]
  /\ min \in [Requests -> Windows \union {NoCounter}]
  /\ Counted(d) /\ keptMin[d] <= PerMin
  /\ countMin[minutes][d] \in Int /\ keptMin[d] \in Int /\ PerMin \in Int
  /\ IsFiniteSet(OverMin(d)) /\ Cardinality(OverMin(d)) \in Nat

\* Lemma: they follow from the invariant.
LEMMA Facts ==
  ASSUME TypeOK, CountInv, checkMin, NEW d \in Clients
  PROVE  CountFacts(d)
PROOF
  <1>1. /\ countMin \in [Windows -> [Clients -> Int]] /\ minutes \in Windows
        /\ keptMin \in [Clients -> Int] /\ client \in [Requests -> Clients]
        /\ pc \in [Requests -> Steps]
        /\ min \in [Requests -> Windows \union {NoCounter}]
    BY DEF TypeOK
  <1>2. countMin[minutes][d] \in Int /\ keptMin[d] \in Int /\ PerMin \in Int
    BY <1>1, LimitNumbers DEF TypeOK
  <1>3. QED
    BY <1>1, <1>2, OverFinite DEF CountInv, CountFacts

\* Lemma: a request that is admitted or turns out to be over the limit.
LEMMA AddMinCount ==
  ASSUME TypeOK, PointerInv, CountInv, NEW r \in Requests, AddMin(r), LimitKept
  PROVE  CountInv'
PROOF
  <1>. USE DEF LimitKept
  <1> SUFFICES ASSUME checkMin, NEW d \in Clients PROVE Counted(d)' /\ keptMin'[d] <= PerMin
    BY DEF CountInv, checkMin
  <1>1. CountFacts(d)
    BY Facts
  <1>2. /\ min[r] \in Windows /\ client[r] \in Clients
        /\ countMin' = AddTo(countMin, min[r], client[r], 1) /\ UNCHANGED minutes
    BY <1>1 DEF AddMin, TypeOK, windows
  <1>3. countMin'[minutes][d] = (IF min[r] = minutes /\ d = client[r]
                                   THEN countMin[minutes][d] + 1 ELSE countMin[minutes][d])
    BY <1>1, <1>2, AddNow, 1 \in Int DEF CountFacts
  <1>4. r \notin OverMin(d)
    BY DEF AddMin, OverMin
  <1>5. Alone(r)
    BY <1>1 DEF AddMin, Admit, Goto, Alone, CountFacts, windows, request
  <1>6. CASE Fits(countMin[min[r]][client[r]], PerMin)
    <2>1. pc'[r] = "admitted"
          /\ keptMin'[d] = (IF min[r] = minutes /\ d = client[r] THEN keptMin[d] + 1 ELSE keptMin[d])
      BY <1>1, <1>6 DEF AddMin, Admit, Goto, CountFacts
    <2>2. OverMin(d)' = OverMin(d)
      <3>1. r \notin OverMin(d)'
        BY <2>1 DEF OverMin
      <3>2. QED
        BY <1>4, <1>5, <3>1, OverStays
    <2>3. min[r] = minutes /\ d = client[r] => countMin[minutes][d] < PerMin
      BY <1>6 DEF Fits
    <2>4. CASE min[r] = minutes /\ d = client[r]
      <3>1. /\ countMin'[minutes'][d] = countMin[minutes][d] + 1
            /\ keptMin'[d] = keptMin[d] + 1 /\ countMin[minutes][d] < PerMin
        BY <1>2, <1>3, <2>1, <2>3, <2>4
      <3>2. QED
        BY <1>1, <2>2, <3>1 DEF CountFacts, Counted, checkHour
    <2>5. CASE ~(min[r] = minutes /\ d = client[r])
      <3>1. countMin'[minutes'][d] = countMin[minutes][d] /\ keptMin'[d] = keptMin[d]
        BY <1>2, <1>3, <2>1, <2>5
      <3>2. QED
        BY <1>1, <2>2, <3>1 DEF CountFacts, Counted, checkHour
    <2>6. QED
      BY <2>4, <2>5
  <1>7. CASE ~Fits(countMin[min[r]][client[r]], PerMin)
    <2>1. pc'[r] = "undoMinHour" /\ UNCHANGED <<keptMin, min, client>>
      BY <1>1, <1>7 DEF AddMin, Goto, CountFacts, request, kept
    <2>2. CASE min[r] = minutes /\ d = client[r]
      <3>1. OverMin(d)' = OverMin(d) \union {r}
        BY <1>2, <1>5, <2>1, <2>2 DEF OverMin, Alone
      <3>2. Cardinality(OverMin(d)') = Cardinality(OverMin(d)) + 1
        BY <1>1, <1>4, <3>1, FS_AddElement DEF CountFacts
      <3>3. countMin'[minutes'][d] = countMin[minutes][d] + 1 /\ keptMin'[d] = keptMin[d]
        BY <1>2, <1>3, <2>1, <2>2
      <3>4. /\ countMin[minutes][d] \in Int /\ keptMin[d] \in Int
            /\ Cardinality(OverMin(d)) \in Nat /\ Counted(d) /\ keptMin[d] <= PerMin
        BY <1>1 DEF CountFacts
      <3>5. QED
        BY <3>2, <3>3, <3>4 DEF Counted, checkHour
    <2>3. CASE ~(min[r] = minutes /\ d = client[r])
      <3>1. r \notin OverMin(d)'
        BY <1>2, <2>1, <2>3 DEF OverMin
      <3>2. OverMin(d)' = OverMin(d)
        BY <1>4, <1>5, <3>1, OverStays
      <3>3. QED
        BY <1>1, <1>2, <1>3, <2>1, <2>3, <3>2 DEF CountFacts, Counted, checkHour
    <2>4. QED
      BY <2>2, <2>3
  <1>8. QED
    BY <1>6, <1>7

\* Lemma: a request that takes back the counter of the hour, or panics.
LEMMA UndoMinHourCount ==
  ASSUME TypeOK, CountInv, NEW r \in Requests, UndoMinHour(r), LimitKept
  PROVE  CountInv'
PROOF
  <1>. USE DEF LimitKept
  <1> SUFFICES ASSUME checkMin, NEW d \in Clients PROVE Counted(d)' /\ keptMin'[d] <= PerMin
    BY DEF CountInv, checkMin
  <1>1. CountFacts(d)
    BY Facts
  <1>2. Alone(r) /\ UNCHANGED <<minutes, countMin, keptMin, min, client>>
    BY <1>1 DEF UndoMinHour, Goto, Alone, CountFacts, windows, request, kept
  <1>3. CASE checkHour
    <2>1. pc[r] = "undoMinHour" /\ pc'[r] = "undoMin"
      BY <1>1, <1>3 DEF UndoMinHour, Goto, CountFacts
    <2>2. OverMin(d)' = OverMin(d)
      <3>1. r \in OverMin(d) <=> r \in OverMin(d)'
        BY <1>2, <2>1 DEF OverMin
      <3>2. QED
        BY <1>2, <3>1, OverStays
    <2>3. QED
      BY <1>1, <1>2, <2>2 DEF CountFacts, Counted, checkHour
  <1>4. CASE ~checkHour
    <2>1. OverMin(d)' \subseteq OverMin(d)
      <3>1. pc'[r] = "panic"
        BY <1>1, <1>4 DEF UndoMinHour, Goto, CountFacts
      <3>2. QED
        BY <1>2, <3>1 DEF OverMin, Alone
    <2>2. /\ Cardinality(OverMin(d)') <= Cardinality(OverMin(d))
          /\ Cardinality(OverMin(d)') \in Nat
      BY <1>1, <2>1, FS_Subset, FS_CardinalityType DEF CountFacts
    <2>3. ~checkHour'
      BY <1>4 DEF checkHour
    <2>4. QED
      BY <1>1, <1>2, <2>2, <2>3 DEF CountFacts, Counted
  <1>5. QED
    BY <1>3, <1>4

\* Lemma: a request that takes back the counter of the minute.
LEMMA UndoMinCount ==
  ASSUME TypeOK, CountInv, NEW r \in Requests, UndoMin(r), LimitKept
  PROVE  CountInv'
PROOF
  <1>. USE DEF LimitKept
  <1> SUFFICES ASSUME checkMin, NEW d \in Clients PROVE Counted(d)' /\ keptMin'[d] <= PerMin
    BY DEF CountInv, checkMin
  <1>1. CountFacts(d)
    BY Facts
  <1>2. /\ min[r] \in Windows /\ client[r] \in Clients /\ pc[r] = "undoMin"
        /\ countMin' = AddTo(countMin, min[r], client[r], -1)
        /\ UNCHANGED <<minutes, keptMin, client>>
    BY <1>1 DEF UndoMin, End, TypeOK, windows, kept
  <1>3. countMin'[minutes][d] = (IF min[r] = minutes /\ d = client[r]
                                   THEN countMin[minutes][d] + (-1) ELSE countMin[minutes][d])
    <2>1. AddTo(countMin, min[r], client[r], -1)[minutes][d] =
            IF min[r] = minutes /\ d = client[r]
              THEN countMin[minutes][d] + (-1) ELSE countMin[minutes][d]
      <3>1. countMin \in [Windows -> [Clients -> Int]] /\ minutes \in Windows
        BY <1>1 DEF CountFacts
      <3>2. min[r] \in Windows /\ client[r] \in Clients
        BY <1>2
      <3>. QED  BY <3>1, <3>2, TakeNow
    <2>2. QED
      BY <1>2, <2>1
  <1>4. Alone(r) /\ pc'[r] = "idle"
    BY <1>1, <1>2 DEF UndoMin, End, Goto, Alone, CountFacts
  <1>5. r \notin OverMin(d)'
    BY <1>4 DEF OverMin
  <1>6. CASE min[r] = minutes /\ d = client[r]
    <2>1. r \in OverMin(d)
      BY <1>2, <1>6 DEF OverMin
    <2>2. OverMin(d)' = OverMin(d) \ {r}
      BY <1>2, <1>4, <1>5 DEF OverMin, Alone
    <2>3. Cardinality(OverMin(d)') = Cardinality(OverMin(d)) - 1
      BY <1>1, <2>1, <2>2, FS_RemoveElement DEF CountFacts
    <2>4. QED
      BY <1>1, <1>2, <1>3, <1>6, <2>3 DEF CountFacts, Counted, checkHour
  <1>7. CASE ~(min[r] = minutes /\ d = client[r])
    <2>1. r \notin OverMin(d)
      BY <1>7 DEF OverMin
    <2>2. OverMin(d)' = OverMin(d)
      BY <1>4, <1>5, <2>1, OverStays
    <2>3. QED
      BY <1>1, <1>2, <1>3, <1>7, <2>2 DEF CountFacts, Counted, checkHour
  <1>8. QED
    BY <1>6, <1>7

\* Lemma: a request given back in the minute that counted it, or later.
LEMMA ReleaseCount ==
  ASSUME TypeOK, PointerInv, CountInv, NEW r \in Requests, Release(r), LimitKept
  PROVE  CountInv'
PROOF
  <1>. USE DEF LimitKept
  <1> SUFFICES ASSUME checkMin, NEW d \in Clients PROVE Counted(d)' /\ keptMin'[d] <= PerMin
    BY DEF CountInv, checkMin
  <1>1. CountFacts(d)
    BY Facts
  <1>2. /\ min[r] \in Windows /\ client[r] \in Clients /\ tagMin[r] = min[r]
        /\ min[r] = minutes => client[r] \in accessMin
    BY <1>1 DEF Release, PointerInv, MinSteps, CountFacts
  <1>3. SameMinute(r) <=> min[r] = minutes
    BY <1>1, <1>2, TagsDiffer DEF SameMinute, CountFacts
  <1>4. /\ countMin' = IF min[r] = minutes
                         THEN AddTo(countMin, minutes, client[r], -1) ELSE countMin
        /\ keptMin' = IF min[r] = minutes
                        THEN [keptMin EXCEPT ![client[r]] = @ - 1] ELSE keptMin
        /\ UNCHANGED <<minutes, client>>
    BY <1>2, <1>3 DEF Release, End, windows
  <1>5. AddTo(countMin, minutes, client[r], -1)[minutes][d] =
          IF d = client[r] THEN countMin[minutes][d] + (-1) ELSE countMin[minutes][d]
    <2>1. countMin \in [Windows -> [Clients -> Int]] /\ minutes \in Windows
      BY <1>1 DEF CountFacts
    <2>2. client[r] \in Clients
      BY <1>2
    <2>. QED  BY <2>1, <2>2, TakeNow
  <1>6. Alone(r) /\ pc'[r] = "idle" /\ pc[r] = "release"
    BY <1>1, <1>4 DEF Release, End, Goto, Alone, CountFacts
  <1>7. OverMin(d)' = OverMin(d)
    <2>1. r \notin OverMin(d) /\ r \notin OverMin(d)'
      BY <1>6 DEF OverMin
    <2>2. QED
      BY <1>6, <2>1, OverStays
  <1>8. CASE min[r] = minutes /\ d = client[r]
    <2>1. countMin'[minutes][d] = countMin[minutes][d] - 1 /\ keptMin'[d] = keptMin[d] - 1
      BY <1>1, <1>4, <1>5, <1>8 DEF CountFacts
    <2>2. QED
      BY <1>1, <1>4, <1>7, <2>1 DEF CountFacts, Counted, checkHour
  <1>9. CASE ~(min[r] = minutes /\ d = client[r])
    <2>1. countMin'[minutes][d] = countMin[minutes][d] /\ keptMin'[d] = keptMin[d]
      BY <1>1, <1>2, <1>4, <1>5, <1>9 DEF CountFacts
    <2>2. QED
      BY <1>1, <1>4, <1>7, <2>1 DEF CountFacts, Counted, checkHour
  <1>10. QED
    BY <1>8, <1>9

\* Lemma: a new minute begins with nothing counted.
LEMMA CleanCount ==
  ASSUME TypeOK, PointerInv, FutureInv, Clean, LimitKept
  PROVE  CountInv'
PROOF
  <1>. USE DEF LimitKept
  <1> SUFFICES ASSUME checkMin, NEW d \in Clients PROVE Counted(d)' /\ keptMin'[d] <= PerMin
    BY DEF CountInv, checkMin
  <1>1. minutes' = minutes + 1 /\ minutes + 1 \in Windows /\ minutes \in Int
    BY TagsAssumption DEF Clean, TypeOK, Windows
  <1>2. countMin'[minutes'][d] = 0 /\ keptMin'[d] = 0
    BY <1>1 DEF Clean, FutureInv, counters
  <1>3. \A r \in Requests : min[r] # minutes + 1
    <2>1. \A r \in Requests : min[r] = NoCounter \/ min[r] <= minutes
      BY DEF PointerInv
    <2>2. NoCounter # minutes + 1
      BY <1>1 DEF NoCounter, Windows
    <2>3. QED
      BY <1>1, <2>1, <2>2
  <1>4. OverMin(d)' = {}
    BY <1>1, <1>3 DEF Clean, OverMin, request
  <1>5. Cardinality(OverMin(d)') = 0
    BY <1>4, FS_EmptySet
  <1>6. QED
    BY <1>2, <1>5, LimitNumbers DEF Counted, TypeOK

\* Lemma: the counter of the minute keeps covering what it stands for, and the
\* limit is kept.
LEMMA CountStep ==
  ASSUME TypeOK, PointerInv, FutureInv, CountInv, [Next]_vars
  PROVE  CountInv'
PROOF
  <1>k. LimitKept
    BY LimitStays
  <1>. USE <1>k DEF LimitKept
  <1>a. /\ pc \in [Requests -> Steps] /\ client \in [Requests -> Clients]
        /\ min \in [Requests -> Windows \union {NoCounter}]
        /\ tagMin \in [Requests -> Windows]
    BY DEF TypeOK
  <1>1. ASSUME NEW r \in Requests, Arrive(r) PROVE CountInv'
    <2>1. /\ pc[r] = "idle" /\ pc'[r] = "look" /\ UNCHANGED <<minutes, min, countMin, keptMin>>
          /\ \A q \in Requests \ {r} : pc'[q] = pc[q] /\ client'[q] = client[q]
      BY <1>1, <1>a DEF Arrive, Goto, windows, counters, kept
    <2>2. \A d \in Clients : OverMin(d)' = OverMin(d)
      BY <2>1 DEF OverMin
    <2>3. QED
      BY <2>1, <2>2 DEF CountInv, Counted, checkMin, checkHour
  <1>2. ASSUME NEW r \in Requests, Look(r) PROVE CountInv'
    <2>1. Alone(r) /\ UNCHANGED <<countMin, keptMin>>
      BY <1>2, <1>a DEF Look, Goto, Tag, Alone, windows, counters, kept
    <2>2. pc[r] = "look" /\ pc'[r] \in {"lockHour", "addHour", "lockMin", "addMin"}
      BY <1>2, <1>a DEF Look, Goto
    <2>3. \A d \in Clients : r \notin OverMin(d) /\ r \notin OverMin(d)'
      BY <2>2 DEF OverMin
    <2>4. QED
      BY <2>1, <2>3, NothingCounted
  <1>3. ASSUME NEW r \in Requests, LockHour(r) PROVE CountInv'
    <2>1. Alone(r) /\ UNCHANGED <<countMin, keptMin>>
      BY <1>3, <1>a DEF LockHour, Goto, Tag, Alone, windows, counters, request,
      kept
    <2>2. pc[r] \notin Undoing /\ pc'[r] \notin Undoing
      BY <1>3, <1>a DEF LockHour, Goto, Tag, Undoing
    <2>3. \A d \in Clients : r \notin OverMin(d) /\ r \notin OverMin(d)'
      BY <2>2 DEF OverMin, Undoing
    <2>4. QED
      BY <2>1, <2>3, NothingCounted
  <1>4. ASSUME NEW r \in Requests, AddHour(r) PROVE CountInv'
    <2> SUFFICES ASSUME checkMin PROVE CountInv'
      BY DEF CountInv, checkMin
    <2>1. /\ pc[r] = "addHour" /\ UNCHANGED <<minutes, countMin, keptMin, client, min>>
          /\ \E where \in {"undoHour", "lockMin", "addMin"} : Goto(r, where)
      BY <1>4 DEF AddHour, windows, request, kept
    <2>2. Alone(r) /\ pc'[r] \in {"undoHour", "lockMin", "addMin"}
      BY <2>1, <1>a DEF Alone, Goto
    <2>3. \A d \in Clients : r \notin OverMin(d) /\ r \notin OverMin(d)'
      BY <2>1, <2>2 DEF OverMin
    <2>4. QED
      BY <2>1, <2>2, <2>3, NothingCounted
  <1>5. ASSUME NEW r \in Requests, UndoHour(r) PROVE CountInv'
    <2>1. Alone(r) /\ UNCHANGED <<countMin, keptMin>>
      BY <1>5, <1>a DEF UndoHour, End, Goto, Alone, windows, counters, request,
      kept
    <2>2. pc[r] \notin Undoing /\ pc'[r] \notin Undoing
      BY <1>5, <1>a DEF UndoHour, End, Goto, Undoing
    <2>3. \A d \in Clients : r \notin OverMin(d) /\ r \notin OverMin(d)'
      BY <2>2 DEF OverMin, Undoing
    <2>4. QED
      BY <2>1, <2>3, NothingCounted
  <1>6. ASSUME NEW r \in Requests, LockMin(r) PROVE CountInv'
    <2>1. Alone(r) /\ UNCHANGED <<countMin, keptMin>>
      BY <1>6, <1>a DEF LockMin, Goto, Tag, Alone, windows, counters, request,
      kept
    <2>2. pc[r] \notin Undoing /\ pc'[r] \notin Undoing
      BY <1>6, <1>a DEF LockMin, Goto, Tag, Undoing
    <2>3. \A d \in Clients : r \notin OverMin(d) /\ r \notin OverMin(d)'
      BY <2>2 DEF OverMin, Undoing
    <2>4. QED
      BY <2>1, <2>3, NothingCounted
  <1>7. ASSUME NEW r \in Requests, AddMin(r) PROVE CountInv'
    BY <1>7, AddMinCount
  <1>8. ASSUME NEW r \in Requests, UndoMinHour(r) PROVE CountInv'
    BY <1>8, UndoMinHourCount
  <1>9. ASSUME NEW r \in Requests, UndoMin(r) PROVE CountInv'
    BY <1>9, UndoMinCount
  <1>10. ASSUME NEW r \in Requests, Recover(r) PROVE CountInv'
    <2>1. Alone(r) /\ UNCHANGED <<countMin, keptMin>>
      BY <1>10, <1>a DEF Recover, End, Goto, Alone, windows, counters, request,
      kept
    <2>2. pc[r] \notin Undoing /\ pc'[r] \notin Undoing
      BY <1>10, <1>a DEF Recover, End, Goto, Undoing
    <2>3. \A d \in Clients : r \notin OverMin(d) /\ r \notin OverMin(d)'
      BY <2>2 DEF OverMin, Undoing
    <2>4. QED
      BY <2>1, <2>3, NothingCounted
  <1>11. ASSUME NEW r \in Requests, Reply(r) PROVE CountInv'
    <2>1. Alone(r) /\ UNCHANGED <<countMin, keptMin>>
      BY <1>11, <1>a DEF Reply, End, Goto, Alone, windows, counters, request,
      kept
    <2>2. pc[r] \notin Undoing /\ pc'[r] \notin Undoing
      BY <1>11, <1>a DEF Reply, End, Goto, Undoing
    <2>3. \A d \in Clients : r \notin OverMin(d) /\ r \notin OverMin(d)'
      BY <2>2 DEF OverMin, Undoing
    <2>4. QED
      BY <2>1, <2>3, NothingCounted
  <1>12. ASSUME NEW r \in Requests, ReplyFree(r) PROVE CountInv'
    <2>1. Alone(r) /\ UNCHANGED <<countMin, keptMin>>
      BY <1>12, <1>a DEF ReplyFree, Goto, Alone, windows, counters, request,
      kept
    <2>2. pc[r] \notin Undoing /\ pc'[r] \notin Undoing
      BY <1>12, <1>a DEF ReplyFree, Goto, Undoing
    <2>3. \A d \in Clients : r \notin OverMin(d) /\ r \notin OverMin(d)'
      BY <2>2 DEF OverMin, Undoing
    <2>4. QED
      BY <2>1, <2>3, NothingCounted
  <1>13. ASSUME NEW r \in Requests, Release(r) PROVE CountInv'
    BY <1>13, ReleaseCount
  <1>14. ASSUME Clean PROVE CountInv'
    BY <1>14, CleanCount
  <1>15. ASSUME UNCHANGED vars PROVE CountInv'
    <2>1. UNCHANGED <<minutes, countMin, keptMin, pc, client, min>>
      BY <1>15 DEF vars, windows, counters, request, kept
    <2>2. \A d \in Clients : OverMin(d)' = OverMin(d)
      BY <2>1 DEF OverMin
    <2>3. QED
      BY <2>1, <2>2 DEF CountInv, Counted, checkMin, checkHour
  <1>16. QED
    BY <1>1, <1>2, <1>3, <1>4, <1>5, <1>6, <1>7, <1>8, <1>9, <1>10, <1>11, <1>12, <1>13, <1>14, <1>15 DEF Next, Try, Serve

-----------------------------------------------------------------------------
(* The counter of the hour, as long as no hour has ended *)

\* Request r moves and the others stand still, within one hour.
AloneHour(r) ==
  /\ UNCHANGED <<hours, client>>
  /\ \A q \in Requests \ {r} : pc'[q] = pc[q] /\ hour'[q] = hour[q]

\* Whether r is one of the requests that the counter holds and that are not kept.
InHour(r, d) == IF r \in OverHour(d) THEN 1 ELSE 0

\* Lemma: such requests are finitely many.
LEMMA OverHourFinite ==
  ASSUME NEW d
  PROVE  IsFiniteSet(OverHour(d)) /\ Cardinality(OverHour(d)) \in Nat
PROOF
  BY RequestsAssumption, FS_Subset, FS_CardinalityType DEF OverHour

\* Lemma: a step of r changes their number by r alone.
LEMMA OverHourMoves ==
  ASSUME NEW r \in Requests, AloneHour(r), NEW d
  PROVE  Cardinality(OverHour(d)') = Cardinality(OverHour(d)) + InHour(r, d)' - InHour(r, d)
PROOF
  <1>1. /\ IsFiniteSet(OverHour(d)) /\ Cardinality(OverHour(d)) \in Nat
        /\ IsFiniteSet(OverHour(d)')
    <2>1. OverHour(d)' \subseteq Requests
      BY DEF OverHour
    <2>2. QED
      BY <2>1, OverHourFinite, RequestsAssumption, FS_Subset
  <1>2. \A q \in Requests \ {r} : q \in OverHour(d) <=> q \in OverHour(d)'
    BY DEF AloneHour, OverHour
  <1>3. OverHour(d) \subseteq Requests /\ OverHour(d)' \subseteq Requests
    BY DEF OverHour
  <1>4. CASE r \in OverHour(d) <=> r \in OverHour(d)'
    <2>1. OverHour(d)' = OverHour(d)
      BY <1>2, <1>3, <1>4
    <2>2. InHour(r, d)' = InHour(r, d) /\ InHour(r, d) \in Int
      BY <1>4 DEF InHour
    <2>3. QED
      BY <1>1, <2>1, <2>2
  <1>5. CASE r \notin OverHour(d) /\ r \in OverHour(d)'
    <2>1. OverHour(d)' = OverHour(d) \union {r}
      BY <1>2, <1>3, <1>5
    <2>2. Cardinality(OverHour(d)') = Cardinality(OverHour(d)) + 1
      BY <1>1, <1>5, <2>1, FS_AddElement
    <2>3. InHour(r, d)' = 1 /\ InHour(r, d) = 0
      BY <1>5 DEF InHour
    <2>4. QED
      BY <1>1, <2>2, <2>3
  <1>6. CASE r \in OverHour(d) /\ r \notin OverHour(d)'
    <2>1. OverHour(d)' = OverHour(d) \ {r}
      BY <1>2, <1>3, <1>6
    <2>2. Cardinality(OverHour(d)') = Cardinality(OverHour(d)) - 1
      BY <1>1, <1>6, <2>1, FS_RemoveElement
    <2>3. InHour(r, d)' = 0 /\ InHour(r, d) = 1
      BY <1>6 DEF InHour
    <2>4. QED
      BY <1>1, <2>2, <2>3
  <1>7. QED
    BY <1>4, <1>5, <1>6

\* Lemma: the count stays exact when what r adds to the counter is what it adds
\* to the requests the counter stands for.
LEMMA HourBalance ==
  ASSUME TypeOK, TypeOK', HourInv, checkHour, hours' = 0, hours = 0,
         NEW r \in Requests, AloneHour(r),
         \A d \in Clients : countHour'[0][d] - keptHour'[d] - InHour(r, d)'
                              = countHour[0][d] - keptHour[d] - InHour(r, d)
  PROVE  \A d \in Clients : HourCounted(d)'
PROOF
  <1> TAKE d \in Clients
  <1>1. /\ countHour[0][d] \in Int /\ countHour'[0][d] \in Int
        /\ keptHour[d] \in Int /\ keptHour'[d] \in Int
    <2>1. 0 \in Windows
      BY TagsAssumption DEF Windows
    <2>2. QED
      BY <2>1 DEF TypeOK
  <1>2. InHour(r, d) \in Int /\ InHour(r, d)' \in Int /\ Cardinality(OverHour(d)) \in Int
    BY OverHourFinite DEF InHour
  <1>3. countHour[0][d] = keptHour[d] + Cardinality(OverHour(d))
    BY DEF HourInv, HourCounted
  <1>4. Cardinality(OverHour(d)') = Cardinality(OverHour(d)) + InHour(r, d)' - InHour(r, d)
    BY OverHourMoves
  <1>5. countHour'[0][d] = keptHour'[d] + Cardinality(OverHour(d)')
    <2>1. countHour'[0][d] - keptHour'[d] - InHour(r, d)'
            = countHour[0][d] - keptHour[d] - InHour(r, d)
      OBVIOUS
    <2>2. QED
      BY <1>1, <1>2, <1>3, <1>4, <2>1
  <1>6. QED
    BY <1>5 DEF HourCounted

\* Lemma: what a request has found stays the counter of this hour.
LEMMA HourKnownStep ==
  ASSUME TypeOK, HourInv, checkHour, hours = 0, hours' = 0, [Next]_vars
  PROVE  \A r \in Requests : HourKnown(r)' /\ tagHour'[r] = 0
PROOF
  <1>k. LimitKept
    BY LimitStays
  <1>. USE <1>k DEF LimitKept
  <1>a. /\ pc \in [Requests -> Steps] /\ client \in [Requests -> Clients]
        /\ hour \in [Requests -> Windows \union {NoCounter}]
        /\ tagHour \in [Requests -> Windows] /\ NoCounter # 0
    BY DEF TypeOK, NoCounter
  <1>b. /\ \A q \in Requests : HourKnown(q)
        /\ \A q \in Requests : tagHour[q] = 0
    BY DEF HourInv
  <1>c. \A q \in Requests : pc[q] \in {"addHour", "undoHour", "lockMin", "addMin",
                                      "undoMinHour"} => hour[q] # NoCounter
    BY DEF TypeOK
  <1>1. ASSUME NEW r \in Requests, Arrive(r) PROVE \A q \in Requests : HourKnown(q)' /\ tagHour'[q] = 0
    BY <1>1, <1>a, <1>b DEF Arrive, Goto, HourKnown, maps
  <1>2. ASSUME NEW r \in Requests, Look(r) PROVE \A q \in Requests : HourKnown(q)' /\ tagHour'[q] = 0
    <2>1. /\ pc'[r] \in {"lockHour", "addHour"} /\ tagHour'[r] = 0
          /\ hour'[r] = IF client[r] \in accessHour THEN 0 ELSE NoCounter
          /\ UNCHANGED <<accessHour, client>>
      BY <1>2, <1>a DEF Look, Goto, Tag, maps
    <2>2. \A q \in Requests \ {r} :
            pc'[q] = pc[q] /\ hour'[q] = hour[q] /\ tagHour'[q] = tagHour[q]
      BY <1>2, <1>a DEF Look, Goto, Tag
    <2>3. QED
      BY <2>1, <2>2, <1>b DEF HourKnown
  <1>3. ASSUME NEW r \in Requests, LockHour(r) PROVE \A q \in Requests : HourKnown(q)' /\ tagHour'[q] = 0
    BY <1>3, <1>a, <1>b DEF LockHour, Goto, Tag, HourKnown
  <1>4. ASSUME NEW r \in Requests, AddHour(r) PROVE \A q \in Requests : HourKnown(q)' /\ tagHour'[q] = 0
    <2>1. /\ pc'[r] \in Steps \ {"idle", "look"} /\ pc[r] = "addHour"
          /\ UNCHANGED <<accessHour, client, hour, tagHour>>
          /\ \A q \in Requests \ {r} : pc'[q] = pc[q]
      BY <1>4, <1>a DEF AddHour, Admit, Goto, request, maps, Steps
    <2>2. QED
      BY <2>1, <1>b, <1>c DEF HourKnown
  <1>5. ASSUME NEW r \in Requests, UndoHour(r) PROVE \A q \in Requests : HourKnown(q)' /\ tagHour'[q] = 0
    BY <1>5, <1>a, <1>b DEF UndoHour, End, Goto, HourKnown, maps
  <1>6. ASSUME NEW r \in Requests, LockMin(r) PROVE \A q \in Requests : HourKnown(q)' /\ tagHour'[q] = 0
    BY <1>6, <1>a, <1>b DEF LockMin, Goto, Tag, HourKnown
  <1>7. ASSUME NEW r \in Requests, AddMin(r) PROVE \A q \in Requests : HourKnown(q)' /\ tagHour'[q] = 0
    <2>1. /\ pc'[r] \in {"admitted", "undoMinHour"} /\ pc[r] = "addMin"
          /\ UNCHANGED <<accessHour, client, hour, tagHour>>
          /\ \A q \in Requests \ {r} : pc'[q] = pc[q]
      BY <1>7, <1>a DEF AddMin, Admit, Goto, request, maps
    <2>2. QED
      BY <2>1, <1>b, <1>c DEF HourKnown
  <1>8. ASSUME NEW r \in Requests, UndoMinHour(r) PROVE \A q \in Requests : HourKnown(q)' /\ tagHour'[q] = 0
    BY <1>8, <1>a, <1>b DEF UndoMinHour, Goto, HourKnown, maps, request
  <1>9. ASSUME NEW r \in Requests, UndoMin(r) PROVE \A q \in Requests : HourKnown(q)' /\ tagHour'[q] = 0
    BY <1>9, <1>a, <1>b DEF UndoMin, End, Goto, HourKnown, maps
  <1>10. ASSUME NEW r \in Requests, Recover(r) PROVE \A q \in Requests : HourKnown(q)' /\ tagHour'[q] = 0
    BY <1>10, <1>a, <1>b DEF Recover, End, Goto, HourKnown, maps
  <1>11. ASSUME NEW r \in Requests, Reply(r) PROVE \A q \in Requests : HourKnown(q)' /\ tagHour'[q] = 0
    BY <1>11, <1>a, <1>b DEF Reply, End, Goto, HourKnown, maps
  <1>12. ASSUME NEW r \in Requests, ReplyFree(r) PROVE \A q \in Requests : HourKnown(q)' /\ tagHour'[q] = 0
    BY <1>12, <1>a, <1>b DEF ReplyFree, Goto, HourKnown, maps, request
  <1>13. ASSUME NEW r \in Requests, Release(r) PROVE \A q \in Requests : HourKnown(q)' /\ tagHour'[q] = 0
    BY <1>13, <1>a, <1>b DEF Release, End, Goto, HourKnown, maps
  <1>14. ASSUME Clean PROVE \A q \in Requests : HourKnown(q)' /\ tagHour'[q] = 0
    BY <1>14, <1>b DEF Clean, HourKnown, request
  <1>15. ASSUME UNCHANGED vars PROVE \A q \in Requests : HourKnown(q)' /\ tagHour'[q] = 0
    BY <1>15, <1>b DEF vars, HourKnown, maps, request
  <1>16. QED
    BY <1>1, <1>2, <1>3, <1>4, <1>5, <1>6, <1>7, <1>8, <1>9, <1>10, <1>11, <1>12, <1>13, <1>14, <1>15 DEF Next, Try, Serve

\* The steps at which the counter of the hour holds a request that is not kept.
Holding == {"undoHour", "lockMin", "addMin", "undoMinHour"}

\* Lemma: within the first hour a request is held by its step alone.
LEMMA HeldIs ==
  ASSUME TypeOK, HourInv, checkHour, hours = 0, NEW r \in Requests, NEW d
  PROVE  InHour(r, d) = IF pc[r] \in Holding /\ d = client[r] THEN 1 ELSE 0
PROOF
  <1>1. pc[r] \in Holding => hour[r] # NoCounter
    BY DEF Holding, TypeOK
  <1>2. hour[r] # NoCounter => hour[r] = hours
    BY DEF HourInv, HourKnown
  <1>3. r \in OverHour(d) <=> pc[r] \in Holding /\ d = client[r]
    BY <1>1, <1>2 DEF OverHour, Holding
  <1>4. QED
    BY <1>3 DEF InHour

\* Lemma: the counter of the hour stays exact.
LEMMA HourStep ==
  ASSUME TypeOK, TypeOK', HourInv, [Next]_vars
  PROVE  HourInv'
PROOF
  <1>l. LimitKept
    BY LimitStays
  <1>. USE <1>l DEF LimitKept
  <1> SUFFICES ASSUME checkHour, hours' = 0 PROVE HourInv'
    BY DEF HourInv, checkHour
  <1>h. hours = 0
    <2>1. hours' = hours \/ hours' = hours + 1
      BY DEF Next, Try, Serve, vars, windows, Arrive, Look, LockHour, AddHour, UndoHour,
         LockMin, AddMin, UndoMinHour, UndoMin, Recover, Reply, ReplyFree, Release, Clean
    <2>2. hours \in Nat
      BY TagsAssumption DEF TypeOK, Windows
    <2>3. QED
      BY <2>1, <2>2
  <1> USE <1>h
  <1>a. /\ pc \in [Requests -> Steps] /\ client \in [Requests -> Clients]
        /\ hour \in [Requests -> Windows \union {NoCounter}]
        /\ countHour \in [Windows -> [Clients -> Int]] /\ keptHour \in [Clients -> Int]
        /\ 0 \in Windows /\ 1 \in Int /\ -1 \in Int
    BY TagsAssumption DEF TypeOK, Windows
  <1>k. \A r \in Requests : HourKnown(r)' /\ tagHour'[r] = 0
    BY HourKnownStep
  <1>b. \A r \in Requests :
          /\ HourKnown(r) /\ tagHour[r] = 0
          /\ pc[r] \in {"addHour", "undoHour", "lockMin", "addMin", "undoMinHour"}
               => hour[r] # NoCounter
    BY DEF HourInv, TypeOK
  \* A request is held by its step alone, before and after.
  <1>c. \A r \in Requests, d \in Clients :
          InHour(r, d) = IF pc[r] \in Holding /\ d = client[r] THEN 1 ELSE 0
    BY HeldIs
  <1>d. \A r \in Requests, d \in Clients :
          InHour(r, d)' = IF pc'[r] \in Holding /\ d = client'[r] THEN 1 ELSE 0
    <2> TAKE r \in Requests, d \in Clients
    <2>1. pc'[r] \in Holding => hour'[r] # NoCounter
      BY DEF Holding, TypeOK, checkHour
    <2>2. hour'[r] # NoCounter => hour'[r] = hours'
      BY <1>k DEF HourKnown
    <2>3. r \in OverHour(d)' <=> pc'[r] \in Holding /\ d = client'[r]
      BY <2>1, <2>2 DEF OverHour, Holding
    <2>4. QED
      BY <2>3 DEF InHour
  <1>1. ASSUME NEW r \in Requests, Arrive(r) PROVE \A d \in Clients : HourCounted(d)'
    <2>1. /\ pc[r] = "idle" /\ pc'[r] = "look"
          /\ UNCHANGED <<hours, hour, countHour, keptHour>>
          /\ \A q \in Requests \ {r} : pc'[q] = pc[q] /\ client'[q] = client[q]
      BY <1>1, <1>a DEF Arrive, Goto, windows, counters, kept
    <2>2. \A d \in Clients : OverHour(d)' = OverHour(d)
      BY <2>1 DEF OverHour
    <2>3. QED
      BY <2>1, <2>2 DEF HourInv, HourCounted
  <1>2. ASSUME NEW r \in Requests, Look(r) PROVE \A d \in Clients : HourCounted(d)'
    <2>1. /\ AloneHour(r) /\ UNCHANGED <<countHour, keptHour, client>>
          /\ pc[r] \notin Holding /\ pc'[r] \notin Holding
      BY <1>2, <1>a DEF Look, Goto, Tag, AloneHour, Holding, windows, counters, kept
    <2>2. \A d \in Clients : InHour(r, d)' = InHour(r, d)
      BY <2>1, <1>c, <1>d
    <2>3. QED
      BY <2>1, <2>2, HourBalance
  <1>3. ASSUME NEW r \in Requests, LockHour(r) PROVE \A d \in Clients : HourCounted(d)'
    <2>1. /\ AloneHour(r) /\ UNCHANGED <<countHour, keptHour, client>>
          /\ pc[r] \notin Holding /\ pc'[r] \notin Holding
      BY <1>3, <1>a DEF LockHour, Goto, Tag, AloneHour, Holding, windows, counters, request, kept
    <2>2. \A d \in Clients : InHour(r, d)' = InHour(r, d)
      BY <2>1, <1>c, <1>d
    <2>3. QED
      BY <2>1, <2>2, HourBalance
  <1>4. ASSUME NEW r \in Requests, AddHour(r) PROVE \A d \in Clients : HourCounted(d)'
    <2>1. /\ AloneHour(r) /\ pc[r] = "addHour" /\ client[r] \in Clients /\ hour[r] = 0
          /\ UNCHANGED client /\ countHour' = AddTo(countHour, 0, client[r], 1)
      BY <1>4, <1>a, <1>b DEF AddHour, Admit, Goto, AloneHour, HourKnown, windows, request
    <2>2. \A d \in Clients :
            countHour'[0][d] = IF d = client[r] THEN countHour[0][d] + 1 ELSE countHour[0][d]
      BY <2>1, <1>a, AddNow
    <2>3. \/ pc'[r] \in Holding /\ keptHour' = keptHour
          \/ /\ pc'[r] = "admitted"
             /\ keptHour' = [keptHour EXCEPT ![client[r]] = @ + 1]
      BY <1>4, <2>1, <1>a DEF AddHour, Admit, Goto, Holding, kept
    <2>4. \A d \in Clients : countHour[0][d] \in Int /\ keptHour[d] \in Int
      BY <1>a
    <2>5. \A d \in Clients : countHour'[0][d] - keptHour'[d] - InHour(r, d)'
                              = countHour[0][d] - keptHour[d] - InHour(r, d)
      <3> TAKE d \in Clients
      <3>1. countHour[0][d] \in Int /\ keptHour[d] \in Int
        BY <2>4
      <3>2. CASE d = client[r]
        <4>1. InHour(r, d) = 0 /\ countHour'[0][d] = countHour[0][d] + 1
          BY <2>1, <2>2, <3>2, <1>c DEF Holding
        <4>2. \/ InHour(r, d)' = 1 /\ keptHour'[d] = keptHour[d]
              \/ InHour(r, d)' = 0 /\ keptHour'[d] = keptHour[d] + 1
          BY <2>1, <2>3, <3>2, <1>a, <1>d DEF Holding
        <4>3. QED
          BY <3>1, <4>1, <4>2
      <3>3. CASE d # client[r]
        <4>1. InHour(r, d) = 0 /\ countHour'[0][d] = countHour[0][d]
          BY <2>1, <2>2, <3>3, <1>c
        <4>2. InHour(r, d)' = 0 /\ keptHour'[d] = keptHour[d]
          BY <2>1, <2>3, <3>3, <1>a, <1>d
        <4>3. QED
          BY <3>1, <4>1, <4>2
      <3>4. QED
        BY <3>2, <3>3
    <2>6. QED
      BY <2>1, <2>5, HourBalance
  <1>5. ASSUME NEW r \in Requests, UndoHour(r) PROVE \A d \in Clients : HourCounted(d)'
    <2>1. /\ AloneHour(r) /\ pc[r] \in Holding /\ pc'[r] \notin Holding
          /\ client[r] \in Clients /\ hour[r] = 0
          /\ UNCHANGED <<client, keptHour>> /\ countHour' = AddTo(countHour, 0, client[r], -1)
      BY <1>5, <1>a, <1>b DEF UndoHour, End, Goto, AloneHour, HourKnown, Holding, windows, request, kept
    <2>2. \A d \in Clients :
            countHour'[0][d] = IF d = client[r] THEN countHour[0][d] + (-1) ELSE countHour[0][d]
      BY <2>1, <1>a, AddNow
    <2>3. \A d \in Clients : countHour[0][d] \in Int /\ keptHour[d] \in Int
      BY <1>a
    <2>4. \A d \in Clients : countHour'[0][d] - keptHour'[d] - InHour(r, d)'
                              = countHour[0][d] - keptHour[d] - InHour(r, d)
      BY <2>1, <2>2, <2>3, <1>c, <1>d
    <2>5. QED
      BY <2>1, <2>4, HourBalance
  <1>6. ASSUME NEW r \in Requests, LockMin(r) PROVE \A d \in Clients : HourCounted(d)'
    <2>1. /\ AloneHour(r) /\ UNCHANGED <<countHour, keptHour, client>>
          /\ pc[r] \in Holding /\ pc'[r] \in Holding
      BY <1>6, <1>a DEF LockMin, Goto, Tag, AloneHour, Holding, windows, counters, request, kept
    <2>2. \A d \in Clients : InHour(r, d)' = InHour(r, d)
      BY <2>1, <1>c, <1>d
    <2>3. QED
      BY <2>1, <2>2, HourBalance
  <1>7. ASSUME NEW r \in Requests, AddMin(r) PROVE \A d \in Clients : HourCounted(d)'
    <2>1. /\ AloneHour(r) /\ pc[r] = "addMin" /\ client[r] \in Clients /\ hour[r] = 0
          /\ UNCHANGED <<client, countHour>>
      BY <1>7, <1>a, <1>b DEF AddMin, Admit, Goto, AloneHour, HourKnown, windows, request
    <2>2. \/ pc'[r] = "undoMinHour" /\ keptHour' = keptHour
          \/ /\ pc'[r] = "admitted"
             /\ keptHour' = [keptHour EXCEPT ![client[r]] = @ + 1]
      BY <1>7, <2>1, <1>a DEF AddMin, Admit, Goto, kept
    <2>3. \A d \in Clients : countHour[0][d] \in Int /\ keptHour[d] \in Int
      BY <1>a
    <2>4. \A d \in Clients : countHour'[0][d] - keptHour'[d] - InHour(r, d)'
                              = countHour[0][d] - keptHour[d] - InHour(r, d)
      <3> TAKE d \in Clients
      <3>1. countHour[0][d] \in Int /\ keptHour[d] \in Int
        BY <2>3
      <3>2. CASE d = client[r]
        <4>1. InHour(r, d) = 1 /\ countHour'[0][d] = countHour[0][d]
          BY <2>1, <2>2, <3>2, <1>c DEF Holding
        <4>2. \/ InHour(r, d)' = 1 /\ keptHour'[d] = keptHour[d]
              \/ InHour(r, d)' = 0 /\ keptHour'[d] = keptHour[d] + 1
          BY <2>1, <2>2, <3>2, <1>a, <1>d DEF Holding
        <4>3. QED
          BY <3>1, <4>1, <4>2
      <3>3. CASE d # client[r]
        <4>1. InHour(r, d) = 0 /\ countHour'[0][d] = countHour[0][d]
          BY <2>1, <2>2, <3>3, <1>c
        <4>2. InHour(r, d)' = 0 /\ keptHour'[d] = keptHour[d]
          BY <2>1, <2>2, <3>3, <1>a, <1>d
        <4>3. QED
          BY <3>1, <4>1, <4>2
      <3>4. QED
        BY <3>2, <3>3
    <2>5. QED
      BY <2>1, <2>4, HourBalance
  <1>8. ASSUME NEW r \in Requests, UndoMinHour(r) PROVE \A d \in Clients : HourCounted(d)'
    <2>1. /\ AloneHour(r) /\ pc[r] \in Holding /\ pc'[r] \notin Holding
          /\ client[r] \in Clients /\ hour[r] = 0
          /\ UNCHANGED <<client, keptHour>> /\ countHour' = AddTo(countHour, 0, client[r], -1)
      BY <1>8, <1>a, <1>b DEF UndoMinHour, checkHour, Goto, AloneHour, HourKnown, Holding, windows, request, kept
    <2>2. \A d \in Clients :
            countHour'[0][d] = IF d = client[r] THEN countHour[0][d] + (-1) ELSE countHour[0][d]
      BY <2>1, <1>a, AddNow
    <2>3. \A d \in Clients : countHour[0][d] \in Int /\ keptHour[d] \in Int
      BY <1>a
    <2>4. \A d \in Clients : countHour'[0][d] - keptHour'[d] - InHour(r, d)'
                              = countHour[0][d] - keptHour[d] - InHour(r, d)
      BY <2>1, <2>2, <2>3, <1>c, <1>d
    <2>5. QED
      BY <2>1, <2>4, HourBalance
  <1>9. ASSUME NEW r \in Requests, UndoMin(r) PROVE \A d \in Clients : HourCounted(d)'
    <2>1. /\ AloneHour(r) /\ UNCHANGED <<countHour, keptHour, client>>
          /\ pc[r] \notin Holding /\ pc'[r] \notin Holding
      BY <1>9, <1>a DEF UndoMin, End, Goto, AloneHour, Holding, windows, counters, request, kept
    <2>2. \A d \in Clients : InHour(r, d)' = InHour(r, d)
      BY <2>1, <1>c, <1>d
    <2>3. QED
      BY <2>1, <2>2, HourBalance
  <1>10. ASSUME NEW r \in Requests, Recover(r) PROVE \A d \in Clients : HourCounted(d)'
    <2>1. /\ AloneHour(r) /\ UNCHANGED <<countHour, keptHour, client>>
          /\ pc[r] \notin Holding /\ pc'[r] \notin Holding
      BY <1>10, <1>a DEF Recover, End, Goto, AloneHour, Holding, windows, counters, request, kept
    <2>2. \A d \in Clients : InHour(r, d)' = InHour(r, d)
      BY <2>1, <1>c, <1>d
    <2>3. QED
      BY <2>1, <2>2, HourBalance
  <1>11. ASSUME NEW r \in Requests, Reply(r) PROVE \A d \in Clients : HourCounted(d)'
    <2>1. /\ AloneHour(r) /\ UNCHANGED <<countHour, keptHour, client>>
          /\ pc[r] \notin Holding /\ pc'[r] \notin Holding
      BY <1>11, <1>a DEF Reply, End, Goto, AloneHour, Holding, windows, counters, request, kept
    <2>2. \A d \in Clients : InHour(r, d)' = InHour(r, d)
      BY <2>1, <1>c, <1>d
    <2>3. QED
      BY <2>1, <2>2, HourBalance
  <1>12. ASSUME NEW r \in Requests, ReplyFree(r) PROVE \A d \in Clients : HourCounted(d)'
    <2>1. /\ AloneHour(r) /\ UNCHANGED <<countHour, keptHour, client>>
          /\ pc[r] \notin Holding /\ pc'[r] \notin Holding
      BY <1>12, <1>a DEF ReplyFree, Goto, AloneHour, Holding, windows, counters, request, kept
    <2>2. \A d \in Clients : InHour(r, d)' = InHour(r, d)
      BY <2>1, <1>c, <1>d
    <2>3. QED
      BY <2>1, <2>2, HourBalance
  <1>13. ASSUME NEW r \in Requests, Release(r) PROVE \A d \in Clients : HourCounted(d)'
    <2>1. /\ AloneHour(r) /\ pc[r] \notin Holding /\ pc'[r] \notin Holding
          /\ UNCHANGED client /\ client[r] \in Clients
      BY <1>13, <1>a DEF Release, End, Goto, AloneHour, Holding, windows
    <2>2. hour[r] = 0 /\ client[r] \in accessHour /\ SameHour(r)
      BY <1>13, <1>b DEF Release, HourKnown, SameHour, HourTag
    <2>3. /\ countHour' = AddTo(countHour, 0, client[r], -1)
          /\ keptHour' = [keptHour EXCEPT ![client[r]] = @ - 1]
      BY <1>13, <2>2 DEF Release
    <2>4. \A d \in Clients :
            countHour'[0][d] = IF d = client[r] THEN countHour[0][d] + (-1) ELSE countHour[0][d]
      <3> TAKE d \in Clients
      <3>1. AddTo(countHour, 0, client[r], -1)[0][d] =
              IF d = client[r] THEN countHour[0][d] + (-1) ELSE countHour[0][d]
        BY <1>a, <2>1, AddNow
      <3>2. QED
        BY <2>3, <3>1
    <2>5. \A d \in Clients : countHour[0][d] \in Int /\ keptHour[d] \in Int
      BY <1>a
    <2>6. \A d \in Clients : countHour'[0][d] - keptHour'[d] - InHour(r, d)'
                              = countHour[0][d] - keptHour[d] - InHour(r, d)
      <3> TAKE d \in Clients
      <3>1. countHour[0][d] \in Int /\ keptHour[d] \in Int
        BY <2>5
      <3>2. InHour(r, d) = 0 /\ InHour(r, d)' = 0
        BY <2>1, <1>c, <1>d
      <3>3. keptHour'[d] = IF d = client[r] THEN keptHour[d] - 1 ELSE keptHour[d]
        BY <2>3, <1>a
      <3>4. countHour'[0][d] = IF d = client[r] THEN countHour[0][d] + (-1) ELSE countHour[0][d]
        BY <2>4
      <3>5. QED
        BY <3>1, <3>2, <3>3, <3>4
    <2>7. QED
      BY <2>1, <2>6, HourBalance
  <1>14. ASSUME Clean PROVE \A d \in Clients : HourCounted(d)'
    <2>1. UNCHANGED <<hours, countHour, keptHour, pc, client, hour>>
      BY <1>14 DEF Clean, counters, request
    <2>2. \A d \in Clients : OverHour(d)' = OverHour(d)
      BY <2>1 DEF OverHour
    <2>3. QED
      BY <2>1, <2>2 DEF HourInv, HourCounted
  <1>15. ASSUME UNCHANGED vars PROVE \A d \in Clients : HourCounted(d)'
    <2>1. UNCHANGED <<hours, countHour, keptHour, pc, client, hour>>
      BY <1>15 DEF vars, windows, counters, request, kept
    <2>2. \A d \in Clients : OverHour(d)' = OverHour(d)
      BY <2>1 DEF OverHour
    <2>3. QED
      BY <2>1, <2>2 DEF HourInv, HourCounted
  <1>16. \A d \in Clients : HourCounted(d)'
    BY <1>1, <1>2, <1>3, <1>4, <1>5, <1>6, <1>7, <1>8, <1>9, <1>10, <1>11, <1>12, <1>13, <1>14, <1>15 DEF Next, Try, Serve
  <1>17. QED
    BY <1>k, <1>16 DEF HourInv

-----------------------------------------------------------------------------
\* Lemma: the invariant holds in every reachable state.
LEMMA Invariant == Spec => []IInv
PROOF
  <1>1. IInv /\ [Next]_vars => IInv'
    BY TypeStep, PointerStep, FutureStep, CountStep, HourStep DEF IInv
  <1>2. QED
    BY InitInv, <1>1, PTL DEF Spec

\* The types, and that try only adds to a counter it has found (limited/api_rate.go).
THEOREM LimitTypes == Spec => []TypeOK
PROOF
  BY Invariant, PTL DEF IInv

\* However the requests and the cleaner interleave, no more requests of a client
\* are served and kept in one minute than the limit allows.
THEOREM MinuteLimitKept == Spec => []MinuteLimit
PROOF
  <1>1. IInv => MinuteLimit
    BY DEF IInv, CountInv, MinuteLimit
  <1>2. QED
    BY Invariant, <1>1, PTL

\* With both limits on, the counter of the minute is exactly the requests kept
\* and those about to be denied: no interleaving loses or doubles a count.
THEOREM MinuteCountExact == Spec => []MinuteExact
PROOF
  <1>1. IInv => MinuteExact
    BY DEF IInv, CountInv, Counted, MinuteExact
  <1>2. QED
    BY Invariant, <1>1, PTL

\* With a limit of the hour, and until an hour ends, its counter is exactly the
\* requests kept and those on their way through try that hold a count
\* (limited/api_rate.go): none is lost and none is taken back twice.
THEOREM HourCountExact == Spec => []HourExact
PROOF
  <1>1. IInv => HourExact
    BY DEF IInv, HourInv, HourCounted, HourExact
  <1>2. QED
    BY Invariant, <1>1, PTL
-----------------------------------------------------------------------------
(* The token *)

TokenStages == {"idle", "expired", "soon", "challenge", "fetch", "refresh"}

TokenTypes ==
  /\ clock \in Nat
  /\ token \in [no : Nat, expires : Int]
  /\ call \in [Token!Threads -> TokenStages]

\* Who asks the server holds the lock, alone, and the token is still as it was found then.
HolderInv ==
  \A t \in Token!Threads :
    /\ call[t] \in {"challenge", "fetch", "refresh"} => lock = {t}
    /\ call[t] \in {"challenge", "fetch"} => Token!Expired
    /\ call[t] = "refresh" => Token!ExpiresSoon

TokenInv == TokenTypes /\ HolderInv
-----------------------------------------------------------------------------
(* The token: steps *)

LEMMA TokenStart == Token!Init => TokenInv
  BY DEF Token!Init, Token!None, Token!Threads, TokenInv, TokenTypes, TokenStages, HolderInv

\* Those that ask nobody: a look at the token, a step of fetchToken, the clock.
LEMMA LookKeeps ==
  ASSUME TokenInv,
         \/ Token!Tick
         \/ \E c \in Callers : Token!GetAuthToken(c) \/ Token!Challenge(c)
  PROVE  TokenInv'
<1>. USE DEF TokenInv, TokenTypes, TokenStages, HolderInv, Token!Threads,
             Token!Expired, Token!ExpiresSoon, Token!None, Token!At, Token!Goes
<1>0. Soon \in Nat
  BY LifetimesAssumption
<1>1. CASE Token!Tick
  BY <1>0, <1>1 DEF Token!Tick
<1>2. ASSUME NEW c \in Callers, Token!GetAuthToken(c) PROVE TokenInv'
  BY <1>2 DEF Token!GetAuthToken
<1>3. ASSUME NEW c \in Callers, Token!Challenge(c) PROVE TokenInv'
  BY <1>3 DEF Token!Challenge
<1>. QED  BY <1>1, <1>2, <1>3

\* Those that get the lock find it free.
LEMMA LockKeeps ==
  ASSUME TokenInv,
         \/ \E c \in Callers : Token!Lock(c)
         \/ \E r \in Refreshers : Token!LockToRefresh(r)
  PROVE  TokenInv'
<1>. USE DEF TokenInv, TokenTypes, TokenStages, HolderInv, Token!Threads,
             Token!Expired, Token!ExpiresSoon, Token!None, Token!At, Token!Goes, Token!Free
<1>1. ASSUME NEW c \in Callers, Token!Lock(c) PROVE TokenInv'
  BY <1>1 DEF Token!Lock
<1>2. ASSUME NEW r \in Refreshers, Token!LockToRefresh(r) PROVE TokenInv'
  BY <1>2 DEF Token!LockToRefresh
<1>. QED  BY <1>1, <1>2

\* A thread that is done with the server is the only one that asked it.
Unlocking(t) ==
  /\ call[t] \in {"challenge", "fetch", "refresh"}
  /\ Token!Unlocks(t) /\ UNCHANGED clock
  /\ token' \in [no : Nat, expires : Int]

LEMMA UnlockKeeps ==
  ASSUME TokenInv, NEW t \in Token!Threads, Unlocking(t)
  PROVE  TokenInv'
<1>1. \A u \in Token!Threads : call'[u] \notin {"challenge", "fetch", "refresh"}
  BY DEF Unlocking, Token!Unlocks, Token!Goes, TokenInv, TokenTypes, HolderInv
<1>2. TokenTypes'
  BY DEF Unlocking, Token!Unlocks, Token!Goes, TokenInv, TokenTypes, TokenStages
<1>. QED  BY <1>1, <1>2 DEF TokenInv, HolderInv

LEMMA NewTokenType ==
  ASSUME TokenTypes, Token!NewToken
  PROVE  token' \in [no : Nat, expires : Int]
  BY LifetimesAssumption DEF TokenTypes, Token!NewToken

LEMMA CallersUnlock ==
  ASSUME TokenInv, NEW c \in Callers, Token!Fetched(c) \/ Token!FetchFails(c)
  PROVE  Unlocking(c)
  BY NewTokenType DEF TokenInv, TokenTypes, Token!Fetched, Token!FetchFails, Token!None,
     Token!At, Unlocking

LEMMA RefreshersUnlock ==
  ASSUME TokenInv, NEW r \in Refreshers, Token!Refreshed(r) \/ Token!RefreshFails(r)
  PROVE  Unlocking(r)
  BY NewTokenType DEF TokenInv, TokenTypes, Token!Refreshed, Token!RefreshFails, Token!At,
     Unlocking

LEMMA TokenKept == TokenInv /\ [Token!Next]_(Token!vars) => TokenInv'
<1>. SUFFICES ASSUME TokenInv, [Token!Next]_(Token!vars) PROVE TokenInv'
  OBVIOUS
<1>1. CASE UNCHANGED Token!vars
  BY <1>1 DEF Token!vars, TokenInv, TokenTypes, HolderInv, Token!Expired, Token!ExpiresSoon
<1>2. CASE Token!Next
  BY <1>2, LookKeeps, LockKeeps, UnlockKeeps, CallersUnlock, RefreshersUnlock
     DEF Token!Next, Token!Threads
<1>. QED  BY <1>1, <1>2

\* Callers and refreshers, however many, and tokens of any life: a token that callers have
\* is replaced by a fetch only after it has expired, and by a refresh in its last ten
\* minutes (TokensLast), since who asks the server holds the lock from the second look on.
THEOREM TokensAreKept == Token!Spec => TokensLast
<1>1. TokenInv /\ [Token!Next]_(Token!vars) =>
        [token' # token /\ token # Token!None =>
           IF \E c \in Callers : Token!At(c, "challenge") \/ Token!At(c, "fetch")
           THEN Token!Expired ELSE Token!ExpiresSoon]_(Token!vars)
  <2>. SUFFICES ASSUME TokenInv, Token!Next, token' # token
       PROVE  IF \E c \in Callers : Token!At(c, "challenge") \/ Token!At(c, "fetch")
              THEN Token!Expired ELSE Token!ExpiresSoon
    OBVIOUS
  <2>1. \/ \E c \in Callers : Token!Fetched(c) \/ Token!FetchFails(c)
        \/ \E r \in Refreshers : Token!Refreshed(r)
    BY DEF Token!Next, Token!Tick, Token!GetAuthToken, Token!Lock, Token!Challenge,
       Token!LockToRefresh, Token!RefreshFails
  <2>2. CASE \E c \in Callers : Token!Fetched(c) \/ Token!FetchFails(c)
    BY <2>2 DEF TokenInv, HolderInv, Token!Threads, Token!At, Token!Fetched, Token!FetchFails
  <2>3. CASE \E r \in Refreshers : Token!Refreshed(r)
    BY <2>3 DEF TokenInv, HolderInv, Token!Threads, Token!At, Token!Refreshed
  <2>. QED  BY <2>1, <2>2, <2>3
<1>. QED  BY <1>1, TokenStart, TokenKept, PTL DEF Token!Spec, TokensLast, Token!TokensLast

-----------------------------------------------------------------------------
(* The index of the hijacker's cache *)

Entries == [size : Nat, expires : Int]
Index == [Paths -> Entries]

RequestType ==
  [stage : {"idle", "look", "cached", "forced", "reading", "remote", "copying", "unnamed", "copied"},
   path : Paths \union {"none"}, at : Nat, cached : Entries, size : Nat, age : Nat]

IndexTypes ==
  /\ watch \in Nat
  /\ cache \in Index /\ saved \in Index \union {Hijack!Torn}
  /\ req \in [HijackRequests -> RequestType]
  /\ \A r \in HijackRequests : req[r].stage # "idle" => req[r].path \in Paths
  /\ strays \in Nat /\ called \in Nat /\ saving \in Nat

\* What is on its way, or the two are the same.
IndexInv == IndexTypes /\ NothingUnsaved
-----------------------------------------------------------------------------
(* The index: steps *)

LEMMA IdleType == Hijack!Idle \in RequestType /\ Hijack!Idle.stage = "idle"
<1>1. Hijack!None \in Entries
  BY DEF Hijack!None, Entries
<1>. HIDE DEF Entries
<1>. QED  BY <1>1 DEF Hijack!Idle, RequestType

\* A request in another stage.
LEMMA StageType ==
  ASSUME NEW q \in RequestType,
         NEW s \in {"look", "cached", "forced", "reading", "remote", "copying", "unnamed", "copied"}
  PROVE  [q EXCEPT !.stage = s] \in RequestType /\ [q EXCEPT !.stage = s].path = q.path
BY DEF RequestType

\* A request that has looked into the index.
LEMMA CachedType ==
  ASSUME NEW q \in RequestType, NEW e \in Entries
  PROVE  /\ [q EXCEPT !.stage = "cached", !.cached = e] \in RequestType
         /\ [q EXCEPT !.stage = "cached", !.cached = e].path = q.path
BY DEF RequestType

LEMMA IndexStart == Hijack!Init => IndexInv
<1>1. Hijack!Empty \in Index
  BY DEF Hijack!Empty, Hijack!None, Index, Entries
<1>2. Hijack!Init => IndexTypes
  BY <1>1, IdleType DEF Hijack!Init, IndexTypes
<1>3. Hijack!Init => NothingUnsaved
  BY DEF Hijack!Init, Hijack!Loaded, NothingUnsaved, Hijack!NothingUnsaved
<1>. QED  BY <1>2, <1>3 DEF IndexInv

\* An index that was saved is read as it was.
LEMMA RealIndex == ASSUME NEW i \in Index PROVE i = Hijack!Torn => i = Hijack!Empty
<1>1. CASE Paths = {}
  BY <1>1 DEF Index, Hijack!Torn, Hijack!Empty
<1>2. ASSUME NEW p \in Paths PROVE i # Hijack!Torn
  <2>1. i[p].size \in Nat
    BY DEF Index, Entries
  <2>2. Hijack!Torn[p].size = -1
    BY DEF Hijack!Torn
  <2>. QED  BY <2>1, <2>2
<1>. QED  BY <1>1, <1>2

\* A request changes the index in SetCache alone.
LEMMA RequestKeepsIndex ==
  ASSUME IndexInv, NEW r \in HijackRequests,
         \/ \E p \in Paths : Hijack!ServeHTTP(r, p)
         \/ Hijack!GetCache(r) \/ Hijack!FromCache(r) \/ Hijack!Answered(r)
         \/ Hijack!RemoteFails(r)
         \/ \E n \in Sizes, age \in Ages : Hijack!RemoteAnswers(r, n, age)
         \/ Hijack!Copied(r) \/ Hijack!CopyFails(r)
  PROVE  IndexInv'
<1>. USE DEF IndexInv, IndexTypes, RequestType, Entries, Hijack!At, Hijack!Goes, Hijack!Ends, Hijack!Path,
             Hijack!Idle, Hijack!None
<1>0. Sizes \subseteq Nat /\ Ages \subseteq Nat
  BY AnswersAssumption
<1>1. UNCHANGED <<watch, Hijack!indexVars, Hijack!timerVars>>
  BY DEF Hijack!ServeHTTP, Hijack!GetCache, Hijack!FromCache, Hijack!Answered,
     Hijack!RemoteFails, Hijack!RemoteAnswers, Hijack!Copied, Hijack!CopyFails
<1>2. /\ req' \in [HijackRequests -> RequestType]
      /\ \A q \in HijackRequests : req'[q].stage # "idle" => req'[q].path \in Paths
  <2>1. ASSUME NEW p \in Paths, Hijack!ServeHTTP(r, p) PROVE <1>2!:
    <3>. DEFINE new == [Hijack!Idle EXCEPT !.stage = "look", !.path = p, !.at = watch]
    <3>1. new \in RequestType /\ new.path \in Paths
      BY IdleType
    <3>2. req' = [req EXCEPT ![r] = new]
      BY <2>1 DEF Hijack!ServeHTTP
    <3>. HIDE DEF new
    <3>. QED  BY <3>1, <3>2
  <2>2. CASE Hijack!GetCache(r)
    <3>1. req[r].path \in Paths
      BY <2>2 DEF Hijack!GetCache
    <3>2. cache[req[r].path] \in Entries
      BY <3>1 DEF Index
    <3>. DEFINE e == cache[req[r].path]
                new == [req[r] EXCEPT !.stage = "cached", !.cached = e]
    <3>3. req' = [req EXCEPT ![r] = new]
      BY <2>2 DEF Hijack!GetCache
    <3>4. e \in Entries /\ req[r] \in RequestType
      BY <3>2
    <3>. HIDE DEF e, RequestType, Entries
    <3>5. new \in RequestType /\ new.path \in Paths
      BY <3>1, <3>4, CachedType
    <3>. HIDE DEF new
    <3>. QED  BY <3>3, <3>5
  <2>3. CASE Hijack!FromCache(r)
    <3>1. req[r].stage # "idle"
      BY <2>3 DEF Hijack!FromCache
    <3>2. CASE Hijack!Ends(r)
      BY <3>2
    <3>3. ASSUME NEW s \in {"reading", "remote"}, Hijack!Goes(r, s) PROVE <1>2!:
      <4>. DEFINE new == [req[r] EXCEPT !.stage = s]
      <4>1. req' = [req EXCEPT ![r] = new]
        BY <3>3
      <4>2. req[r] \in RequestType /\ req[r].path \in Paths
        BY <3>1
      <4>3. new \in RequestType /\ new.path \in Paths
        <5>. HIDE DEF RequestType
        <5>1. [req[r] EXCEPT !.stage = s] \in RequestType /\ [req[r] EXCEPT !.stage = s].path = req[r].path
          BY <4>2, StageType
        <5>. QED  BY <4>2, <5>1
      <4>. HIDE DEF new, RequestType
      <4>. QED  BY <4>1, <4>3
    <3>. QED  BY <2>3, <3>2, <3>3 DEF Hijack!FromCache
  <2>4. CASE Hijack!Answered(r)
    BY <2>4 DEF Hijack!Answered
  <2>5. CASE Hijack!RemoteFails(r)
    BY <2>5 DEF Hijack!RemoteFails
  <2>6. ASSUME NEW n \in Sizes, NEW age \in Ages, Hijack!RemoteAnswers(r, n, age) PROVE <1>2!:
    <3>1. req[r].stage # "idle" /\ n \in Nat /\ age \in Nat
      BY <1>0, <2>6 DEF Hijack!RemoteAnswers
    <3>2. \/ req' = [req EXCEPT ![r].stage = "reading"]
          \/ req' = [req EXCEPT ![r].stage = "copying", ![r].size = n, ![r].age = age]
      BY <2>6 DEF Hijack!RemoteAnswers
    <3>3. CASE req' = [req EXCEPT ![r].stage = "reading"]
      BY <3>1, <3>3
    <3>4. CASE req' = [req EXCEPT ![r].stage = "copying", ![r].size = n, ![r].age = age]
      <4>. DEFINE new == [req[r] EXCEPT !.stage = "copying", !.size = n, !.age = age]
      <4>1. new \in RequestType /\ new.path \in Paths
        BY <3>1
      <4>2. req' = [req EXCEPT ![r] = new]
        BY <3>4
      <4>. HIDE DEF new
      <4>. QED  BY <4>1, <4>2
    <3>. QED  BY <3>2, <3>3, <3>4
  <2>7. CASE Hijack!Copied(r)
    BY <2>7 DEF Hijack!Copied
  <2>8. CASE Hijack!CopyFails(r)
    <3>1. ASSUME NEW q \in HijackRequests
          PROVE  req'[q] \in RequestType /\ (req'[q].stage # "idle" => req'[q].path \in Paths)
      <4>1. \/ req'[q] = Hijack!Idle
            \/ req'[q] = req[q]
            \/ Hijack!Unnamed(r, q) /\ req'[q] = [req[q] EXCEPT !.stage = "unnamed"]
        BY <2>8 DEF Hijack!CopyFails
      <4>2. CASE Hijack!Unnamed(r, q) /\ req'[q] = [req[q] EXCEPT !.stage = "unnamed"]
        BY <4>2 DEF Hijack!Unnamed
      <4>. QED  BY <4>1, <4>2, IdleType
    <3>2. DOMAIN req' = HijackRequests /\ req' = [q \in HijackRequests |-> req'[q]]
      BY <2>8 DEF Hijack!CopyFails
    <3>. HIDE DEF RequestType
    <3>. QED  BY <3>1, <3>2
  <2>. QED  BY <2>1, <2>2, <2>3, <2>4, <2>5, <2>6, <2>7, <2>8
<1>. QED
  BY <1>1, <1>2 DEF Hijack!indexVars, Hijack!timerVars, NothingUnsaved, Hijack!NothingUnsaved, Hijack!Loaded

LEMMA SetCacheKeepsIndex ==
  ASSUME IndexInv, NEW r \in HijackRequests, Hijack!SetCache(r)
  PROVE  IndexInv'
<1>. USE DEF IndexInv, IndexTypes, RequestType, Entries, Hijack!At, Hijack!Goes, Hijack!Path
<1>1. Hijack!Entry(r) \in Entries
  BY DEF Hijack!Entry
<1>2. cache' \in Index
  BY <1>1 DEF Hijack!SetCache, Index
<1>3. armed' = TRUE
  BY DEF Hijack!SetCache, Hijack!StartTimer
<1>4. NothingUnsaved'
  BY <1>3 DEF NothingUnsaved, Hijack!NothingUnsaved
<1>. QED
  BY <1>2, <1>3, <1>4 DEF Hijack!SetCache

\* The timers, their functions, the clock and a restart.
LEMMA ProcessKeepsIndex ==
  ASSUME IndexInv,
         \/ Hijack!Tick \/ Hijack!Fire \/ Hijack!SaveBegins \/ Hijack!SaveEnds \/ Hijack!Restart
  PROVE  IndexInv'
<1>. USE DEF IndexInv
<1>1. CASE Hijack!Tick
  BY <1>1 DEF Hijack!Tick, Hijack!indexVars, Hijack!timerVars, IndexTypes, NothingUnsaved,
     Hijack!NothingUnsaved, Hijack!Loaded
<1>2. CASE Hijack!Fire
  <2>1. IndexTypes'
    BY <1>2 DEF Hijack!Fire, Hijack!indexVars, IndexTypes
  <2>2. called' > 0
    BY <1>2 DEF Hijack!Fire, IndexTypes
  <2>. QED  BY <2>1, <2>2 DEF NothingUnsaved, Hijack!NothingUnsaved
<1>3. CASE Hijack!SaveBegins
  <2>1. IndexTypes'
    BY <1>3 DEF Hijack!SaveBegins, IndexTypes
  <2>2. saving' > 0 \/ failed'
    BY <1>3 DEF Hijack!SaveBegins, IndexTypes
  <2>. QED  BY <2>1, <2>2 DEF NothingUnsaved, Hijack!NothingUnsaved
<1>4. CASE Hijack!SaveEnds
  BY <1>4, RealIndex DEF Hijack!SaveEnds, IndexTypes, NothingUnsaved, Hijack!NothingUnsaved, Hijack!Loaded
<1>5. CASE Hijack!Restart
  <2>1. Hijack!Empty \in Index
    BY DEF Hijack!Empty, Hijack!None, Index, Entries
  <2>2. Hijack!Loaded \in Index
    BY <2>1 DEF IndexTypes, Hijack!Loaded
  <2>3. req' \in [HijackRequests -> RequestType]
        /\ \A r \in HijackRequests : req'[r].stage = "idle"
    BY <1>5 DEF Hijack!Restart, Hijack!Idle, Hijack!None, RequestType, Entries
  <2>. QED
    BY <1>5, <2>2, <2>3 DEF Hijack!Restart, IndexTypes, NothingUnsaved, Hijack!NothingUnsaved, Hijack!Loaded
<1>. QED  BY <1>1, <1>2, <1>3, <1>4, <1>5

LEMMA IndexKept == IndexInv /\ [Hijack!Next]_(Hijack!vars) => IndexInv'
<1>. SUFFICES ASSUME IndexInv, [Hijack!Next]_(Hijack!vars) PROVE IndexInv'
  OBVIOUS
<1>1. CASE UNCHANGED Hijack!vars
  BY <1>1 DEF Hijack!vars, Hijack!indexVars, Hijack!timerVars, IndexInv, IndexTypes, NothingUnsaved,
     Hijack!NothingUnsaved, Hijack!Loaded
<1>2. CASE Hijack!Next
  BY <1>2, RequestKeepsIndex, SetCacheKeepsIndex, ProcessKeepsIndex DEF Hijack!Next
<1>. QED  BY <1>1, <1>2

\* Any requests, paths, timers and restarts: a change of the index is in its file, on its way
\* there by a timer, a function of one or a write, or in a write that failed.
THEOREM IndexIsSaved == Hijack!Spec => []NothingUnsaved
  BY IndexStart, IndexKept, PTL DEF Hijack!Spec, IndexInv

-----------------------------------------------------------------------------
(* The budget of bytes *)

Call == [stage : {"idle", "asleep", "busy"}, op : {"none", "read", "write"} \union Copies,
         want : Nat, until : Int, late : BOOLEAN, grant : Nat, after : Int, deadline : Int]

\* A call that is not late sleeps until its stream may go on.
Sleeping(c) == c.stage = "asleep" /\ ~c.late => c.until = c.after

\* The streams that have had their part of a window: they sleep to its end.
Rested(calls, last) == {s \in Streams : calls[s].after >= last + Second}
DoneReading == Rested(reader, reads.last)
DoneWriting == Rested(writer, writes.last)

\* A read between its grant and its bytes is not done, and was granted no more than the
\* budget.  Each stream that is done has had a share at most beside the bytes counted, and
\* the bytes counted have left something of the budget while others could go on.
ReadBudget ==
  ReadRate > 0 =>
    /\ \A s \in Streams : reader[s].grant <= ReadRate
    /\ \A s \in Streams : reader[s].stage = "busy" => s \notin DoneReading
    /\ got <= reads.count + Cardinality(DoneReading) * ReadRate
    /\ got < ReadRate + Cardinality(DoneReading) * ReadRate

\* The bytes counted are less than twice the budget, and each stream that is done has
\* written one smallest chunk more.
WriteBudget ==
  WriteRate > 0 =>
    /\ writes.wrote < 2 * WriteRate
    /\ sent <= writes.wrote + Cardinality(DoneWriting) * MinWriteRate

ReadSide ==
  /\ reads \in [last : Nat, pre : Int, count : Nat] /\ reads.last <= now
  /\ reader \in [Streams -> Call] /\ got \in Nat
  /\ \A s \in Streams : Sleeping(reader[s])
  /\ ReadBudget

WriteSide ==
  /\ writes \in [last : Nat, wrote : Nat] /\ writes.last <= now
  /\ writer \in [Streams -> Call] /\ sent \in Nat
  /\ \A s \in Streams : Sleeping(writer[s])
  /\ WriteBudget

RateInv == used \in Nat /\ now \in Nat /\ ReadSide /\ WriteSide
-----------------------------------------------------------------------------
(* The budget of bytes: numbers and calls *)

LEMMA TimesMore == ASSUME NEW k \in Nat, NEW n \in Nat PROVE (k + 1) * n = k * n + n /\ k * n \in Nat
  OBVIOUS

LEMMA TimesMonotone ==
  ASSUME NEW k \in Nat, NEW l \in Nat, NEW n \in Nat, k <= l PROVE k * n <= l * n
  OBVIOUS

LEMMA PartIsLess == ASSUME NEW a \in Nat, NEW b \in Nat \ {0} PROVE a \div b \in Nat /\ a \div b <= a
  OBVIOUS

LEMMA ShareIsPart ==
  ASSUME used \in Nat PROVE Rates!Share \in Nat /\ Rates!Share <= ReadRate
  BY RatesAssumption, PartIsLess DEF Rates!Share, Rates!HasShare, Rates!SlotsTaken

\* How many are done is a number, and no more than there are streams.
LEMMA RestedFinite ==
  ASSUME NEW calls, NEW last
  PROVE  /\ IsFiniteSet(Rested(calls, last))
         /\ Cardinality(Rested(calls, last)) \in Nat
         /\ Cardinality(Rested(calls, last)) <= Cardinality(Streams)
         /\ Cardinality(Streams) \in Nat
<1>1. Rested(calls, last) \subseteq Streams
  BY DEF Rested
<1>. QED  BY <1>1, StreamsAssumption, FS_Subset, FS_CardinalityType

\* One stream moves, and is or becomes done: the others count as before.
LEMMA RestedMore ==
  ASSUME NEW calls \in [Streams -> Call], NEW s \in Streams, NEW x \in Call, NEW last \in Nat,
         x.after >= last + Second, s \notin Rested(calls, last)
  PROVE  /\ Cardinality(Rested([calls EXCEPT ![s] = x], last)) = Cardinality(Rested(calls, last)) + 1
         /\ s \in Rested([calls EXCEPT ![s] = x], last)
<1>1. Rested([calls EXCEPT ![s] = x], last) = Rested(calls, last) \union {s}
  BY DEF Rested
<1>. QED  BY <1>1, RestedFinite, FS_AddElement

LEMMA RestedSame ==
  ASSUME NEW calls \in [Streams -> Call], NEW s \in Streams, NEW x \in Call, NEW last,
         x.after >= last + Second <=> s \in Rested(calls, last)
  PROVE  Rested([calls EXCEPT ![s] = x], last) = Rested(calls, last)
  BY DEF Rested

\* If one is done, that is at least one.
LEMMA RestedOne ==
  ASSUME NEW calls, NEW last, NEW s \in Rested(calls, last)
  PROVE  Cardinality(Rested(calls, last)) >= 1
<1>1. {s} \subseteq Rested(calls, last)
  OBVIOUS
<1>2. Cardinality({s}) = 1
  BY FS_Singleton
<1>3. Cardinality({s}) <= Cardinality(Rested(calls, last))
  BY <1>1, RestedFinite, FS_Subset
<1>4. Cardinality(Rested(calls, last)) \in Nat
  BY RestedFinite
<1>. QED  BY <1>2, <1>3, <1>4

\* What becomes of a call.
LEMMA SleepsCall ==
  ASSUME NEW c \in Call, NEW op \in {"none", "read", "write"} \union Copies, NEW n \in Nat, now \in Nat
  PROVE  /\ Rates!Sleeps(c, op, n) \in Call /\ Sleeping(Rates!Sleeps(c, op, n))
         /\ Rates!Sleeps(c, op, n).after = c.after /\ Rates!Sleeps(c, op, n).grant = 0
         /\ Rates!Sleeps(c, op, n).stage = "asleep"
  BY DEF Rates!Sleeps, Rates!Never, Call, Sleeping

LEMMA IdleCall == Rates!Idle \in Call /\ Rates!Idle.stage = "idle" /\ Rates!Idle.grant = 0
  BY DEF Rates!Idle, Rates!Never, Call

LEMMA EndedCall ==
  ASSUME NEW c \in Call
  PROVE  /\ Rates!Ended(c) \in Call /\ Sleeping(Rates!Ended(c))
         /\ Rates!Ended(c).after = c.after /\ Rates!Ended(c).grant = 0
         /\ Rates!Ended(c).stage = "idle"
<1>1. c.after \in Int /\ c.deadline \in Int
  BY DEF Call
<1>. QED  BY <1>1, IdleCall DEF Rates!Ended, Call, Sleeping

-----------------------------------------------------------------------------
(* Reads *)

Window == [last : Nat, pre : Int, count : Nat]

\* The second of the window that began at last is over.
Over(last) == last + Second <= now

LEMMA PreReadIs ==
  ASSUME used \in Nat, now \in Nat, reads \in Window, NEW n \in Nat
  PROVE  /\ Rates!PreRead(n).window \in Window /\ Rates!PreRead(n).m \in Nat
         /\ ReadRate > 0 => Rates!PreRead(n).m <= ReadRate
         /\ ReadRate > 0 /\ Over(reads.last) =>
              Rates!PreRead(n).window.last = now /\ Rates!PreRead(n).window.count = 0
         /\ ReadRate = 0 \/ ~Over(reads.last) =>
              /\ Rates!PreRead(n).window.last = reads.last
              /\ Rates!PreRead(n).window.count = reads.count
<1>. DEFINE m == Rates!Smaller(n, Rates!Share)
<1>1. m \in Nat /\ m <= ReadRate
  BY ShareIsPart, RatesAssumption DEF Rates!Smaller
<1>. HIDE DEF m
<1>2. ReadRate \in Nat /\ MinReadRate \in Nat /\ Second \in Nat \ {0}
  BY RatesAssumption, SecondAssumption
<1>3. Rates!Smaller(MinReadRate, m) \in Nat /\ Rates!Smaller(MinReadRate, m) <= ReadRate
  BY <1>1, <1>2 DEF Rates!Smaller
<1>. DEFINE w == IF Rates!Rest(reads.last) <= 0 THEN [last |-> now, pre |-> 0, count |-> 0] ELSE reads
<1>4. /\ w \in Window
      /\ Over(reads.last) => w.last = now /\ w.count = 0
      /\ ~Over(reads.last) => w = reads
  BY <1>2 DEF Window, Rates!Rest, Over
<1>5. Rates!PreRead(n) =
        IF ReadRate = 0 THEN [window |-> reads, m |-> n]
        ELSE IF w.pre >= ReadRate THEN [window |-> w, m |-> Rates!Smaller(MinReadRate, m)]
        ELSE [window |-> [w EXCEPT !.pre = @ + m], m |-> m]
  BY DEF Rates!PreRead, m
<1>. HIDE DEF w
<1>6. [w EXCEPT !.pre = @ + m] \in Window /\ [w EXCEPT !.pre = @ + m].last = w.last
      /\ [w EXCEPT !.pre = @ + m].count = w.count
  BY <1>1, <1>4 DEF Window
<1>. QED  BY <1>1, <1>2, <1>3, <1>4, <1>5, <1>6

LEMMA AfterReadIs ==
  ASSUME used \in Nat, now \in Nat, reads \in Window, NEW n \in Nat, NEW less \in Int,
         ReadRate > 0
  PROVE  \E m \in Nat :
           /\ m <= ReadRate
           /\ m # n => m < n /\ Rates!AfterRead(n, less).pause = Second
           /\ Rates!AfterRead(n, less).window \in Window
           /\ Rates!AfterRead(n, less).pause \in Int
           /\ Over(reads.last) =>
                /\ Rates!AfterRead(n, less).window.last = now
                /\ Rates!AfterRead(n, less).window.count = m
                /\ m = ReadRate => Rates!AfterRead(n, less).pause = Second
           /\ ~Over(reads.last) =>
                /\ Rates!AfterRead(n, less).window.last = reads.last
                /\ Rates!AfterRead(n, less).window.count = reads.count + m
                /\ \/ Rates!AfterRead(n, less).pause = Second
                   \/ /\ reads.count + m >= ReadRate
                      /\ Rates!AfterRead(n, less).pause = reads.last + Second - now
                   \/ reads.count + m < ReadRate
<1>. DEFINE m == Rates!Smaller(n, Rates!Share)
<1>1. m \in Nat /\ m <= ReadRate /\ m <= n /\ (m < n => m = Rates!Share)
      /\ Rates!Share \in Nat /\ Rates!Share <= ReadRate
  BY ShareIsPart, RatesAssumption DEF Rates!Smaller
<1>. DEFINE w == IF Rates!Rest(reads.last) <= 0 THEN [last |-> now, pre |-> 0, count |-> m]
                 ELSE [reads EXCEPT !.pre = @ - less, !.count = @ + m]
<1>2. ReadRate \in Nat /\ Second \in Nat \ {0}
  BY RatesAssumption, SecondAssumption
<1>3. Rates!AfterRead(n, less) =
        [window |-> w,
         pause  |-> IF m >= Rates!Share THEN Second
                    ELSE IF w.count >= ReadRate THEN Rates!Rest(reads.last) ELSE 0]
  BY DEF Rates!AfterRead, Rates!Settled, m
<1>. HIDE DEF m
<1>4. /\ w \in Window
      /\ Over(reads.last) => w.last = now /\ w.count = m
      /\ ~Over(reads.last) => w.last = reads.last /\ w.count = reads.count + m
  <2>1. Over(reads.last) <=> Rates!Rest(reads.last) <= 0
    BY <1>2 DEF Window, Rates!Rest, Over
  <2>2. [last |-> now, pre |-> 0, count |-> m] \in Window
    BY <1>1 DEF Window
  <2>3. reads.pre - less \in Int /\ reads.count + m \in Nat
    BY <1>1 DEF Window
  <2>. DEFINE p == reads.pre - less
              k == reads.count + m
              e == [reads EXCEPT !.pre = p, !.count = k]
  <2>4. p \in Int /\ k \in Nat
    BY <2>3
  <2>. HIDE DEF p, k
  <2>5. e \in Window /\ e.last = reads.last /\ e.count = k
    BY <2>4 DEF Window
  <2>. QED  BY <2>1, <2>2, <2>5 DEF p, k
<1>5. Rates!Rest(reads.last) \in Int /\ Rates!Rest(reads.last) = reads.last + Second - now
  BY <1>2 DEF Window, Rates!Rest
<1>. HIDE DEF w
<1>6. reads.count \in Nat
  BY DEF Window
<1>7. m = ReadRate => m >= Rates!Share
  BY <1>1, <1>2
<1>. QED  BY <1>1, <1>2, <1>3, <1>4, <1>5, <1>6, <1>7

\* Time goes on, or the others do something.
LEMMA ReadStays ==
  ASSUME ReadSide, UNCHANGED <<reads, reader, got>>, now \in Nat, now' \in Nat, now' >= now
  PROVE  ReadSide'
<1>1. DoneReading' = DoneReading
  BY DEF DoneReading, Rested
<1>2. ReadBudget'
  BY <1>1 DEF ReadSide, ReadBudget
<1>. QED  BY <1>2 DEF ReadSide, Sleeping

\* A call that begins, ends without a byte, or gets another deadline.
LEMMA ReadMoves ==
  ASSUME ReadSide, NEW s \in Streams, NEW x \in Call, Sleeping(x),
         reader' = [reader EXCEPT ![s] = x], UNCHANGED <<now, reads, got>>,
         x.after = reader[s].after, x.grant = 0 \/ x.grant = reader[s].grant,
         x.stage = "busy" => reader[s].stage = "busy"
  PROVE  ReadSide'
<1>1. DoneReading' = DoneReading
  BY DEF DoneReading, Rested, ReadSide
<1>2. ReadBudget'
  BY <1>1, RatesAssumption DEF ReadSide, ReadBudget
<1>. QED  BY <1>2 DEF ReadSide, Sleeping

\* A read that wakes up has not had its part of the window it is granted bytes in.
LEMMA ReadGrantedKeeps ==
  ASSUME RateInv, NEW s \in Streams, Rates!ReadGranted(s)
  PROVE  ReadSide'
<1>. DEFINE c == reader[s]
            p == Rates!PreRead(c.want)
            x == [c EXCEPT !.stage = "busy", !.grant = p.m]
<1>1. used \in Nat /\ now \in Nat /\ ReadSide
  BY DEF RateInv
<1>2. c \in Call /\ c.want \in Nat /\ c.after \in Int /\ reads \in Window
  BY <1>1 DEF ReadSide, Call, Window
<1>3. now >= c.after /\ Second \in Nat \ {0} /\ ReadRate \in Nat
  BY <1>1, RatesAssumption, SecondAssumption DEF Rates!ReadGranted, Rates!Awake, ReadSide, Sleeping
<1>4. /\ reads' = p.window /\ now' = now
      /\ got' = IF p.window.last = reads.last THEN got ELSE 0
      /\ reader' = [reader EXCEPT ![s] = x]
  BY DEF Rates!ReadGranted, Rates!others
<1>5. /\ p.window \in Window /\ p.m \in Nat
      /\ ReadRate > 0 => p.m <= ReadRate
      /\ ReadRate > 0 /\ Over(reads.last) => p.window.last = now /\ p.window.count = 0
      /\ ReadRate = 0 \/ ~Over(reads.last) =>
           p.window.last = reads.last /\ p.window.count = reads.count
  BY <1>1, <1>2, PreReadIs
<1>. HIDE DEF p
<1>6. /\ x \in Call /\ x.stage = "busy" /\ x.after = c.after /\ x.grant = p.m /\ Sleeping(x)
  BY <1>2, <1>5 DEF Call, Sleeping
<1>. HIDE DEF x
<1>7. /\ reader' \in [Streams -> Call] /\ reader'[s] = x
      /\ \A q \in Streams : q # s => reader'[q] = reader[q]
  BY <1>1, <1>4, <1>6 DEF ReadSide
<1>8. /\ reads' \in Window /\ reads'.last <= now' /\ got' \in Nat
      /\ \A q \in Streams : Sleeping(reader'[q])
  BY <1>1, <1>3, <1>4, <1>5, <1>6, <1>7 DEF ReadSide
<1>9. ASSUME ReadRate > 0
      PROVE  /\ \A q \in Streams : reader'[q].grant <= ReadRate
             /\ \A q \in Streams : reader'[q].stage = "busy" => q \notin DoneReading'
             /\ got' <= reads'.count + Cardinality(DoneReading') * ReadRate
             /\ got' < ReadRate + Cardinality(DoneReading') * ReadRate
  <2>1. \A q \in Streams : reader'[q].grant <= ReadRate
    BY <1>1, <1>5, <1>6, <1>7, <1>9 DEF ReadSide, ReadBudget
  <2>2. \A q \in Streams : reader[q].after \in Int
    BY <1>1 DEF ReadSide, Call
  <2>3. \A q \in Streams : q # s /\ reader'[q].stage = "busy" => reader[q].after < reads.last + Second
    BY <1>1, <1>2, <1>3, <1>7, <1>9, <2>2 DEF ReadSide, ReadBudget, DoneReading, Rested, Window
  <2>4. DoneReading' = Rested(reader', reads'.last)
    BY DEF DoneReading
  <2>5. Cardinality(DoneReading') \in Nat /\ Cardinality(DoneReading') * ReadRate \in Nat
    BY <1>3, <2>4, RestedFinite, TimesMore
  <2>6. CASE Over(reads.last)
    <3>1. reads.last \in Nat /\ reads.last + Second <= now
      BY <1>2, <2>6 DEF Over, Window
    <3>2. reads'.last = now /\ reads'.count = 0 /\ got' = 0
      BY <1>1, <1>3, <1>4, <1>5, <1>9, <2>6, <3>1
    <3>3. \A q \in Streams : reader'[q].stage = "busy" => reader'[q].after < now + Second
      BY <1>1, <1>2, <1>3, <1>6, <1>7, <2>2, <2>3, <3>1
    <3>4. \A q \in Streams : reader'[q].stage = "busy" => q \notin DoneReading'
      BY <1>1, <1>3, <1>6, <1>7, <2>2, <2>4, <3>2, <3>3 DEF Rested
    <3>. QED  BY <1>3, <1>9, <2>1, <2>5, <3>2, <3>4
  <2>7. CASE ~Over(reads.last)
    <3>1. reads'.last = reads.last /\ reads'.count = reads.count /\ got' = got
      BY <1>4, <1>5, <2>7
    <3>2. reads.last \in Nat /\ now < reads.last + Second
      BY <1>1, <1>2, <1>3, <2>7 DEF Over, Window
    <3>3. c.after < reads.last + Second
      BY <1>1, <1>2, <1>3, <3>2
    <3>4. DoneReading' = DoneReading /\ s \notin DoneReading
      BY <1>2, <1>3, <1>6, <1>7, <3>1, <3>2, <3>3 DEF DoneReading, Rested
    <3>. QED  BY <1>1, <1>7, <1>9, <2>1, <3>1, <3>4 DEF ReadSide, ReadBudget
  <2>. QED  BY <2>6, <2>7
<1>10. ReadBudget'
  BY <1>9 DEF ReadBudget
<1>. QED  BY <1>7, <1>8, <1>10 DEF ReadSide, Window

LEMMA ReadReturnsKeeps ==
  ASSUME RateInv, NEW s \in Streams, NEW n \in 0 .. reader[s].grant, Rates!ReadReturns(s, n)
  PROVE  ReadSide'
<1>. DEFINE c == reader[s]
            a == Rates!AfterRead(n, c.grant - n)
            x == Rates!Ended([c EXCEPT !.after = Rates!NotBefore(a.pause)])
<1>1. used \in Nat /\ now \in Nat /\ ReadSide
  BY DEF RateInv
<1>2. /\ c \in Call /\ c.grant \in Nat /\ n \in Nat /\ c.grant - n \in Int /\ n <= c.grant
      /\ c.stage = "busy" /\ reads \in Window /\ reads.last \in Nat /\ reads.count \in Nat
  BY <1>1 DEF ReadSide, Call, Window, Rates!ReadReturns
<1>3. Second \in Nat \ {0} /\ ReadRate \in Nat
  BY RatesAssumption, SecondAssumption
<1>4. /\ reads' = a.window /\ now' = now
      /\ got' = n + IF a.window.last = reads.last THEN got ELSE 0
      /\ reader' = [reader EXCEPT ![s] = x]
  BY DEF Rates!ReadReturns, Rates!others
<1>5. CASE ReadRate = 0
  <2>1. a.window = reads /\ a.pause = 0
    BY <1>5 DEF Rates!AfterRead, Rates!Settled
  <2>. HIDE DEF a
  <2>2. [c EXCEPT !.after = Rates!NotBefore(a.pause)] \in Call
    BY <1>1, <1>2, <2>1 DEF Call, Rates!NotBefore, Rates!Never
  <2>3. x \in Call /\ Sleeping(x)
    BY <2>2, EndedCall
  <2>. HIDE DEF x
  <2>. QED
    BY <1>1, <1>2, <1>4, <1>5, <2>1, <2>3 DEF ReadSide, ReadBudget
<1>6. CASE ReadRate > 0
  <2>1. PICK m \in Nat :
           /\ m <= ReadRate
           /\ m # n => m < n /\ a.pause = Second
           /\ a.window \in Window
           /\ a.pause \in Int
           /\ Over(reads.last) =>
                /\ a.window.last = now
                /\ a.window.count = m
                /\ m = ReadRate => a.pause = Second
           /\ ~Over(reads.last) =>
                /\ a.window.last = reads.last
                /\ a.window.count = reads.count + m
                /\ \/ a.pause = Second
                   \/ /\ reads.count + m >= ReadRate
                      /\ a.pause = reads.last + Second - now
                   \/ reads.count + m < ReadRate
    BY <1>1, <1>2, <1>6, AfterReadIs
  <2>. HIDE DEF a
  <2>2. Rates!NotBefore(a.pause) \in Int
    BY <1>1, <2>1 DEF Rates!NotBefore, Rates!Never
  <2>3. [c EXCEPT !.after = Rates!NotBefore(a.pause)] \in Call
        /\ [c EXCEPT !.after = Rates!NotBefore(a.pause)].after = Rates!NotBefore(a.pause)
    BY <1>2, <2>2 DEF Call
  <2>4. /\ x \in Call /\ Sleeping(x) /\ x.stage = "idle" /\ x.grant = 0
        /\ x.after = Rates!NotBefore(a.pause)
    BY <2>3, EndedCall
  <2>. HIDE DEF x
  <2>5. /\ reader' \in [Streams -> Call] /\ reader'[s] = x
        /\ \A q \in Streams : q # s => reader'[q] = reader[q]
    BY <1>1, <1>4, <2>4 DEF ReadSide
  <2>6. /\ reads' \in Window /\ reads'.last <= now' /\ got' \in Nat
        /\ \A q \in Streams : Sleeping(reader'[q])
    BY <1>1, <1>2, <1>3, <1>4, <2>1, <2>4, <2>5 DEF ReadSide
  <2>7. \A q \in Streams : reader'[q].grant <= ReadRate
    BY <1>1, <1>3, <1>6, <2>4, <2>5 DEF ReadSide, ReadBudget
  <2>8. n <= ReadRate /\ s \notin DoneReading /\ got \in Nat
    BY <1>1, <1>2, <1>3, <1>6 DEF ReadSide, ReadBudget
  <2>9. DoneReading' = Rested(reader', reads'.last)
    BY DEF DoneReading
  <2>10. Cardinality(DoneReading') \in Nat /\ Cardinality(DoneReading') * ReadRate \in Nat
    BY <1>3, <2>9, RestedFinite, TimesMore
  <2>11. \A q \in Streams : reader[q].after \in Int
    BY <1>1 DEF ReadSide, Call
  <2>12. \A q \in Streams : reader'[q].stage = "busy" =>
           q # s /\ reader'[q].after < reads.last + Second
    BY <1>1, <1>2, <1>3, <1>6, <2>4, <2>5, <2>11 DEF ReadSide, ReadBudget, DoneReading, Rested
  <2>13. CASE Over(reads.last)
    <3>1. reads.last + Second <= now
      BY <2>13 DEF Over
    <3>2. reads'.last = now /\ reads'.count = m /\ got' = n
      BY <1>1, <1>2, <1>3, <1>4, <2>1, <2>13, <3>1
    <3>3. \A q \in Streams : reader'[q].stage = "busy" => q \notin DoneReading'
      BY <1>1, <1>2, <1>3, <2>5, <2>9, <2>11, <2>12, <3>1, <3>2 DEF Rested
    <3>4. ASSUME a.pause = Second PROVE ReadBudget'
      <4>1. x.after = now + Second
        BY <1>3, <2>4, <3>4 DEF Rates!NotBefore
      <4>2. s \in DoneReading'
        BY <1>1, <1>3, <2>5, <2>9, <3>2, <4>1 DEF Rested
      <4>3. Cardinality(DoneReading') >= 1
        BY <2>9, <4>2, RestedOne
      <4>4. 1 * ReadRate <= Cardinality(DoneReading') * ReadRate
        BY <1>3, <2>10, <4>3, TimesMonotone
      <4>. QED
        BY <1>2, <1>3, <1>6, <2>7, <2>8, <2>10, <3>2, <3>3, <4>4 DEF ReadBudget
    <3>5. ASSUME a.pause # Second PROVE ReadBudget'
      <4>1. m = n /\ n < ReadRate
        BY <1>2, <1>3, <2>1, <2>13, <3>5
      <4>. QED
        BY <1>2, <1>3, <1>6, <2>7, <2>10, <3>2, <3>3, <4>1 DEF ReadBudget
    <3>. QED
      BY <3>4, <3>5, <2>5, <2>6 DEF ReadSide, Window
  <2>14. CASE ~Over(reads.last)
    <3>1. now < reads.last + Second /\ reads.last <= now
      BY <1>1, <1>2, <1>3, <2>14 DEF Over, ReadSide
    <3>2. reads'.last = reads.last /\ reads'.count = reads.count + m /\ got' = n + got
      BY <1>4, <2>1, <2>14
    <3>3. \A q \in Streams : reader'[q].stage = "busy" => q \notin DoneReading'
      BY <1>2, <1>3, <2>5, <2>9, <2>11, <2>12, <3>2 DEF Rested
    <3>4. /\ Cardinality(DoneReading) \in Nat /\ Cardinality(DoneReading) * ReadRate \in Nat
          /\ got <= reads.count + Cardinality(DoneReading) * ReadRate
          /\ got < ReadRate + Cardinality(DoneReading) * ReadRate
      BY <1>1, <1>3, <1>6, RestedFinite, TimesMore DEF DoneReading, ReadSide, ReadBudget
    <3>5. ASSUME x.after >= reads.last + Second PROVE ReadBudget'
      <4>1. Cardinality(DoneReading') = Cardinality(DoneReading) + 1
        <5>1. Cardinality(Rested([reader EXCEPT ![s] = x], reads.last)) =
                Cardinality(Rested(reader, reads.last)) + 1
          BY <1>1, <1>2, <2>4, <2>8, <3>5, RestedMore DEF ReadSide, DoneReading
        <5>. QED  BY <1>4, <2>9, <3>2, <5>1 DEF DoneReading
      <4>2. Cardinality(DoneReading') * ReadRate = Cardinality(DoneReading) * ReadRate + ReadRate
        BY <1>3, <3>4, <4>1, TimesMore
      <4>. QED
        BY <1>2, <1>3, <1>6, <2>1, <2>7, <2>8, <3>2, <3>3, <3>4, <4>2 DEF ReadBudget
    <3>6. ASSUME ~(x.after >= reads.last + Second) PROVE ReadBudget'
      <4>1. DoneReading' = DoneReading
        <5>1. Rested([reader EXCEPT ![s] = x], reads.last) = Rested(reader, reads.last)
          BY <1>1, <2>4, <2>8, <3>6, RestedSame DEF ReadSide, DoneReading
        <5>. QED  BY <1>4, <2>9, <3>2, <5>1 DEF DoneReading
      <4>2. a.pause # Second
        BY <1>1, <1>2, <1>3, <2>4, <3>1, <3>6 DEF Rates!NotBefore
      <4>3. a.pause # reads.last + Second - now
        BY <1>1, <1>2, <1>3, <2>4, <3>1, <3>6 DEF Rates!NotBefore
      <4>4. m = n /\ reads.count + m < ReadRate
        BY <2>1, <2>14, <4>2, <4>3
      <4>. QED
        BY <1>2, <1>3, <1>6, <2>7, <2>8, <3>2, <3>3, <3>4, <4>1, <4>4 DEF ReadBudget
    <3>. QED
      BY <3>5, <3>6, <2>5, <2>6 DEF ReadSide, Window
  <2>. QED  BY <2>13, <2>14
<1>. QED  BY <1>3, <1>5, <1>6

\* A step of another kind leaves the readers alone, or moves a call without granting bytes.
LEMMA ReadNext ==
  ASSUME RateInv, now' \in Nat, [Rates!Next]_(Rates!vars)
  PROVE  ReadSide'
<1>. USE DEF RateInv
<1>1. ASSUME UNCHANGED <<reads, reader, got>>, now' >= now PROVE ReadSide'
  BY <1>1, ReadStays
<1>2. ASSUME NEW s \in Streams, NEW n \in ReadSizes, Rates!Read(s, n) PROVE ReadSide'
  <2>1. reader[s] \in Call /\ reader[s].stage = "idle" /\ n \in Nat
    BY <1>2, CallsAssumption DEF Rates!Read, ReadSide
  <2>. QED
    BY <1>2, <2>1, SleepsCall, ReadMoves DEF Rates!Read, Rates!others
<1>3. ASSUME NEW s \in Streams, Rates!ReadTimesOut(s) PROVE ReadSide'
  <2>1. reader[s] \in Call
    BY DEF ReadSide
  <2>. QED
    BY <1>3, <2>1, EndedCall, ReadMoves DEF Rates!ReadTimesOut, Rates!others
<1>4. ASSUME NEW s \in Streams, NEW t \in Deadlines, Rates!SetDeadline(s, t) PROVE ReadSide'
  <2>. DEFINE x == [reader[s] EXCEPT !.deadline = t]
  <2>1. CASE UNCHANGED reader
    BY <1>1, <1>4, <2>1 DEF Rates!SetDeadline
  <2>2. CASE reader' = [reader EXCEPT ![s].deadline = t]
    <3>1. t \in Int /\ reader[s] \in Call /\ Sleeping(reader[s])
      BY SecondAssumption DEF ReadSide
    <3>2. /\ x \in Call /\ Sleeping(x) /\ x.after = reader[s].after /\ x.grant = reader[s].grant
          /\ x.stage = reader[s].stage
      BY <3>1 DEF Call, Sleeping
    <3>3. reader' = [reader EXCEPT ![s] = x] /\ UNCHANGED <<now, reads, got>>
      BY <1>4, <2>2 DEF Rates!SetDeadline
    <3>. HIDE DEF x
    <3>. QED  BY <3>2, <3>3, ReadMoves
  <2>. QED  BY <1>4, <2>1, <2>2 DEF Rates!SetDeadline
<1>5. ASSUME NEW s \in Streams,
             \/ Rates!Open(s) \/ Rates!Acquires(s) \/ Rates!Refused(s)
             \/ Rates!Opened(s) \/ Rates!OpenFails(s) \/ Rates!CloseStream(s)
      PROVE  ReadSide'
  BY <1>1, <1>5 DEF Rates!Open, Rates!Acquires, Rates!Refused, Rates!Opened, Rates!OpenFails,
     Rates!CloseStream, Rates!calls
<1>6. ASSUME NEW s \in Streams,
             \/ \E n : \E op : Rates!Write(s, op, n)
             \/ Rates!WriteTimesOut(s) \/ Rates!WriteGranted(s)
             \/ Rates!WriteReturns(s) \/ Rates!WriteFails(s)
      PROVE  ReadSide'
  BY <1>1, <1>6 DEF Rates!Write, Rates!WriteTimesOut, Rates!WriteGranted, Rates!WriteReturns,
     Rates!WriteFails, Rates!others, Rates!readVars
<1>7. CASE Rates!Close \/ Rates!Tick \/ UNCHANGED Rates!vars
  BY <1>1, <1>7 DEF Rates!Close, Rates!Tick, Rates!vars, Rates!calls, Rates!readVars
<1>. QED
  BY <1>2, <1>3, <1>4, <1>5, <1>6, <1>7, ReadGrantedKeeps, ReadReturnsKeeps DEF Rates!Next

-----------------------------------------------------------------------------
(* Writes *)

LEMMA WriteStays ==
  ASSUME WriteSide, UNCHANGED <<writes, writer, sent>>, now \in Nat, now' \in Nat, now' >= now
  PROVE  WriteSide'
<1>1. DoneWriting' = DoneWriting
  BY DEF DoneWriting, Rested
<1>2. WriteBudget'
  BY <1>1 DEF WriteSide, WriteBudget
<1>. QED  BY <1>2 DEF WriteSide, Sleeping

\* A call that begins, goes on or ends, or gets another deadline.
LEMMA WriteMoves ==
  ASSUME WriteSide, NEW s \in Streams, NEW x \in Call, Sleeping(x),
         writer' = [writer EXCEPT ![s] = x], UNCHANGED <<now, writes, sent>>,
         x.after = writer[s].after
  PROVE  WriteSide'
<1>1. DoneWriting' = DoneWriting
  BY DEF DoneWriting, Rested, WriteSide
<1>2. WriteBudget'
  BY <1>1 DEF WriteSide, WriteBudget
<1>. QED  BY <1>2 DEF WriteSide, Sleeping

Written == [last : Nat, wrote : Nat]

\* What a write of n bytes is granted, counted and told to sleep.
LEMMA PreWriteIs ==
  ASSUME now \in Nat, writes \in Written, NEW n \in Nat, WriteRate > 0
  PROVE  \E wrote \in Nat :
           /\ Over(writes.last) => wrote = 0 /\ Rates!PreWrite(n).window.last = now
           /\ ~Over(writes.last) =>
                wrote = writes.wrote /\ Rates!PreWrite(n).window.last = writes.last
           /\ Rates!PreWrite(n).window \in Written /\ Rates!PreWrite(n).m \in Nat
           /\ Rates!PreWrite(n).pause \in Int
           /\ \/ /\ wrote >= WriteRate
                 /\ Rates!PreWrite(n).m <= MinWriteRate
                 /\ Rates!PreWrite(n).window.wrote = wrote
                 /\ Rates!PreWrite(n).pause = writes.last + Second - now
              \/ /\ wrote < WriteRate
                 /\ Rates!PreWrite(n).m <= WriteRate
                 /\ Rates!PreWrite(n).window.wrote = wrote + Rates!PreWrite(n).m
<1>1. WriteRate \in Nat /\ MinWriteRate \in Nat /\ Second \in Nat \ {0}
  BY RatesAssumption, SecondAssumption
<1>. DEFINE w == IF Rates!Rest(writes.last) <= 0 THEN [last |-> now, wrote |-> 0] ELSE writes
<1>2. /\ w \in Written
      /\ Over(writes.last) => w.last = now /\ w.wrote = 0
      /\ ~Over(writes.last) => w = writes
  BY <1>1 DEF Written, Rates!Rest, Over
<1>3. Rates!PreWrite(n) =
        IF w.wrote >= WriteRate
        THEN [window |-> w, m |-> Rates!Smaller(MinWriteRate, n), pause |-> Rates!Rest(writes.last)]
        ELSE IF n > WriteRate
        THEN [window |-> [w EXCEPT !.wrote = @ + WriteRate], m |-> WriteRate, pause |-> Second]
        ELSE [window |-> [w EXCEPT !.wrote = @ + n], m |-> n, pause |-> 0]
  BY <1>1 DEF Rates!PreWrite
<1>4. Rates!Rest(writes.last) \in Int /\ Rates!Rest(writes.last) = writes.last + Second - now
  BY <1>1 DEF Written, Rates!Rest
<1>. HIDE DEF w
<1>5. w.wrote \in Nat
  BY <1>2 DEF Written
<1>6. \A k \in Nat : /\ [w EXCEPT !.wrote = @ + k] \in Written
                     /\ [w EXCEPT !.wrote = @ + k].last = w.last
                     /\ [w EXCEPT !.wrote = @ + k].wrote = w.wrote + k
  BY <1>2, <1>5 DEF Written
<1>7. Rates!Smaller(MinWriteRate, n) \in Nat /\ Rates!Smaller(MinWriteRate, n) <= MinWriteRate
  BY <1>1 DEF Rates!Smaller
<1>8. CASE w.wrote >= WriteRate
  BY <1>1, <1>2, <1>3, <1>4, <1>5, <1>7, <1>8
<1>9. CASE w.wrote < WriteRate
  BY <1>1, <1>2, <1>3, <1>4, <1>5, <1>6, <1>9
<1>. QED  BY <1>1, <1>5, <1>8, <1>9

LEMMA WriteGrantedKeeps ==
  ASSUME RateInv, NEW s \in Streams, Rates!WriteGranted(s)
  PROVE  WriteSide'
<1>. DEFINE c == writer[s]
            n == IF c.op = "pipe" \/ c.want = 0 THEN MinWriteRate ELSE c.want
            p == Rates!PreWrite(n)
            x == [c EXCEPT !.stage = "busy", !.grant = p.m, !.after = Rates!NotBefore(p.pause)]
<1>1. now \in Nat /\ WriteSide
  BY DEF RateInv
<1>2. Second \in Nat \ {0} /\ WriteRate \in Nat /\ MinWriteRate \in Nat
  BY RatesAssumption, SecondAssumption
<1>3. /\ c \in Call /\ n \in Nat /\ c.after \in Int /\ now >= c.after
      /\ writes \in Written /\ writes.last \in Nat /\ writes.wrote \in Nat /\ sent \in Nat
  BY <1>1, <1>2 DEF WriteSide, Call, Written, Rates!WriteGranted, Rates!Awake, Sleeping
<1>4. /\ writes' = p.window /\ now' = now
      /\ sent' = p.m + IF p.window.last = writes.last THEN sent ELSE 0
      /\ writer' = [writer EXCEPT ![s] = x]
  BY DEF Rates!WriteGranted, Rates!others
<1>. HIDE DEF n
<1>5. p.window \in Written /\ p.window.last <= now /\ p.m \in Nat /\ p.pause \in Int
  <2>1. CASE WriteRate = 0
    BY <1>1, <1>3, <2>1 DEF Rates!PreWrite, WriteSide
  <2>2. CASE WriteRate > 0
    <3>1. writes.last <= now /\ p.window \in Written /\ p.m \in Nat /\ p.pause \in Int
          /\ (p.window.last = now \/ p.window.last = writes.last)
      BY <1>1, <1>3, <2>2, PreWriteIs DEF WriteSide
    <3>. QED  BY <1>1, <1>3, <3>1
  <2>. QED  BY <1>2, <2>1, <2>2
<1>6. ASSUME WriteRate > 0
      PROVE  \E wrote \in Nat :
               /\ Over(writes.last) => wrote = 0 /\ p.window.last = now
               /\ ~Over(writes.last) => wrote = writes.wrote /\ p.window.last = writes.last
               /\ \/ /\ wrote >= WriteRate /\ p.m <= MinWriteRate
                     /\ p.window.wrote = wrote /\ p.pause = writes.last + Second - now
                  \/ /\ wrote < WriteRate /\ p.m <= WriteRate
                     /\ p.window.wrote = wrote + p.m
  BY <1>1, <1>3, <1>6, PreWriteIs
<1>. HIDE DEF p
<1>7. Rates!NotBefore(p.pause) \in Int
  BY <1>1, <1>5 DEF Rates!NotBefore, Rates!Never
<1>8. x \in Call /\ Sleeping(x) /\ x.after = Rates!NotBefore(p.pause)
  BY <1>3, <1>5, <1>7 DEF Call, Sleeping
<1>. HIDE DEF x
<1>9. /\ writer' \in [Streams -> Call] /\ writer'[s] = x
      /\ \A q \in Streams : q # s => writer'[q] = writer[q]
  BY <1>1, <1>4, <1>8 DEF WriteSide
<1>10. /\ writes' \in Written /\ writes'.last <= now' /\ sent' \in Nat
       /\ \A q \in Streams : Sleeping(writer'[q])
  BY <1>1, <1>3, <1>4, <1>5, <1>8, <1>9 DEF WriteSide
<1>11. ASSUME WriteRate > 0
       PROVE  /\ writes'.wrote < 2 * WriteRate
              /\ sent' <= writes'.wrote + Cardinality(DoneWriting') * MinWriteRate
  <2>1. PICK wrote \in Nat :
               /\ Over(writes.last) => wrote = 0 /\ p.window.last = now
               /\ ~Over(writes.last) => wrote = writes.wrote /\ p.window.last = writes.last
               /\ \/ /\ wrote >= WriteRate /\ p.m <= MinWriteRate
                     /\ p.window.wrote = wrote /\ p.pause = writes.last + Second - now
                  \/ /\ wrote < WriteRate /\ p.m <= WriteRate
                     /\ p.window.wrote = wrote + p.m
    BY <1>6, <1>11
  <2>2. DoneWriting' = Rested(writer', writes'.last)
    BY DEF DoneWriting
  <2>3. Cardinality(DoneWriting') \in Nat /\ Cardinality(DoneWriting') * MinWriteRate \in Nat
    BY <1>2, <2>2, RestedFinite, TimesMore
  <2>4. writes.wrote < 2 * WriteRate
    BY <1>1, <1>11 DEF WriteSide, WriteBudget
  <2>5. CASE Over(writes.last)
    <3>1. writes'.last = now /\ writes.last # now
      BY <1>1, <1>2, <1>3, <1>4, <2>1, <2>5 DEF Over
    <3>2. sent' = p.m
      BY <1>4, <1>5, <3>1
    <3>3. wrote = 0 /\ p.window.wrote = p.m /\ p.m <= WriteRate
      BY <1>2, <1>5, <1>11, <2>1, <2>5
    <3>. QED  BY <1>2, <1>4, <1>5, <1>11, <2>3, <3>2, <3>3
  <2>6. CASE ~Over(writes.last)
    <3>1. now < writes.last + Second
      BY <1>1, <1>2, <1>3, <2>6 DEF Over
    <3>2. writes'.last = writes.last /\ sent' = p.m + sent /\ wrote = writes.wrote
      BY <1>4, <2>1, <2>6
    <3>3. s \notin DoneWriting
      BY <1>1, <1>2, <1>3, <3>1 DEF DoneWriting, Rested
    <3>4. /\ Cardinality(DoneWriting) \in Nat /\ Cardinality(DoneWriting) * MinWriteRate \in Nat
          /\ sent <= writes.wrote + Cardinality(DoneWriting) * MinWriteRate
      BY <1>1, <1>2, <1>11, RestedFinite, TimesMore DEF DoneWriting, WriteSide, WriteBudget
    <3>5. ASSUME x.after >= writes.last + Second
          PROVE  Cardinality(DoneWriting') * MinWriteRate =
                   Cardinality(DoneWriting) * MinWriteRate + MinWriteRate
      <4>1. Cardinality(Rested([writer EXCEPT ![s] = x], writes.last)) =
              Cardinality(Rested(writer, writes.last)) + 1
        BY <1>1, <1>3, <1>8, <3>3, <3>5, RestedMore DEF WriteSide, DoneWriting
      <4>2. Cardinality(DoneWriting') = Cardinality(DoneWriting) + 1
        BY <1>4, <2>2, <3>2, <4>1 DEF DoneWriting
      <4>. QED  BY <1>2, <3>4, <4>2, TimesMore
    <3>6. ASSUME ~(x.after >= writes.last + Second) PROVE DoneWriting' = DoneWriting
      <4>1. Rested([writer EXCEPT ![s] = x], writes.last) = Rested(writer, writes.last)
        BY <1>1, <1>8, <3>3, <3>6, RestedSame DEF WriteSide, DoneWriting
      <4>. QED  BY <1>4, <2>2, <3>2, <4>1 DEF DoneWriting
    <3>7. CASE /\ wrote >= WriteRate /\ p.m <= MinWriteRate
               /\ p.window.wrote = wrote /\ p.pause = writes.last + Second - now
      <4>1. x.after >= writes.last + Second
        BY <1>1, <1>2, <1>3, <1>8, <3>1, <3>7 DEF Rates!NotBefore
      <4>. QED  BY <1>2, <1>3, <1>4, <1>5, <2>3, <2>4, <3>2, <3>4, <3>5, <3>7, <4>1
    <3>8. CASE /\ wrote < WriteRate /\ p.m <= WriteRate
               /\ p.window.wrote = wrote + p.m
      <4>1. writes'.wrote < 2 * WriteRate
        BY <1>2, <1>4, <1>5, <3>8
      <4>2. Cardinality(DoneWriting') * MinWriteRate >= Cardinality(DoneWriting) * MinWriteRate
        BY <1>2, <2>3, <3>4, <3>5, <3>6
      <4>. QED  BY <1>2, <1>3, <1>4, <1>5, <2>3, <3>2, <3>4, <3>8, <4>1, <4>2
    <3>. QED  BY <2>1, <3>7, <3>8
  <2>. QED  BY <2>5, <2>6
<1>12. WriteBudget'
  BY <1>11 DEF WriteBudget
<1>. QED  BY <1>9, <1>10, <1>12 DEF WriteSide, Written

LEMMA WriteNext ==
  ASSUME RateInv, now' \in Nat, [Rates!Next]_(Rates!vars)
  PROVE  WriteSide'
<1>. USE DEF RateInv
<1>1. ASSUME UNCHANGED <<writes, writer, sent>>, now' >= now PROVE WriteSide'
  BY <1>1, WriteStays
<1>2. ASSUME NEW s \in Streams, NEW n \in Nat, NEW op \in {"write"} \union Copies, Rates!Write(s, op, n)
      PROVE  WriteSide'
  <2>1. writer[s] \in Call
    BY DEF WriteSide
  <2>. QED
    BY <1>2, <2>1, SleepsCall, WriteMoves DEF Rates!Write, Rates!others
<1>3. ASSUME NEW s \in Streams, Rates!WriteTimesOut(s) \/ Rates!WriteFails(s) PROVE WriteSide'
  <2>1. writer[s] \in Call
    BY DEF WriteSide
  <2>. QED
    BY <1>3, <2>1, EndedCall, WriteMoves DEF Rates!WriteTimesOut, Rates!WriteFails, Rates!others
<1>4. ASSUME NEW s \in Streams, Rates!WriteReturns(s) PROVE WriteSide'
  <2>. DEFINE c == writer[s]
              left == c.want - c.grant
  <2>1. c \in Call /\ c.op \in {"none", "read", "write"} \union Copies
        /\ c.want \in Nat /\ c.grant \in Nat
    BY DEF WriteSide, Call
  <2>2. CASE left >= 0 /\ writer' = [writer EXCEPT ![s] = Rates!Sleeps(c, c.op, left)]
    <3>1. left \in Nat
      BY <2>1, <2>2
    <3>. DEFINE x == Rates!Sleeps(c, c.op, left)
    <3>2. x \in Call /\ Sleeping(x) /\ x.after = c.after
      BY <2>1, <3>1, SleepsCall
    <3>3. writer' = [writer EXCEPT ![s] = x] /\ UNCHANGED <<now, writes, sent>>
      BY <1>4, <2>2 DEF Rates!WriteReturns, Rates!others
    <3>. HIDE DEF x
    <3>. QED  BY <3>2, <3>3, WriteMoves
  <2>3. CASE writer' = [writer EXCEPT ![s] = Rates!Ended(c)]
    BY <1>4, <2>1, <2>3, EndedCall, WriteMoves DEF Rates!WriteReturns, Rates!others
  <2>4. CASE IF c.op = "write" THEN left > 0 ELSE left >= 0
    <3>1. left >= 0
      BY <2>1, <2>4
    <3>. QED  BY <1>4, <2>2, <2>4, <3>1 DEF Rates!WriteReturns
  <2>5. CASE ~(IF c.op = "write" THEN left > 0 ELSE left >= 0)
    BY <1>4, <2>3, <2>5 DEF Rates!WriteReturns
  <2>. QED  BY <2>4, <2>5
<1>5. ASSUME NEW s \in Streams, NEW t \in Deadlines, Rates!SetDeadline(s, t) PROVE WriteSide'
  <2>. DEFINE x == [writer[s] EXCEPT !.deadline = t]
  <2>1. CASE UNCHANGED writer
    BY <1>1, <1>5, <2>1 DEF Rates!SetDeadline
  <2>2. CASE writer' = [writer EXCEPT ![s].deadline = t]
    <3>1. t \in Int /\ writer[s] \in Call /\ Sleeping(writer[s])
      BY SecondAssumption DEF WriteSide
    <3>2. x \in Call /\ Sleeping(x) /\ x.after = writer[s].after
      BY <3>1 DEF Call, Sleeping
    <3>3. writer' = [writer EXCEPT ![s] = x] /\ UNCHANGED <<now, writes, sent>>
      BY <1>5, <2>2 DEF Rates!SetDeadline
    <3>. HIDE DEF x
    <3>. QED  BY <3>2, <3>3, WriteMoves
  <2>. QED  BY <1>5, <2>1, <2>2 DEF Rates!SetDeadline
<1>6. ASSUME NEW s \in Streams,
             \/ Rates!Open(s) \/ Rates!Acquires(s) \/ Rates!Refused(s)
             \/ Rates!Opened(s) \/ Rates!OpenFails(s) \/ Rates!CloseStream(s)
      PROVE  WriteSide'
  BY <1>1, <1>6 DEF Rates!Open, Rates!Acquires, Rates!Refused, Rates!Opened, Rates!OpenFails,
     Rates!CloseStream, Rates!calls
<1>7. ASSUME NEW s \in Streams, NEW n,
             \/ Rates!Read(s, n) \/ Rates!ReadReturns(s, n)
             \/ Rates!ReadTimesOut(s) \/ Rates!ReadGranted(s)
      PROVE  WriteSide'
  BY <1>1, <1>7 DEF Rates!Read, Rates!ReadReturns, Rates!ReadTimesOut, Rates!ReadGranted,
     Rates!others, Rates!writeVars
<1>8. CASE Rates!Close \/ Rates!Tick \/ UNCHANGED Rates!vars
  BY <1>1, <1>8 DEF Rates!Close, Rates!Tick, Rates!vars, Rates!calls, Rates!writeVars
<1>9. WriteSizes \subseteq Nat /\ CopySizes \subseteq Nat
  BY CallsAssumption
<1>. QED
  BY <1>2, <1>3, <1>4, <1>5, <1>6, <1>7, <1>8, <1>9, WriteGrantedKeeps DEF Rates!Next

-----------------------------------------------------------------------------
(* Together *)

LEMMA RateStart == Rates!Init => RateInv
<1>. SUFFICES ASSUME Rates!Init PROVE RateInv
  OBVIOUS
<1>1. /\ used = 0 /\ now \in Nat
      /\ reads = [last |-> 0, pre |-> 0, count |-> 0] /\ got = 0
      /\ writes = [last |-> 0, wrote |-> 0] /\ sent = 0
      /\ reader = [s \in Streams |-> Rates!Idle] /\ writer = [s \in Streams |-> Rates!Idle]
  BY SecondAssumption DEF Rates!Init
<1>2. /\ Cardinality(DoneReading) * ReadRate \in Nat
      /\ Cardinality(DoneWriting) * MinWriteRate \in Nat
  BY RestedFinite, RatesAssumption, TimesMore DEF DoneReading, DoneWriting
<1>3. \A s \in Streams : /\ reader[s] \in Call /\ reader[s].stage = "idle" /\ reader[s].grant = 0
                         /\ writer[s] \in Call /\ writer[s].stage = "idle"
  BY <1>1, IdleCall
<1>4. ReadSide
  <2>1. ReadBudget
    BY <1>1, <1>2, <1>3, RatesAssumption DEF ReadBudget
  <2>. QED  BY <1>1, <1>3, <2>1 DEF ReadSide, Sleeping
<1>5. WriteSide
  <2>1. WriteBudget
    BY <1>1, <1>2, RatesAssumption DEF WriteBudget
  <2>. QED  BY <1>1, <1>3, <2>1 DEF WriteSide, Sleeping
<1>. QED  BY <1>1, <1>4, <1>5 DEF RateInv

\* The places taken and the clock are numbers.
LEMMA UsedStep ==
  ASSUME RateInv, [Rates!Next]_(Rates!vars) PROVE used' \in Nat /\ now' \in Nat
<1>. USE DEF RateInv
<1>. DEFINE Typed == used' \in Nat /\ now' \in Nat
<1>1. ASSUME UNCHANGED <<used, now>> PROVE Typed
  BY <1>1
<1>2. ASSUME NEW s \in Streams,
             \/ Rates!Open(s) \/ Rates!Acquires(s) \/ Rates!Refused(s)
             \/ Rates!Opened(s) \/ Rates!OpenFails(s) \/ Rates!CloseStream(s)
      PROVE  Typed
  BY <1>2 DEF Rates!Open, Rates!Acquires, Rates!Refused, Rates!Opened, Rates!OpenFails,
     Rates!CloseStream, Rates!calls, Rates!Acquire, Rates!Release
<1>3. ASSUME Rates!Close \/ Rates!Tick \/ UNCHANGED Rates!vars PROVE Typed
  BY <1>3 DEF Rates!Close, Rates!Tick, Rates!vars, Rates!calls
<1>4. ASSUME NEW s \in Streams,
             \/ \E n : \/ Rates!Read(s, n) \/ Rates!ReadReturns(s, n)
                       \/ \E op : Rates!Write(s, op, n)
             \/ Rates!ReadTimesOut(s) \/ Rates!ReadGranted(s)
             \/ Rates!WriteTimesOut(s) \/ Rates!WriteGranted(s)
             \/ Rates!WriteReturns(s) \/ Rates!WriteFails(s)
             \/ \E t \in Deadlines : Rates!SetDeadline(s, t)
      PROVE  UNCHANGED <<used, now>>
  BY <1>4 DEF Rates!Read, Rates!ReadReturns, Rates!ReadTimesOut, Rates!ReadGranted,
     Rates!Write, Rates!WriteTimesOut, Rates!WriteGranted, Rates!WriteReturns,
     Rates!WriteFails, Rates!SetDeadline, Rates!others
<1>. HIDE DEF Typed, RateInv
<1>5. Typed
  BY <1>1, <1>2, <1>3, <1>4 DEF Rates!Next
<1>. QED  BY <1>5 DEF Typed

LEMMA RateInvKept == RateInv /\ [Rates!Next]_(Rates!vars) => RateInv'
<1>. SUFFICES ASSUME RateInv, [Rates!Next]_(Rates!vars) PROVE RateInv'
  OBVIOUS
<1>1. used' \in Nat /\ now' \in Nat
  BY UsedStep
<1>. QED  BY <1>1, ReadNext, WriteNext DEF RateInv

\* The instance has a Cardinality of its own.
LEMMA SameCardinality == Rates!Cardinality(Streams) = Cardinality(Streams)
  BY DEF Rates!Cardinality, Cardinality

LEMMA RateInvEnough == RateInv => RateKept
<1>. SUFFICES ASSUME RateInv PROVE RateKept
  OBVIOUS
<1>. DEFINE k == Cardinality(Streams)
<1>1. k \in Nat /\ ReadRate \in Nat /\ WriteRate \in Nat /\ MinWriteRate \in Nat /\ got \in Nat /\ sent \in Nat
  BY RestedFinite, RatesAssumption DEF RateInv, ReadSide, WriteSide
<1>2. ASSUME ReadRate > 0 PROVE got < (k + 1) * ReadRate
  <2>1. Cardinality(DoneReading) \in Nat /\ Cardinality(DoneReading) <= k
    BY RestedFinite DEF DoneReading
  <2>2. Cardinality(DoneReading) * ReadRate <= k * ReadRate
    BY <1>1, <2>1, TimesMonotone
  <2>3. /\ (k + 1) * ReadRate = k * ReadRate + ReadRate
        /\ k * ReadRate \in Nat /\ Cardinality(DoneReading) * ReadRate \in Nat
    BY <1>1, <2>1, TimesMore
  <2>. HIDE DEF k
  <2>. QED  BY <1>1, <1>2, <2>2, <2>3 DEF RateInv, ReadSide, ReadBudget
<1>3. ASSUME WriteRate > 0 PROVE sent < 2 * WriteRate + k * MinWriteRate
  <2>1. Cardinality(DoneWriting) \in Nat /\ Cardinality(DoneWriting) <= k
    BY RestedFinite DEF DoneWriting
  <2>2. /\ Cardinality(DoneWriting) * MinWriteRate <= k * MinWriteRate
        /\ k * MinWriteRate \in Nat /\ Cardinality(DoneWriting) * MinWriteRate \in Nat
    BY <1>1, <2>1, TimesMonotone, TimesMore
  <2>3. writes.wrote \in Nat
    BY DEF RateInv, WriteSide
  <2>. HIDE DEF k
  <2>. QED  BY <1>1, <1>3, <2>2, <2>3 DEF RateInv, WriteSide, WriteBudget
<1>. QED  BY <1>2, <1>3, SameCardinality, Zenon DEF RateKept, Rates!RateKept

\* Any streams, rates and sizes of calls: a window of a second brings the streams less than
\* the budget and one share for each, and takes less than twice the budget and one smallest
\* chunk for each (RateKept).
THEOREM RatesAreKept == Rates!Spec => []RateKept
  BY RateStart, RateInvKept, RateInvEnough, PTL DEF Rates!Spec
=============================================================================
