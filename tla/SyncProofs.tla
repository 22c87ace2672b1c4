----------------------------- MODULE SyncProofs -----------------------------
(***************************************************************************)
(* Proofs about Sync, for any files, storages, slots and tries.               *)
(*                                                                          *)
(* SyncedIsStored looks at the moment a sync succeeds, where only the number  *)
(* of results is known.  So the invariant follows each file: what a storage   *)
(* lacks is a target of the file or excused (StoreInv), and the results to    *)
(* come are enough for the files that are not stored (DueInv).  That a file   *)
(* belongs to one round, and is fresh when the round begins, is FreshInv;     *)
(* what its two goroutines know of each other is PathInv.                     *)
(***************************************************************************)
EXTENDS Sync, TLAPS, FiniteSetTheorems

Working == {"collect", "prepare", "launch", "results", "index"}
Copying == {"prepare", "launch", "results", "index"}

\* No goroutine of the file was started.
Fresh(h) == fetch[h] = "none" /\ copy[h] = "none" /\ path[h] = "none"

\* The file waits for the goroutines of its round.
Waiting(h) == h \in files /\ pc \in {"begin", "check", "collect"}

FreshInv ==
  /\ round <= Cardinality(listed) + 1
  /\ pc = "start" => round = 0 /\ listed = {} /\ mode # "interval"
  /\ \A h \in Hashes : h \notin listed \/ h \in todo \/ Waiting(h) => Fresh(h)
  /\ todo # {} => pc \in {"prepare", "launch"}
  /\ pc \in {"start", "begin"} => \A s \in Storages : checked[s] = "no"
  /\ pc \in Working => \A s \in Storages : checked[s] # "no"

\* What the goroutine that copies a file has seen of the one that fetches it.
PathOf(h) ==
  /\ fetch[h] \in {"none", "run"} => path[h] = "none"
  /\ path[h] = "none" => copy[h] \in {"none", "await", "gone"}
  /\ path[h] = "none" /\ copy[h] = "gone" => Over(h)
  /\ path[h] = "closed" => \A s \in Storages : <<s, h>> \in excused
  /\ h \in temps => path[h] = "file"
  /\ h \in temps /\ copy[h] \in {"send", "gone", "lost"} => Over(h)

PathInv == \A h \in Hashes : PathOf(h)

\* Nothing is removed behind the back of the synchronizer.
Clean == NoGC \/ mode = "exist"

GcInv == Clean => gc = NoGc

\* The storage has the file, as far as this round looked, or could not have it.
Ok(s, h) ==
  \/ <<s, h>> \in excused \union verifying
  \/ content[s][h] = "whole"
  \/ ~heavy /\ content[s][h] = "corrupt"

\* What a storage lacks of a file of the round is known to be missing, then is a
\* target of the copy, and is stored or excused when the copy is done.
StoredOn(s, h) ==
  /\ checked[s] # "no" => s \in missing[h] \/ Ok(s, h)
  /\ copy[h] = "copy" => s \in targets[h] \/ Ok(s, h)
  /\ copy[h] = "send" => Ok(s, h)

\* A file under a heavy check is there.
VerifyingIsThere(s, h) ==
  <<s, h>> \in verifying => h \in files /\ (content[s][h] # "none" \/ <<s, h>> \in excused)

Known(s, h) ==
  /\ VerifyingIsThere(s, h)
  /\ h \in files /\ pc \in Working \union {"check"} => StoredOn(s, h)

StoreInv == Clean => \A s \in Storages, h \in Hashes : Known(s, h)

\* The files of the round whose result is still to come, or is needed.
Pending(h) == h \in todo \/ copy[h] \in {"await", "alloc", "copy", "send"}
Due == {h \in files : Pending(h) \/ (NoGC /\ \E s \in Storages : ~Ok(s, h))}

DueInv ==
  pc \in Copying =>
    /\ \A h \in files : missing[h] # {} /\ copy[h] = "none" => h \in todo
    /\ Cardinality(Due) <= awaited
    /\ pc = "index" => awaited = 0

\* The first sync is skipped: no goroutine is ever started.
ExistInv ==
  mode = "exist" =>
    /\ pc \in {"start", "check", "collect", "idle", "over"}
    /\ ~heavy /\ verifying = {}
    /\ \A h \in Hashes : copy[h] = "none"
    /\ pc \in {"start", "check", "collect"} => fileset = {}
    /\ \A s \in Storages, h \in Hashes : s \in missing[h] => content[s][h] = "none"
    /\ ExistingIsIndexed

IInv ==
  TypeOK /\ SlotsConserved /\ FreshInv /\ PathInv /\ GcInv /\ StoreInv /\ DueInv /\ ExistInv
-----------------------------------------------------------------------------
\* Lemma: a list of new files makes the set of the listed ones larger, and it
\* stays within the files there are.
LEMMA ListedGrows ==
  ASSUME listed \subseteq Hashes, NEW fs, fs \subseteq Hashes \ listed, fs # {}
  PROVE  /\ Cardinality(listed) \in Nat /\ Cardinality(listed \union fs) \in Nat
         /\ Cardinality(listed) + 1 <= Cardinality(listed \union fs)
         /\ Cardinality(listed) + 1 <= Cardinality(Hashes)
PROOF
  <1>1. PICK h \in fs : TRUE
    OBVIOUS
  <1>2. /\ IsFiniteSet(listed) /\ IsFiniteSet(listed \union {h}) /\ IsFiniteSet(listed \union fs)
        /\ Cardinality(Hashes) \in Nat /\ Cardinality(listed) \in Nat
        /\ Cardinality(listed \union {h}) \in Nat /\ Cardinality(listed \union fs) \in Nat
    <2>1. /\ listed \subseteq Hashes /\ listed \union {h} \subseteq Hashes
          /\ listed \union fs \subseteq Hashes
      BY <1>1
    <2>2. \A S : S \subseteq Hashes => IsFiniteSet(S)
      BY HashesAssumption, FS_Subset
    <2>3. QED
      BY <2>1, <2>2, HashesAssumption, FS_CardinalityType
  <1>3. Cardinality(listed \union {h}) = Cardinality(listed) + 1
    BY <1>1, <1>2, FS_AddElement
  <1>4. Cardinality(listed \union {h}) <= Cardinality(listed \union fs)
    BY <1>1, <1>2, FS_Subset
  <1>5. Cardinality(listed \union {h}) <= Cardinality(Hashes)
    BY <1>1, <1>2, HashesAssumption, FS_Subset
  <1>6. QED
    BY <1>2, <1>3, <1>4, <1>5

\* The goroutines of a round that hold a slot.
Fetching(r)  == {h \in Hashes : roundOf[h] = r /\ fetch[h] \in {"run", "end"}}
CopyingIn(r) == {h \in Hashes : roundOf[h] = r /\ copy[h] = "copy"}

\* Lemma: the numbers of the goroutines of a round are numbers.
LEMMA HoldersFinite ==
  ASSUME NEW r
  PROVE  /\ IsFiniteSet(Fetching(r)) /\ Cardinality(Fetching(r)) \in Nat
         /\ IsFiniteSet(CopyingIn(r)) /\ Cardinality(CopyingIn(r)) \in Nat
         /\ IsFiniteSet(Fetching(r)') /\ Cardinality(Fetching(r)') \in Nat
         /\ IsFiniteSet(CopyingIn(r)') /\ Cardinality(CopyingIn(r)') \in Nat
PROOF
  <1>1. /\ Fetching(r) \subseteq Hashes /\ Fetching(r)' \subseteq Hashes
        /\ CopyingIn(r) \subseteq Hashes /\ CopyingIn(r)' \subseteq Hashes
    BY DEF Fetching, CopyingIn
  <1>2. \A S : S \subseteq Hashes => IsFiniteSet(S)
    BY HashesAssumption, FS_Subset
  <1>3. QED
    BY <1>1, <1>2, FS_CardinalityType

\* Lemma: the slots of a round are conserved when nothing of the goroutines and
\* the slots changes, or one goroutine takes or gives up a slot.
LEMMA SlotMoves ==
  ASSUME TypeOK, SlotsConserved, NEW r \in Rounds,
         slots'[r] \in Int,
         \/ slots'[r] = slots[r] /\ Fetching(r)' = Fetching(r) /\ CopyingIn(r)' = CopyingIn(r)
         \/ /\ slots'[r] = slots[r] - 1
            /\ \E h : \/ /\ h \notin Fetching(r) /\ Fetching(r)' = Fetching(r) \union {h}
                         /\ CopyingIn(r)' = CopyingIn(r)
                      \/ /\ h \notin CopyingIn(r) /\ CopyingIn(r)' = CopyingIn(r) \union {h}
                         /\ Fetching(r)' = Fetching(r)
         \/ /\ slots'[r] = slots[r] + 1
            /\ \E h : \/ /\ h \in Fetching(r) /\ Fetching(r)' = Fetching(r) \ {h}
                         /\ CopyingIn(r)' = CopyingIn(r)
                      \/ /\ h \in CopyingIn(r) /\ CopyingIn(r)' = CopyingIn(r) \ {h}
                         /\ Fetching(r)' = Fetching(r)
  PROVE  slots'[r] + Cardinality(Fetching(r)') + Cardinality(CopyingIn(r)') = Slots
PROOF
  <1>1. slots[r] + Cardinality(Fetching(r)) + Cardinality(CopyingIn(r)) = Slots
    BY DEF SlotsConserved, Fetching, CopyingIn
  <1>2. slots[r] \in Int /\ Slots \in Int
    BY SlotsAssumption DEF TypeOK
  <1>3. QED
    BY <1>1, <1>2, HoldersFinite, FS_AddElement, FS_RemoveElement

\* Lemma: no step loses or makes a slot.
LEMMA SlotStep ==
  ASSUME IInv, [Next]_vars
  PROVE  SlotsConserved'
PROOF
  <1> USE DEF control, checks, results, contexts, fetches, copies, history, FetchVars, CopyVars,
              GcVars
  <1>a. TypeOK /\ SlotsConserved /\ FreshInv
    BY DEF IInv
  <1>b. \A h \in Hashes : roundOf[h] \in Rounds
    BY <1>a DEF TypeOK
  <1>c. SUFFICES ASSUME NEW r \in Rounds
                 PROVE  slots'[r] + Cardinality(Fetching(r)') + Cardinality(CopyingIn(r)') = Slots
    BY DEF SlotsConserved, Fetching, CopyingIn
  <1>d. slots \in [Rounds -> 0..Slots] /\ slots[r] \in Int
    BY <1>a, SlotsAssumption DEF TypeOK
  <1>e. DEFINE Same == UNCHANGED <<slots, roundOf, fetch, copy>>
  <1>f. ASSUME Same
        PROVE  slots'[r] = slots[r] /\ Fetching(r)' = Fetching(r) /\ CopyingIn(r)' = CopyingIn(r)
    BY <1>f DEF Fetching, CopyingIn
  <1> DEFINE Goal == slots'[r] + Cardinality(Fetching(r)') + Cardinality(CopyingIn(r)') = Slots
  <1>1. CASE FirstList \/ Tick
    <2>1. PICK fs \in SUBSET Hashes : NewList(fs) /\ (fs \subseteq Hashes \ listed \/ listed = {})
      BY <1>1, <1>a DEF FirstList, Tick, FreshInv
    <2>2. \A h \in Hashes : roundOf'[h] # roundOf[h] => Fresh(h)
      BY <2>1, <1>a DEF NewList, FreshInv, TypeOK
    <2>3. UNCHANGED <<slots, fetch, copy>>
      BY <1>1 DEF FirstList, Tick
    <2>4. Fetching(r)' = Fetching(r) /\ CopyingIn(r)' = CopyingIn(r)
      BY <2>2, <2>3 DEF Fetching, CopyingIn, Fresh
    <2>5. QED
      BY <1>a, <1>d, <2>3, <2>4, SlotMoves
  <1>2. CASE \/ FirstListFails \/ EnableCluster \/ Stop \/ Begin \/ Index \/ IndexExisting
             \/ Interrupted \/ CheckDone \/ Collect \/ CollectRace \/ Prepare
             \/ \E h \in Hashes : AllBroken(h)
             \/ GcRemoves \/ GcEnds \/ \E s \in Storages, h \in Hashes : GcFinds(s, h)
    <2>1. Same
      BY <1>2 DEF FirstListFails, EnableCluster, Stop, Begin, Index, IndexExisting, Interrupted,
         CheckDone, Collect, CollectRace, Prepare, AllBroken, GcRemoves, GcEnds, GcFinds, Fail,
         Leave, Goto
    <2>2. QED
      BY <1>a, <1>d, <1>f, <2>1, SlotMoves
  <1>3. CASE \E s \in Storages : \/ CheckStorage(s) \/ CheckFails(s)
                                 \/ \E h \in Hashes : Verified(s, h)
                                 \/ \E h \in Hashes :
                                      CopyTo(h, s) \/ CopyRefused(h, s) \/ CopySkips(h, s)
    <2>1. Same
      <3>1. CASE \E s \in Storages : CheckStorage(s) \/ CheckFails(s)
        BY <3>1 DEF CheckStorage, CheckFails, Set
      <3>2. CASE \E s \in Storages, h \in Hashes : Verified(s, h)
        BY <3>2 DEF Verified
      <3>3. CASE \E s \in Storages, h \in Hashes :
                   CopyTo(h, s) \/ CopyRefused(h, s) \/ CopySkips(h, s)
        BY <3>3 DEF CopyTo, CopyRefused, CopySkips, Set
      <3>4. QED
        BY <1>3, <3>1, <3>2, <3>3
    <2>2. QED
      BY <1>a, <1>d, <1>f, <2>1, SlotMoves
  <1>4. ASSUME NEW h \in Hashes, \/ FetchOk(h) \/ FetchFails(h) \/ FetchStops(h) \/ CopyGets(h)
                                 \/ CopyStops(h) \/ Receive(h)
        PROVE  Goal
    <2>1. /\ UNCHANGED <<slots, roundOf>>
          /\ \A g \in Hashes : /\ fetch'[g] \in {"run", "end"} <=> fetch[g] \in {"run", "end"}
                               /\ copy'[g] = "copy" <=> copy[g] = "copy"
      BY <1>4, <1>a DEF FetchOk, FetchFails, FetchStops, NoFile, CopyGets, CopyStops, Receive, Set,
                        Goto, TypeOK
    <2>2. Fetching(r)' = Fetching(r) /\ CopyingIn(r)' = CopyingIn(r)
      BY <2>1 DEF Fetching, CopyingIn
    <2>3. QED
      BY <1>a, <1>d, <2>1, <2>2, SlotMoves
  <1>5. ASSUME NEW h \in Hashes, Launch(h) PROVE Goal
    <2>1. /\ slots'[r] = (IF r = roundOf[h] THEN slots[r] - 1 ELSE slots[r])
          /\ UNCHANGED <<roundOf>> /\ fetch[h] = "none" /\ copy[h] = "none"
          /\ fetch' = [fetch EXCEPT ![h] = "run"] /\ copy' = [copy EXCEPT ![h] = "await"]
          /\ fetch \in [Hashes -> {"none", "run", "end", "gone"}]
          /\ copy \in [Hashes -> {"none", "await", "alloc", "copy", "send", "gone", "lost"}]
      BY <1>5, <1>a, <1>b, <1>d DEF Launch, Take, Set, TypeOK, FreshInv, Fresh
    <2>2. CopyingIn(r)' = CopyingIn(r)
      BY <2>1 DEF CopyingIn
    <2>3. /\ r = roundOf[h] => h \notin Fetching(r) /\ Fetching(r)' = Fetching(r) \union {h}
          /\ r # roundOf[h] => Fetching(r)' = Fetching(r)
      BY <2>1 DEF Fetching
    <2>4. QED
      BY <1>a, <1>d, <2>1, <2>2, <2>3, SlotMoves
  <1>6. ASSUME NEW h \in Hashes, FetchFrees(h) PROVE Goal
    <2>1. /\ slots'[r] = (IF r = roundOf[h] THEN slots[r] + 1 ELSE slots[r])
          /\ UNCHANGED <<roundOf, copy>> /\ fetch[h] = "end"
          /\ fetch' = [fetch EXCEPT ![h] = "gone"]
          /\ fetch \in [Hashes -> {"none", "run", "end", "gone"}]
      BY <1>6, <1>a, <1>b, <1>d DEF FetchFrees, Give, Set, TypeOK
    <2>2. CopyingIn(r)' = CopyingIn(r)
      BY <2>1 DEF CopyingIn
    <2>3. /\ r = roundOf[h] => h \in Fetching(r) /\ Fetching(r)' = Fetching(r) \ {h}
          /\ r # roundOf[h] => Fetching(r)' = Fetching(r)
      BY <2>1 DEF Fetching
    <2>4. QED
      BY <1>a, <1>d, <2>1, <2>2, <2>3, SlotMoves
  <1>7. ASSUME NEW h \in Hashes, CopyBegins(h) PROVE Goal
    <2>1. /\ slots'[r] = (IF r = roundOf[h] THEN slots[r] - 1 ELSE slots[r])
          /\ UNCHANGED <<roundOf, fetch>> /\ copy[h] = "alloc"
          /\ copy' = [copy EXCEPT ![h] = "copy"]
          /\ copy \in [Hashes -> {"none", "await", "alloc", "copy", "send", "gone", "lost"}]
      BY <1>7, <1>a, <1>b, <1>d DEF CopyBegins, Take, Set, TypeOK
    <2>2. Fetching(r)' = Fetching(r)
      BY <2>1 DEF Fetching
    <2>3. /\ r = roundOf[h] => h \notin CopyingIn(r) /\ CopyingIn(r)' = CopyingIn(r) \union {h}
          /\ r # roundOf[h] => CopyingIn(r)' = CopyingIn(r)
      BY <2>1 DEF CopyingIn
    <2>4. QED
      BY <1>a, <1>d, <2>1, <2>2, <2>3, SlotMoves
  <1>8. ASSUME NEW h \in Hashes, CopyLosesFile(h) \/ CopyDone(h) PROVE Goal
    <2>1. PICK to \in {"lost", "send"} : copy' = [copy EXCEPT ![h] = to]
      BY <1>8 DEF CopyLosesFile, CopyDone, Set
    <2>2. /\ slots'[r] = (IF r = roundOf[h] THEN slots[r] + 1 ELSE slots[r])
          /\ UNCHANGED <<roundOf, fetch>> /\ copy[h] = "copy"
          /\ copy \in [Hashes -> {"none", "await", "alloc", "copy", "send", "gone", "lost"}]
      BY <1>8, <1>a, <1>b, <1>d DEF CopyLosesFile, CopyDone, Give, TypeOK
    <2>3. Fetching(r)' = Fetching(r)
      BY <2>2 DEF Fetching
    <2>4. /\ r = roundOf[h] => h \in CopyingIn(r) /\ CopyingIn(r)' = CopyingIn(r) \ {h}
          /\ r # roundOf[h] => CopyingIn(r)' = CopyingIn(r)
      BY <2>1, <2>2 DEF CopyingIn
    <2>5. QED
      BY <1>a, <1>d, <2>2, <2>3, <2>4, SlotMoves
  <1>9. CASE UNCHANGED vars
    BY <1>9, <1>a, <1>d, <1>f, SlotMoves DEF vars
  <1>q. QED
    BY <1>1, <1>2, <1>3, <1>4, <1>5, <1>6, <1>7, <1>8, <1>9
       DEF Next, Synchronizer, Fetch, Goroutine

\* Lemma: a step that a slot is given up in leaves no more than there were.
LEMMA SlotsBounded ==
  ASSUME SlotsConserved', NEW r \in Rounds, slots'[r] \in Int
  PROVE  slots'[r] <= Slots
PROOF
  <1>1. slots'[r] + Cardinality(Fetching(r)') + Cardinality(CopyingIn(r)') = Slots
    BY DEF SlotsConserved, Fetching, CopyingIn
  <1>2. QED
    BY <1>1, HoldersFinite, SlotsAssumption

\* Lemma: every step keeps the types.
LEMMA TypeStep ==
  ASSUME IInv, SlotsConserved', [Next]_vars
  PROVE  TypeOK'
PROOF
  <1> USE DEF control, checks, results, contexts, fetches, copies, history, FetchVars, CopyVars,
              GcVars, Places
  <1>a. TypeOK /\ FreshInv /\ DueInv
    BY DEF IInv
  <1>b. ASSUME Fail PROVE TypeOK'
    BY <1>b, <1>a DEF Fail, Leave, TypeOK
  <1>1. ASSUME FirstList \/ Tick PROVE TypeOK'
    <2>1. PICK fs \in SUBSET Hashes :
            NewList(fs) /\ (pc = "start" \/ (fs \subseteq Hashes \ listed /\ fs # {}))
      BY <1>1 DEF FirstList, Tick
    <2>2. round + 1 \in Rounds
      <3>1. Cardinality(Hashes) \in Nat /\ round \in Nat
        BY <1>a, HashesAssumption, FS_CardinalityType DEF TypeOK, Rounds
      <3>2. CASE pc = "start"
        BY <1>a, <3>1, <3>2 DEF FreshInv, Rounds
      <3>3. CASE fs \subseteq Hashes \ listed /\ fs # {}
        <4>1. listed \subseteq Hashes /\ round <= Cardinality(listed) + 1
          BY <1>a DEF FreshInv, TypeOK
        <4>2. Cardinality(listed) \in Nat /\ Cardinality(listed) + 1 <= Cardinality(Hashes)
          BY <3>3, <4>1, ListedGrows
        <4>3. QED
          BY <3>1, <4>1, <4>2 DEF Rounds
      <3>4. QED
        BY <2>1, <3>2, <3>3
    <2>t. todo = {}
      BY <1>1, <1>a DEF FirstList, Tick, FreshInv
    <2>3. CASE FirstList
      <3>1. /\ pc' \in {"check", "begin"}
            /\ UNCHANGED <<mode, heavy, checkCount, issync, fileset, results, slots, fetches, path,
                           copies, temps, content, gc, enabled, history>>
        BY <2>3 DEF FirstList
      <3>2. QED
        BY <1>a, <2>1, <2>2, <2>t, <3>1 DEF NewList, TypeOK
    <2>4. CASE Tick
      <3>1. checkCount' \in Int /\ heavy' \in BOOLEAN /\ simple' \in Int
        <4>1. CASE HeavyInterval = 0
          BY <2>4, <4>1, <1>a DEF Tick, TypeOK
        <4>2. CASE HeavyInterval # 0
          <5>1. checkCount \in Int /\ simple \in Int /\ HeavyInterval \in Nat \ {0}
            BY <4>2, <1>a, HeavyAssumption DEF TypeOK
          <5>2. checkCount' = (checkCount + 1) % HeavyInterval
            BY <2>4, <4>2 DEF Tick
          <5>3. (checkCount + 1) % HeavyInterval \in Int
            BY <5>1
          <5>4. heavy' \in BOOLEAN
            BY <2>4, <4>2 DEF Tick
          <5>5. simple' \in {0, -1, simple + 1}
            BY <2>4, <4>2 DEF Tick
          <5>6. QED
            BY <5>1, <5>2, <5>3, <5>4, <5>5
        <4>3. QED
          BY <4>1, <4>2
      <3>2. /\ pc' \in {"panic", "begin"} /\ mode' = "interval"
            /\ UNCHANGED <<issync, fileset, results, slots, fetches, path, copies, temps, content,
                           gc, enabled, synced, excused>>
        BY <2>4 DEF Tick
      <3>3. QED
        BY <1>a, <2>1, <2>2, <2>t, <3>1, <3>2 DEF NewList, TypeOK
    <2>5. QED
      BY <1>1, <2>3, <2>4
  <1>2. ASSUME FirstListFails \/ EnableCluster \/ Stop \/ Begin PROVE TypeOK'
    <2>1. CASE FirstListFails
      BY <2>1, <1>a DEF FirstListFails, TypeOK
    <2>2. CASE EnableCluster
      BY <2>2, <1>a DEF EnableCluster, TypeOK
    <2>3. CASE Stop
      BY <2>3, <1>a DEF Stop, TypeOK
    <2>4. CASE Begin
      BY <2>4, <1>a DEF Begin, TypeOK
    <2>5. QED
      BY <1>2, <2>1, <2>2, <2>3, <2>4
  <1>3. ASSUME Index \/ IndexExisting PROVE TypeOK'
    <2>1. CASE Index
      BY <2>1, <1>a DEF Index, Leave, NoGc, TypeOK
    <2>2. CASE IndexExisting
      BY <2>2, <1>a DEF IndexExisting, Leave, TypeOK
    <2>3. QED
      BY <1>3, <2>1, <2>2
  <1>4. ASSUME Interrupted \/ CheckDone \/ \E h \in Hashes : AllBroken(h) PROVE TypeOK'
    <2>1. CASE Interrupted
      BY <2>1, <1>b DEF Interrupted
    <2>2. CASE CheckDone
      <3>1. CASE \E s \in Storages : checked[s] = "ok"
        BY <2>2, <3>1, <1>a DEF CheckDone, Goto, TypeOK
      <3>2. QED
        BY <2>2, <3>1, <1>b DEF CheckDone
    <2>3. CASE \E h \in Hashes : AllBroken(h)
      BY <2>3, <1>b DEF AllBroken
    <2>4. QED
      BY <1>4, <2>1, <2>2, <2>3
  <1>5. ASSUME CollectRace \/ Prepare PROVE TypeOK'
    BY <1>5, <1>a DEF CollectRace, Prepare, Goto, TypeOK
  <1>6. ASSUME Collect PROVE TypeOK'
    <2>1. todo' \subseteq files /\ awaited' = Cardinality(todo') /\ files \subseteq Hashes
      BY <1>6, <1>a DEF Collect, TypeOK
    <2>2. awaited' \in Nat
      BY <2>1, HashesAssumption, FS_Subset, FS_CardinalityType
    <2>3. QED
      BY <1>6, <1>a, <2>1, <2>2 DEF Collect, Goto, TypeOK
  <1>7. ASSUME NEW s \in Storages, CheckStorage(s) \/ CheckFails(s) PROVE TypeOK'
    <2>1. CASE CheckStorage(s)
      BY <2>1, <1>a DEF CheckStorage, Set, TypeOK
    <2>2. CASE CheckFails(s)
      BY <2>2, <1>a DEF CheckFails, Set, TypeOK
    <2>3. QED
      BY <1>7, <2>1, <2>2
  <1>8. ASSUME NEW s \in Storages, NEW h \in Hashes, Verified(s, h) PROVE TypeOK'
    BY <1>8, <1>a DEF Verified, TypeOK
  <1>9. ASSUME NEW h \in Hashes, Launch(h) PROVE TypeOK'
    BY <1>9, <1>a, SlotsAssumption DEF Launch, Take, Goto, Set, TypeOK
  <1>10. ASSUME NEW h \in Hashes, FetchOk(h) \/ FetchStops(h) PROVE TypeOK'
    <2>1. CASE FetchOk(h)
      BY <2>1, <1>a DEF FetchOk, Set, TypeOK
    <2>2. CASE FetchStops(h)
      BY <2>2, <1>a DEF FetchStops, NoFile, Set, TypeOK
    <2>3. QED
      BY <1>10, <2>1, <2>2
  <1>11. ASSUME NEW h \in Hashes, FetchFails(h) PROVE TypeOK'
    <2>1. CASE tried[h] < MaxTries
      <3>1. tried[h] + 1 \in 1..MaxTries
        BY <2>1, <1>a, TriesAssumption DEF TypeOK
      <3>2. QED
        BY <1>11, <2>1, <1>a, <3>1 DEF FetchFails, Set, TypeOK
    <2>2. CASE ~(tried[h] < MaxTries)
      <3>1. /\ NoFile(h) /\ UNCHANGED tried /\ excused' = excused \union (Storages \X {h})
            /\ UNCHANGED <<FetchVars, slots, temps, synced, simple>>
        BY <1>11, <2>2 DEF FetchFails
      <3>2. QED
        BY <3>1, <1>a DEF NoFile, Set, TypeOK
    <2>3. QED
      BY <2>1, <2>2
  <1>12. ASSUME NEW h \in Hashes, FetchFrees(h) \/ CopyLosesFile(h) \/ CopyDone(h) PROVE TypeOK'
    <2>1. /\ slots \in [Rounds -> 0..Slots] /\ roundOf[h] \in Rounds
          /\ slots' = [slots EXCEPT ![roundOf[h]] = @ + 1]
      BY <1>12, <1>a DEF TypeOK, FetchFrees, CopyLosesFile, CopyDone, Give
    <2>2. \A r \in Rounds : slots'[r] \in Nat
      BY <2>1, SlotsAssumption
    <2>3. \A r \in Rounds : slots'[r] \in 0..Slots
      BY <2>2, SlotsBounded, SlotsAssumption
    <2>4. slots' \in [Rounds -> 0..Slots]
      BY <2>1, <2>3
    <2>5. CASE FetchFrees(h)
      BY <2>5, <1>a, <2>4 DEF FetchFrees, Set, TypeOK
    <2>6. CASE CopyLosesFile(h)
      BY <2>6, <1>a, <2>4 DEF CopyLosesFile, Set, TypeOK
    <2>7. CASE CopyDone(h)
      BY <2>7, <1>a, <2>4 DEF CopyDone, Set, TypeOK
    <2>8. QED
      BY <1>12, <2>5, <2>6, <2>7
  <1>13. ASSUME NEW h \in Hashes, CopyGets(h) \/ CopyStops(h) PROVE TypeOK'
    <2>1. CASE CopyGets(h)
      BY <2>1, <1>a DEF CopyGets, Set, TypeOK
    <2>2. CASE CopyStops(h)
      BY <2>2, <1>a DEF CopyStops, Set, TypeOK
    <2>3. QED
      BY <1>13, <2>1, <2>2
  <1>14. ASSUME NEW h \in Hashes, CopyBegins(h) PROVE TypeOK'
    BY <1>14, <1>a, SlotsAssumption DEF CopyBegins, Take, Set, TypeOK
  <1>15. ASSUME NEW h \in Hashes, NEW s \in Storages,
                CopyTo(h, s) \/ CopyRefused(h, s) \/ CopySkips(h, s)
         PROVE  TypeOK'
    <2>1. CASE CopyTo(h, s)
      BY <2>1, <1>a DEF CopyTo, Set, TypeOK
    <2>2. CASE CopyRefused(h, s)
      BY <2>2, <1>a DEF CopyRefused, Set, TypeOK
    <2>3. CASE CopySkips(h, s)
      BY <2>3, <1>a DEF CopySkips, Set, TypeOK
    <2>4. QED
      BY <1>15, <2>1, <2>2, <2>3
  <1>16. ASSUME NEW h \in Hashes, Receive(h) PROVE TypeOK'
    <2>1. awaited - 1 \in Nat
      <3>1. h \in Due /\ Due \subseteq Hashes /\ Cardinality(Due) <= awaited /\ awaited \in Nat
        BY <1>16, <1>a DEF Receive, Due, Pending, DueInv, Copying, TypeOK
      <3>2. IsFiniteSet(Due)
        BY <3>1, HashesAssumption, FS_Subset
      <3>3. Cardinality(Due) \in Nat /\ Cardinality(Due) # 0
        BY <3>1, <3>2, FS_CardinalityType, FS_EmptySet
      <3>4. QED
        BY <3>1, <3>3
    <2>2. QED
      BY <1>16, <1>a, <2>1 DEF Receive, Goto, Set, TypeOK
  <1>17. ASSUME NEW s \in Storages, NEW h \in Hashes, GcFinds(s, h) PROVE TypeOK'
    BY <1>17, <1>a DEF GcFinds, TypeOK, NoGc
  <1>18. ASSUME GcRemoves \/ GcEnds PROVE TypeOK'
    <2>1. CASE GcRemoves
      BY <2>1, <1>a DEF GcRemoves, NoGc, TypeOK
    <2>2. CASE GcEnds
      BY <2>2, <1>a DEF GcEnds, NoGc, TypeOK
    <2>3. QED
      BY <1>18, <2>1, <2>2
  <1>19. CASE UNCHANGED vars
    BY <1>19, <1>a DEF vars, TypeOK
  <1>q. QED
    BY <1>1, <1>2, <1>3, <1>4, <1>5, <1>6, <1>7, <1>8, <1>9, <1>10, <1>11, <1>12, <1>13, <1>14,
       <1>15, <1>16, <1>17, <1>18, <1>19
       DEF Next, Synchronizer, Fetch, Goroutine

\* Lemma: a step of the goroutines of a file that were started touches no other
\* file.
LEMMA FreshStays ==
  ASSUME TypeOK, FreshInv, NEW h \in Hashes, ~Fresh(h),
         UNCHANGED <<round, listed, pc, mode, files, todo, checked>>,
         \A g \in Hashes \ {h} : Fresh(g) => Fresh(g)'
  PROVE  FreshInv'
PROOF
  <1>1. h \in listed /\ h \notin todo /\ ~Waiting(h)
    BY DEF FreshInv
  <1>2. \A g \in Hashes : Waiting(g)' <=> Waiting(g)
    BY DEF Waiting
  <1>3. \A g \in Hashes : g \notin listed' \/ g \in todo' \/ Waiting(g)' => Fresh(g)'
    BY <1>1, <1>2 DEF FreshInv
  <1>4. /\ round' <= Cardinality(listed') + 1
        /\ pc' = "start" => round' = 0 /\ listed' = {} /\ mode' # "interval"
        /\ todo' # {} => pc' \in {"prepare", "launch"}
        /\ pc' \in {"start", "begin"} => \A s \in Storages : checked'[s] = "no"
        /\ pc' \in Working => \A s \in Storages : checked'[s] # "no"
    BY DEF FreshInv
  <1>5. QED
    BY <1>3, <1>4 DEF FreshInv

\* Lemma: a file belongs to one round, and is fresh when the round begins.
LEMMA FreshStep ==
  ASSUME IInv, [Next]_vars
  PROVE  FreshInv'
PROOF
  <1> USE DEF control, checks, results, contexts, fetches, copies, history, FetchVars, CopyVars,
              GcVars
  <1>a. TypeOK /\ FreshInv
    BY DEF IInv
  <1> DEFINE Goroutines == UNCHANGED <<fetch, copy, path>>
             Lists      == UNCHANGED <<round, listed, mode, files>>
  <1>b. ASSUME Goroutines PROVE \A h \in Hashes : Fresh(h)' <=> Fresh(h)
    BY <1>b DEF Fresh
  <1>1. ASSUME FirstList \/ Tick PROVE FreshInv'
    <2>1. PICK fs \in SUBSET Hashes :
            NewList(fs) /\ (pc = "start" \/ (fs \subseteq Hashes \ listed /\ fs # {}))
      BY <1>1 DEF FirstList, Tick
    <2>2. /\ Goroutines /\ UNCHANGED todo /\ todo = {}
          /\ pc' \notin {"start"} \union Working
      BY <1>1, <1>a DEF FirstList, Tick, FreshInv, Working
    <2>3. /\ files' = fs /\ listed' = listed \union fs /\ round' = round + 1
          /\ checked' = [s \in Storages |-> "no"]
      BY <2>1 DEF NewList
    <2>4. \A h \in Hashes : h \notin listed' \/ h \in files' => Fresh(h)'
      BY <1>a, <1>b, <2>1, <2>2, <2>3 DEF FreshInv
    <2>5. round' <= Cardinality(listed') + 1
      <3>1. round \in Nat /\ listed \subseteq Hashes /\ round <= Cardinality(listed) + 1
        BY <1>a DEF TypeOK, FreshInv, Rounds
      <3>2. CASE pc = "start"
        <4>1. round = 0 /\ listed = {}
          BY <1>a, <3>2 DEF FreshInv
        <4>2. Cardinality(fs) \in Nat
          BY HashesAssumption, FS_Subset, FS_CardinalityType
        <4>3. listed' = fs
          BY <2>3, <4>1
        <4>4. QED
          BY <2>3, <4>1, <4>2, <4>3
      <3>3. CASE fs \subseteq Hashes \ listed /\ fs # {}
        BY <2>3, <3>1, <3>3, ListedGrows
      <3>4. QED
        BY <2>1, <3>2, <3>3
    <2>6. QED
      BY <2>2, <2>3, <2>4, <2>5 DEF FreshInv, Waiting
  <1>2. ASSUME FirstListFails \/ Begin \/ Prepare \/ CollectRace PROVE FreshInv'
    <2>1. /\ Goroutines /\ Lists /\ UNCHANGED <<todo, checked>>
          /\ \/ pc = "start" /\ pc' \in {"idle", "over"}
             \/ pc = "begin" /\ pc' = "check"
             \/ pc = "prepare" /\ pc' = "launch"
             \/ pc = "collect" /\ pc' = "panic"
      BY <1>2 DEF FirstListFails, Begin, Prepare, CollectRace, Goto
    <2>2. \A h \in Hashes : Waiting(h)' => Waiting(h)
      BY <2>1 DEF Waiting
    <2>3. QED
      BY <1>a, <1>b, <2>1, <2>2 DEF FreshInv, Working
  <1>3. ASSUME EnableCluster \/ Stop \/ GcRemoves \/ GcEnds \/ UNCHANGED vars PROVE FreshInv'
    BY <1>3, <1>a DEF EnableCluster, Stop, GcRemoves, GcEnds, vars, FreshInv, Waiting, Fresh
  <1>4. ASSUME Leave, pc' \in {"idle", "over"} PROVE FreshInv'
    BY <1>4, <1>a DEF Leave, FreshInv, Waiting, Fresh, Working
  <1>5. ASSUME Index \/ IndexExisting \/ Interrupted \/ \E h \in Hashes : AllBroken(h) PROVE FreshInv'
    BY <1>5, <1>4 DEF Index, IndexExisting, Interrupted, AllBroken, Fail
  <1>6. ASSUME NEW s \in Storages, CheckStorage(s) \/ CheckFails(s) PROVE FreshInv'
    <2>1. Goroutines /\ Lists /\ UNCHANGED <<todo, pc>> /\ pc = "check"
      BY <1>6 DEF CheckStorage, CheckFails
    <2>2. QED
      BY <1>a, <1>b, <2>1 DEF FreshInv, Waiting, Working
  <1>7. ASSUME NEW s \in Storages, NEW h \in Hashes, Verified(s, h) \/ GcFinds(s, h) PROVE FreshInv'
    BY <1>7, <1>a DEF Verified, GcFinds, FreshInv, Waiting, Fresh
  <1>8. ASSUME CheckDone PROVE FreshInv'
    <2>1. CASE \E s \in Storages : checked[s] = "ok"
      <3>1. /\ Goroutines /\ Lists /\ UNCHANGED <<todo, checked>> /\ pc = "check" /\ pc' = "collect"
            /\ \A s \in Storages : checked[s] # "no"
        BY <1>8, <2>1 DEF CheckDone, Goto
      <3>2. QED
        BY <1>a, <1>b, <3>1 DEF FreshInv, Waiting, Working
    <2>2. QED
      BY <1>8, <1>4, <2>1 DEF CheckDone, Fail
  <1>9. ASSUME Collect PROVE FreshInv'
    <2>1. /\ Goroutines /\ Lists /\ UNCHANGED checked /\ pc = "collect" /\ todo' \subseteq files
          /\ pc' = (IF todo' = {} THEN "index" ELSE "prepare")
      BY <1>9 DEF Collect, Goto
    <2>2. \A h \in Hashes : h \in todo' => Waiting(h)
      BY <2>1 DEF Waiting
    <2>3. QED
      BY <1>a, <1>b, <2>1, <2>2 DEF FreshInv, Waiting, Working
  <1>10. ASSUME NEW h \in Hashes, Launch(h) PROVE FreshInv'
    <2>1. /\ Lists /\ UNCHANGED <<checked, path>> /\ pc = "launch" /\ h \in todo /\ todo' = todo \ {h}
          /\ pc' = (IF todo' = {} THEN "results" ELSE "launch")
          /\ fetch' = [fetch EXCEPT ![h] = "run"] /\ copy' = [copy EXCEPT ![h] = "await"]
      BY <1>10 DEF Launch, Goto, Set
    <2>2. \A g \in Hashes \ {h} : Fresh(g)' <=> Fresh(g)
      BY <1>a, <2>1 DEF Fresh, TypeOK
    <2>3. h \in listed
      BY <1>a, <2>1 DEF TypeOK
    <2>4. QED
      BY <1>a, <2>1, <2>2, <2>3 DEF FreshInv, Waiting, Working
  <1>11. ASSUME NEW h \in Hashes, FetchOk(h) \/ FetchFails(h) \/ FetchStops(h) \/ FetchFrees(h)
         PROVE  FreshInv'
    <2>1. /\ ~Fresh(h) /\ UNCHANGED <<round, listed, pc, mode, files, todo, checked, copy>>
      BY <1>11 DEF FetchOk, FetchFails, FetchStops, FetchFrees, Fresh
    <2>2. \A g \in Hashes \ {h} : fetch'[g] = fetch[g] /\ path'[g] = path[g]
      BY <1>11, <1>a DEF FetchOk, FetchFails, FetchStops, FetchFrees, NoFile, Set, TypeOK
    <2>3. QED
      BY <1>a, <2>1, <2>2, FreshStays DEF Fresh
  <1>12. ASSUME NEW h \in Hashes, \/ CopyGets(h) \/ CopyStops(h) \/ CopyBegins(h) \/ CopyLosesFile(h)
                                  \/ CopyDone(h)
                                  \/ \E s \in Storages :
                                       CopyTo(h, s) \/ CopyRefused(h, s) \/ CopySkips(h, s)
         PROVE  FreshInv'
    <2>1. /\ ~Fresh(h) /\ UNCHANGED <<round, listed, pc, mode, files, todo, checked, fetch, path>>
      BY <1>12 DEF CopyGets, CopyStops, CopyBegins, CopyLosesFile, CopyDone, CopyTo, CopyRefused,
                    CopySkips, Fresh
    <2>2. \A g \in Hashes \ {h} : copy'[g] = copy[g]
      BY <1>12, <1>a DEF CopyGets, CopyStops, CopyBegins, CopyLosesFile, CopyDone, CopyTo,
                         CopyRefused, CopySkips, Set, TypeOK
    <2>3. QED
      BY <1>a, <2>1, <2>2, FreshStays DEF Fresh
  <1>13. ASSUME NEW h \in Hashes, Receive(h) PROVE FreshInv'
    <2>1. /\ ~Fresh(h) /\ Lists /\ UNCHANGED <<todo, checked, fetch, path>>
          /\ pc = "results" /\ pc' \in {"results", "index"} /\ copy' = [copy EXCEPT ![h] = "gone"]
      BY <1>13 DEF Receive, Goto, Set, Fresh
    <2>2. \A g \in Hashes \ {h} : Fresh(g)' <=> Fresh(g)
      BY <1>a, <2>1 DEF Fresh, TypeOK
    <2>3. QED
      BY <1>a, <2>1, <2>2 DEF FreshInv, Waiting, Working
  <1>q. QED
    BY <1>1, <1>2, <1>3, <1>5, <1>6, <1>7, <1>8, <1>9, <1>10, <1>11, <1>12, <1>13
       DEF Next, Synchronizer, Fetch, Goroutine

\* Lemma: what is known of the path of a file outlives a step that touches
\* neither its goroutines nor its round.
LEMMA PathStays ==
  ASSUME NEW h \in Hashes, PathOf(h), over \subseteq over', excused \subseteq excused',
         roundOf'[h] = roundOf[h], fetch'[h] = fetch[h], path'[h] = path[h], copy'[h] = copy[h],
         h \in temps' => h \in temps
  PROVE  PathOf(h)'
PROOF
  BY DEF PathOf, Over

\* Lemma: the two goroutines of a file agree on its path, and only a cancelled
\* round leaves a temporary file.
LEMMA PathStep ==
  ASSUME IInv, [Next]_vars
  PROVE  PathInv'
PROOF
  <1> USE DEF control, checks, results, contexts, fetches, copies, history, FetchVars, CopyVars,
              GcVars
  <1>a. TypeOK /\ FreshInv /\ PathInv
    BY DEF IInv
  <1>b. ASSUME UNCHANGED <<roundOf, fetch, path, copy, temps>>,
               over \subseteq over', excused \subseteq excused'
        PROVE  PathInv'
    BY <1>a, <1>b, PathStays DEF PathInv
  <1>1. ASSUME FirstList \/ Tick PROVE PathInv'
    <2>1. PICK fs \in SUBSET Hashes : NewList(fs) /\ (fs \subseteq Hashes \ listed \/ listed = {})
      BY <1>1, <1>a DEF FirstList, Tick, FreshInv
    <2>2. UNCHANGED <<fetch, path, copy, temps, over, excused>>
      BY <1>1, <2>1 DEF FirstList, Tick, NewList
    <2>3. \A h \in Hashes : roundOf'[h] = roundOf[h] \/ Fresh(h)
      BY <1>a, <2>1 DEF NewList, FreshInv, TypeOK
    <2>4. QED
      BY <1>a, <2>2, <2>3 DEF PathInv, PathOf, Fresh, Over
  <1>2. ASSUME \/ FirstListFails \/ EnableCluster \/ Begin \/ Prepare \/ CollectRace \/ Collect
               \/ GcRemoves \/ GcEnds \/ UNCHANGED vars
        PROVE  PathInv'
    <2>1. UNCHANGED <<roundOf, fetch, path, copy, temps, over, excused>>
      BY <1>2 DEF FirstListFails, EnableCluster, Begin, Prepare, CollectRace, Collect, GcRemoves,
         GcEnds, vars
    <2>2. QED
      BY <1>b, <2>1
  <1>3. ASSUME Stop PROVE PathInv'
    <2>1. UNCHANGED <<roundOf, fetch, path, copy, temps, excused>> /\ over \subseteq over'
      BY <1>3, <1>a DEF Stop, TypeOK
    <2>2. QED
      BY <1>b, <2>1
  <1>4. ASSUME Leave PROVE PathInv'
    <2>1. UNCHANGED <<roundOf, fetch, path, copy, temps, excused>> /\ over \subseteq over'
      BY <1>4 DEF Leave
    <2>2. QED
      BY <1>b, <2>1
  <1>5. ASSUME Index \/ IndexExisting \/ Interrupted \/ \E h \in Hashes : AllBroken(h) PROVE PathInv'
    BY <1>5, <1>4 DEF Index, IndexExisting, Interrupted, AllBroken, Fail
  <1>6. ASSUME CheckDone PROVE PathInv'
    <2>1. CASE \E s \in Storages : checked[s] = "ok"
      <3>1. UNCHANGED <<roundOf, fetch, path, copy, temps, over, excused>>
        BY <1>6, <2>1 DEF CheckDone
      <3>2. QED
        BY <1>b, <3>1
    <2>2. QED
      BY <1>6, <1>4, <2>1 DEF CheckDone, Fail
  <1>7. ASSUME NEW s \in Storages, CheckStorage(s) \/ CheckFails(s) PROVE PathInv'
    <2>1. UNCHANGED <<roundOf, fetch, path, copy, temps, over>> /\ excused \subseteq excused'
      BY <1>7 DEF CheckStorage, CheckFails
    <2>2. QED
      BY <1>b, <2>1
  <1>8. ASSUME NEW s \in Storages, NEW h \in Hashes, Verified(s, h) \/ GcFinds(s, h) PROVE PathInv'
    <2>1. UNCHANGED <<roundOf, fetch, path, copy, temps, over>> /\ excused \subseteq excused'
      BY <1>8 DEF Verified, GcFinds
    <2>2. QED
      BY <1>b, <2>1
  <1>9. ASSUME NEW h \in Hashes, UNCHANGED <<roundOf, over>>, excused \subseteq excused', PathOf(h)',
               \A g \in Hashes \ {h} : /\ fetch'[g] = fetch[g] /\ path'[g] = path[g]
                                       /\ copy'[g] = copy[g] /\ (g \in temps' => g \in temps)
        PROVE  PathInv'
    <2>1. ASSUME NEW g \in Hashes \ {h} PROVE PathOf(g)'
      <3>1. PathOf(g)
        BY <1>a DEF PathInv
      <3>2. QED
        BY <1>9, <3>1, PathStays
    <2>2. QED
      BY <1>9, <2>1 DEF PathInv
  <1>10. ASSUME NEW h \in Hashes, Launch(h) PROVE PathInv'
    <2>1. /\ UNCHANGED <<roundOf, over, path, temps, excused>> /\ Fresh(h)
          /\ fetch' = [fetch EXCEPT ![h] = "run"] /\ copy' = [copy EXCEPT ![h] = "await"]
      BY <1>10, <1>a DEF Launch, Set, FreshInv
    <2>2. fetch'[h] = "run" /\ copy'[h] = "await" /\ path'[h] = "none" /\ h \notin temps'
      BY <1>a, <2>1 DEF TypeOK, PathInv, PathOf, Fresh
    <2>3. PathOf(h)'
      BY <2>2 DEF PathOf
    <2>4. QED
      BY <1>9, <1>a, <2>1, <2>3 DEF TypeOK
  <1>11. ASSUME NEW h \in Hashes, FetchOk(h) PROVE PathInv'
    <2>1. /\ UNCHANGED <<roundOf, over, copy, excused>> /\ fetch[h] = "run"
          /\ fetch' = [fetch EXCEPT ![h] = "end"] /\ path' = [path EXCEPT ![h] = "file"]
          /\ temps' = temps \union {h}
      BY <1>11 DEF FetchOk, Set
    <2>2. fetch'[h] = "end" /\ path'[h] = "file" /\ copy'[h] = copy[h]
      BY <1>a, <2>1 DEF TypeOK
    <2>3. copy[h] \in {"none", "await", "gone"} /\ (copy[h] = "gone" => Over(h))
      BY <1>a, <2>1 DEF PathInv, PathOf
    <2>4. PathOf(h)'
      BY <2>1, <2>2, <2>3 DEF PathOf, Over
    <2>5. QED
      BY <1>9, <1>a, <2>1, <2>4 DEF TypeOK
  <1>12. ASSUME NEW h \in Hashes, NoFile(h), excused' = excused \union (Storages \X {h}),
                UNCHANGED <<roundOf, over, copy, temps>>, fetch[h] = "run"
         PROVE  PathInv'
    <2>1. fetch' = [fetch EXCEPT ![h] = "end"] /\ path' = [path EXCEPT ![h] = "closed"]
      BY <1>12 DEF NoFile, Set
    <2>2. fetch'[h] = "end" /\ path'[h] = "closed" /\ h \notin temps'
      BY <1>12, <1>a, <2>1 DEF TypeOK, PathInv, PathOf
    <2>3. PathOf(h)'
      BY <1>12, <2>2 DEF PathOf
    <2>4. QED
      BY <1>9, <1>12, <1>a, <2>1, <2>3 DEF TypeOK
  <1>13. ASSUME NEW h \in Hashes, FetchFails(h) PROVE PathInv'
    <2>1. CASE tried[h] < MaxTries
      <3>1. UNCHANGED <<roundOf, fetch, path, copy, temps, over, excused>>
        BY <1>13, <2>1 DEF FetchFails
      <3>2. QED
        BY <1>b, <3>1
    <2>2. CASE ~(tried[h] < MaxTries)
      BY <1>12, <1>13, <2>2 DEF FetchFails
    <2>3. QED
      BY <2>1, <2>2
  <1>14. ASSUME NEW h \in Hashes, FetchStops(h) PROVE PathInv'
    BY <1>12, <1>14 DEF FetchStops
  <1>15. ASSUME NEW h \in Hashes, FetchFrees(h) PROVE PathInv'
    <2>1. /\ UNCHANGED <<roundOf, over, copy, excused, path, temps>> /\ fetch[h] = "end"
          /\ fetch' = [fetch EXCEPT ![h] = "gone"]
      BY <1>15 DEF FetchFrees, Set
    <2>2. fetch'[h] = "gone"
      BY <1>a, <2>1 DEF TypeOK
    <2>3. PathOf(h)'
      BY <1>a, <2>1, <2>2 DEF PathInv, PathOf, Over
    <2>4. QED
      BY <1>9, <1>a, <2>1, <2>3 DEF TypeOK
  <1>16. ASSUME NEW h \in Hashes, NEW to, copy' = [copy EXCEPT ![h] = to],
                UNCHANGED <<roundOf, over, fetch, path>>, excused \subseteq excused',
                temps' \subseteq temps,
                \/ to \in {"alloc", "copy"} /\ path[h] # "none"
                \/ to = "send" /\ path[h] # "none" /\ h \notin temps'
                \/ to = "lost" /\ path[h] # "none" /\ h \notin temps'
                \/ to = "gone" /\ Over(h)
                \/ to = "gone" /\ copy[h] = "send"
         PROVE  PathInv'
    <2>1. copy'[h] = to
      BY <1>16, <1>a DEF TypeOK
    <2>2. PathOf(h)
      BY <1>a DEF PathInv
    <2>3. PathOf(h)'
      BY <1>16, <2>1, <2>2 DEF PathOf, Over
    <2>4. QED
      BY <1>9, <1>16, <1>a, <2>3 DEF TypeOK
  <1>17. ASSUME NEW h \in Hashes, CopyGets(h) PROVE PathInv'
    <2>1. PathOf(h) /\ path[h] \in {"none", "file", "closed"}
      BY <1>a DEF PathInv, TypeOK
    <2>2. CASE path[h] = "file"
      BY <1>16, <1>17, <2>2 DEF CopyGets, Set
    <2>3. CASE path[h] = "closed"
      <3>1. h \notin temps
        BY <2>1, <2>3 DEF PathOf
      <3>2. QED
        BY <1>16, <1>17, <2>3, <3>1 DEF CopyGets, Set
    <2>4. QED
      BY <1>17, <2>1, <2>2, <2>3 DEF CopyGets
  <1>18. ASSUME NEW h \in Hashes, CopyStops(h) PROVE PathInv'
    BY <1>16, <1>18 DEF CopyStops, Set
  <1>19. ASSUME NEW h \in Hashes, \/ CopyBegins(h) \/ CopyLosesFile(h) \/ CopyDone(h)
         PROVE  PathInv'
    <2>1. path[h] # "none"
      BY <1>19, <1>a DEF CopyBegins, CopyLosesFile, CopyDone, PathInv, PathOf
    <2>2. QED
      BY <1>16, <1>19, <2>1 DEF CopyBegins, CopyLosesFile, CopyDone, Set
  <1>20. ASSUME NEW h \in Hashes, NEW s \in Storages,
                CopyTo(h, s) \/ CopyRefused(h, s) \/ CopySkips(h, s)
         PROVE  PathInv'
    <2>1. UNCHANGED <<roundOf, fetch, path, copy, temps, over>> /\ excused \subseteq excused'
      BY <1>20 DEF CopyTo, CopyRefused, CopySkips
    <2>2. QED
      BY <1>b, <2>1
  <1>21. ASSUME NEW h \in Hashes, Receive(h) PROVE PathInv'
    BY <1>16, <1>21 DEF Receive, Set
  <1>q. QED
    BY <1>1, <1>2, <1>3, <1>5, <1>6, <1>7, <1>8, <1>10, <1>11, <1>13, <1>14, <1>15, <1>17, <1>18,
       <1>19, <1>20, <1>21
       DEF Next, Synchronizer, Fetch, Goroutine

\* Lemma: only a tick changes the mode, and only the end of a sync and Gc itself
\* change the state of Gc.
LEMMA ModeAndGc ==
  ASSUME [Next]_vars
  PROVE  \/ mode' = mode /\ gc' = gc
         \/ Tick /\ gc' = gc /\ mode' = "interval"
         \/ Index /\ mode' = mode
         \/ mode' = mode /\ gc # NoGc
              /\ (GcRemoves \/ GcEnds \/ \E s \in Storages, h \in Hashes : GcFinds(s, h))
PROOF
  <1> USE DEF control, checks, results, contexts, fetches, copies, history, FetchVars, CopyVars,
              GcVars
  <1> DEFINE Quiet == mode' = mode /\ gc' = gc
             Change ==
               \/ Tick /\ gc' = gc /\ mode' = "interval"
               \/ Index /\ mode' = mode
               \/ mode' = mode /\ gc # NoGc
                    /\ (GcRemoves \/ GcEnds \/ \E s \in Storages, h \in Hashes : GcFinds(s, h))
  <1>1. ASSUME Tick PROVE Change
    <2>1. gc' = gc /\ mode' = "interval"
      BY <1>1 DEF Tick
    <2>2. QED
      BY <1>1, <2>1
  <1>2. ASSUME Index PROVE Change
    <2>1. mode' = mode
      BY <1>2 DEF Index, Leave
    <2>2. QED
      BY <1>2, <2>1
  <1>3. ASSUME GcRemoves \/ GcEnds \/ \E s \in Storages, h \in Hashes : GcFinds(s, h)
        PROVE  Change
    <2>1. gc # NoGc /\ mode' = mode
      BY <1>3 DEF GcRemoves, GcEnds, GcFinds, NoGc
    <2>2. QED
      BY <1>3, <2>1
  <1>4. ASSUME Leave PROVE mode' = mode
    BY <1>4 DEF Leave
  <1>5. ASSUME Fail PROVE Quiet
    BY <1>4, <1>5 DEF Fail
  <1>6. IndexExisting => Quiet
    BY <1>4 DEF IndexExisting
  <1>7. Interrupted => Quiet
    BY <1>5 DEF Interrupted
  <1>8. ASSUME NEW where, Goto(where) PROVE mode' = mode
    BY <1>8 DEF Goto
  <1>9. CheckDone => Quiet
    BY <1>5, <1>8 DEF CheckDone
  <1>10. ASSUME NEW h \in Hashes PROVE AllBroken(h) => Quiet
    BY <1>5 DEF AllBroken
  <1>11. FirstList => Quiet
    BY DEF FirstList
  <1>12. FirstListFails => Quiet
    BY DEF FirstListFails
  <1>13. (EnableCluster => Quiet) /\ (Stop => Quiet) /\ (Begin => Quiet)
    BY DEF EnableCluster, Stop, Begin
  <1>14. (Collect => Quiet) /\ (CollectRace => Quiet) /\ (Prepare => Quiet)
    BY <1>8 DEF Collect, CollectRace, Prepare
  <1>15. ASSUME NEW s \in Storages PROVE (CheckStorage(s) => Quiet) /\ (CheckFails(s) => Quiet)
    BY DEF CheckStorage, CheckFails
  <1>16. ASSUME NEW s \in Storages, NEW h \in Hashes PROVE Verified(s, h) => Quiet
    BY DEF Verified
  <1>17. ASSUME NEW h \in Hashes PROVE (Launch(h) => Quiet) /\ (Receive(h) => Quiet)
    BY <1>8 DEF Launch, Receive
  <1>18. ASSUME NEW h \in Hashes PROVE (FetchOk(h) => Quiet) /\ (FetchFails(h) => Quiet)
    BY DEF FetchOk, FetchFails
  <1>19. ASSUME NEW h \in Hashes PROVE (FetchStops(h) => Quiet) /\ (FetchFrees(h) => Quiet)
    BY DEF FetchStops, FetchFrees
  <1>20. ASSUME NEW h \in Hashes PROVE (CopyGets(h) => Quiet) /\ (CopyStops(h) => Quiet)
    BY DEF CopyGets, CopyStops
  <1>21. ASSUME NEW h \in Hashes PROVE (CopyBegins(h) => Quiet) /\ (CopyLosesFile(h) => Quiet)
    BY DEF CopyBegins, CopyLosesFile
  <1>22. ASSUME NEW h \in Hashes PROVE CopyDone(h) => Quiet
    BY DEF CopyDone
  <1>23. ASSUME NEW h \in Hashes, NEW s \in Storages
         PROVE  (CopyTo(h, s) => Quiet) /\ (CopyRefused(h, s) => Quiet) /\ (CopySkips(h, s) => Quiet)
    BY DEF CopyTo, CopyRefused, CopySkips
  <1>24. UNCHANGED vars => Quiet
    BY DEF vars
  <1> HIDE DEF Quiet, Change
  <1>25. Tick \/ Index \/ GcRemoves \/ GcEnds => Change
    BY <1>1, <1>2, <1>3
  <1>26. (\E s \in Storages, h \in Hashes : GcFinds(s, h)) => Change
    BY <1>3
  <1>27. Synchronizer => Quiet \/ Change
    BY <1>6, <1>7, <1>9, <1>10, <1>11, <1>12, <1>13, <1>14, <1>15, <1>17, <1>25 DEF Synchronizer
  <1>28. ASSUME NEW h \in Hashes PROVE Fetch(h) \/ Goroutine(h) => Quiet
    BY <1>18, <1>19, <1>20, <1>21, <1>22, <1>23 DEF Fetch, Goroutine
  <1>29. Quiet \/ Change
    BY <1>13, <1>16, <1>24, <1>25, <1>26, <1>27, <1>28 DEF Next
  <1>30. QED
    BY <1>29 DEF Quiet, Change

\* Lemma: without collection, or before the first interval, no Gc runs.
LEMMA GcStep ==
  ASSUME IInv, [Next]_vars
  PROVE  GcInv'
PROOF
  <1>a. GcInv /\ ExistInv
    BY DEF IInv
  <1>1. CASE mode' = mode /\ gc' = gc
    BY <1>a, <1>1 DEF GcInv, Clean
  <1>2. CASE gc' = gc /\ mode' = "interval"
    BY <1>a, <1>2 DEF GcInv, Clean
  <1>3. CASE Index /\ mode' = mode
    <2>1. mode # "exist" /\ (NoGC => gc' = gc)
      BY <1>a, <1>3 DEF Index, ExistInv
    <2>2. QED
      BY <1>a, <1>3, <2>1 DEF GcInv, Clean
  <1>4. CASE gc # NoGc /\ mode' = mode
    BY <1>a, <1>4 DEF GcInv, Clean
  <1>q. QED
    BY <1>1, <1>2, <1>3, <1>4, ModeAndGc

\* Lemma: what is stored, or excused, stays so while its content is left alone.
LEMMA OkStays ==
  ASSUME NEW s \in Storages, NEW h \in Hashes, Ok(s, h), heavy' = heavy,
         excused \subseteq excused', <<s, h>> \in verifying => <<s, h>> \in verifying',
         content'[s][h] = content[s][h]
  PROVE  Ok(s, h)'
PROOF
  BY DEF Ok

\* Lemma: a step that leaves a file and its place alone keeps what is known of it.
LEMMA KnownStays ==
  ASSUME NEW s \in Storages, NEW h \in Hashes, Known(s, h),
         UNCHANGED <<files, heavy, verifying>>, excused \subseteq excused',
         pc' \in Working \union {"check"} => pc \in Working \union {"check"},
         pc' \in Working \union {"check"} => checked'[s] = checked[s],
         missing'[h] = missing[h], targets'[h] = targets[h],
         copy'[h] \in {"copy", "send"} => copy'[h] = copy[h],
         content'[s][h] = content[s][h]
  PROVE  Known(s, h)'
PROOF
  <1>1. Ok(s, h) => Ok(s, h)'
    BY OkStays
  <1>2. VerifyingIsThere(s, h)'
    BY DEF Known, VerifyingIsThere
  <1>3. ASSUME h \in files', pc' \in Working \union {"check"} PROVE StoredOn(s, h)'
    BY <1>1, <1>3 DEF Known, StoredOn
  <1>4. QED
    BY <1>2, <1>3 DEF Known

\* Lemma: every file of the round is stored, excused or known to be missing.
LEMMA StoreStep ==
  ASSUME IInv, [Next]_vars
  PROVE  StoreInv'
PROOF
  <1> USE DEF control, checks, results, contexts, fetches, copies, history, FetchVars, CopyVars,
              GcVars
  <1>a. TypeOK /\ FreshInv /\ PathInv /\ GcInv /\ StoreInv
    BY DEF IInv
  <1>b. mode' # mode => Tick
    BY ModeAndGc
  <1>c. SUFFICES ASSUME Clean' PROVE \A s \in Storages, h \in Hashes : Known(s, h)'
    BY DEF StoreInv
  <1>d. Clean
    BY <1>b, <1>c DEF Clean, Tick
  <1>e. gc = NoGc /\ \A s \in Storages, h \in Hashes : Known(s, h)
    BY <1>a, <1>d DEF GcInv, StoreInv
  <1> DEFINE Goal == \A s \in Storages, h \in Hashes : Known(s, h)'
  <1>1. ASSUME FirstList \/ Tick PROVE Goal
    <2>1. PICK fs \in SUBSET Hashes : NewList(fs) /\ (fs \subseteq Hashes \ listed \/ listed = {})
      BY <1>1, <1>a DEF FirstList, Tick, FreshInv
    <2>2. UNCHANGED copy
      BY <1>1 DEF FirstList, Tick
    <2>3. /\ verifying' = {} /\ files' = fs /\ \A s \in Storages : checked'[s] = "no"
          /\ \A h \in files' : copy'[h] = "none"
      BY <1>a, <2>1, <2>2 DEF NewList, FreshInv, Fresh
    <2>4. QED
      BY <2>3 DEF Known, VerifyingIsThere, StoredOn
  <1>2. ASSUME Begin PROVE Goal
    <2>1. /\ UNCHANGED <<files, verifying, content, excused, copy, checked>>
          /\ \A s \in Storages : checked[s] = "no"
          /\ \A h \in files : copy[h] = "none"
      BY <1>a, <1>2 DEF Begin, FreshInv, Fresh, Waiting, TypeOK
    <2>2. QED
      BY <1>e, <2>1 DEF Known, VerifyingIsThere, StoredOn
  <1>3. ASSUME UNCHANGED <<files, heavy, verifying, checked, missing, targets, copy, content>>,
               excused \subseteq excused',
               pc' \in Working \union {"check"} => pc \in Working \union {"check"}
        PROVE  Goal
    BY <1>e, <1>3, KnownStays
  <1>4. ASSUME Leave, pc' \in {"idle", "over"} PROVE Goal
    <2>1. /\ UNCHANGED <<files, heavy, verifying, missing, targets, copy, content, excused>>
          /\ pc' \notin Working \union {"check"}
      BY <1>4 DEF Leave, Working
    <2>2. QED
      BY <1>e, <2>1, KnownStays
  <1>5. ASSUME Index \/ IndexExisting \/ Interrupted \/ \E h \in Hashes : AllBroken(h) PROVE Goal
    BY <1>4, <1>5 DEF Index, IndexExisting, Interrupted, AllBroken, Fail
  <1>6. ASSUME \/ FirstListFails \/ EnableCluster \/ Stop \/ Collect \/ CollectRace \/ Prepare
               \/ UNCHANGED vars
        PROVE  Goal
    <2>1. /\ UNCHANGED <<files, heavy, verifying, checked, missing, targets, copy, content, excused>>
          /\ pc' \in Working \union {"check"} => pc \in Working \union {"check"}
      BY <1>6 DEF FirstListFails, EnableCluster, Stop, Collect, CollectRace, Prepare, Goto, Working,
                  vars
    <2>2. QED
      BY <1>3, <2>1
  <1>7. ASSUME CheckDone PROVE Goal
    <2>1. CASE \E s \in Storages : checked[s] = "ok"
      <3>1. /\ UNCHANGED <<files, heavy, verifying, checked, missing, targets, copy, content, excused>>
            /\ pc = "check"
        BY <1>7, <2>1 DEF CheckDone, Goto
      <3>2. QED
        BY <1>3, <3>1
    <2>2. QED
      BY <1>4, <1>7, <2>1 DEF CheckDone, Fail
  <1>8. ASSUME NEW t \in Storages, CheckStorage(t) PROVE Goal
    <2>1. /\ UNCHANGED <<files, heavy, copy, content, excused, pc>> /\ pc = "check"
          /\ checked' = [checked EXCEPT ![t] = "ok"]
          /\ verifying \subseteq verifying'
          /\ \A h \in Hashes : missing[h] \subseteq missing'[h]
          /\ \A h \in files : content[t][h] = "none" => t \in missing'[h]
          /\ \A h \in files : content[t][h] # "none" /\ heavy => <<t, h>> \in verifying'
          /\ \A s \in Storages, h \in Hashes : <<s, h>> \in verifying' =>
               <<s, h>> \in verifying \/ (s = t /\ h \in files /\ content[s][h] # "none")
      <3>1. DEFINE absent == {h \in files : content[t][h] = "none"}
      <3>2. /\ missing' = [h \in Hashes |-> IF h \in absent THEN missing[h] \union {t} ELSE missing[h]]
            /\ verifying' = verifying \union (IF heavy THEN {t} \X (files \ absent) ELSE {})
            /\ UNCHANGED <<files, heavy, copy, content, excused, pc>> /\ pc = "check"
            /\ checked' = [checked EXCEPT ![t] = "ok"]
        BY <1>8 DEF CheckStorage, Set
      <3>3. files \subseteq Hashes
        BY <1>a DEF TypeOK
      <3>4. QED
        BY <3>2, <3>3
    <2>2. \A h \in files : copy[h] = "none"
      BY <1>a, <2>1 DEF FreshInv, Waiting, Fresh, TypeOK
    <2>3. ASSUME NEW s \in Storages, NEW h \in Hashes PROVE Known(s, h)'
      <3>1. VerifyingIsThere(s, h)'
        BY <1>e, <2>1 DEF Known, VerifyingIsThere
      <3>2. ASSUME h \in files PROVE StoredOn(s, h)'
        <4>1. CASE s = t
          <5>1. content[t][h] \in {"none", "corrupt", "whole"}
            BY <1>a DEF TypeOK
          <5>2. t \in missing'[h] \/ Ok(t, h)'
            BY <2>1, <3>2, <5>1 DEF Ok
          <5>3. QED
            BY <2>1, <2>2, <3>2, <4>1, <5>2 DEF StoredOn
        <4>2. CASE s # t
          <5>1. checked'[s] = checked[s]
            BY <1>a, <2>1, <4>2 DEF TypeOK
          <5>2. Ok(s, h) => Ok(s, h)'
            BY <2>1, OkStays
          <5>3. StoredOn(s, h)
            BY <1>e, <2>1, <3>2 DEF Known
          <5>4. QED
            BY <2>1, <2>2, <3>2, <5>1, <5>2, <5>3 DEF StoredOn
        <4>3. QED
          BY <4>1, <4>2
      <3>3. QED
        BY <2>1, <3>1, <3>2 DEF Known
    <2>4. QED
      BY <2>3
  <1>9. ASSUME NEW t \in Storages, CheckFails(t) PROVE Goal
    <2>1. /\ UNCHANGED <<files, heavy, verifying, copy, content, missing, targets, pc>> /\ pc = "check"
          /\ checked' = [checked EXCEPT ![t] = "failed"]
          /\ excused' = excused \union ({t} \X files)
      BY <1>9 DEF CheckFails, Set
    <2>2. \A h \in files : copy[h] = "none"
      BY <1>a, <2>1 DEF FreshInv, Waiting, Fresh, TypeOK
    <2>3. ASSUME NEW s \in Storages, NEW h \in Hashes PROVE Known(s, h)'
      <3>1. CASE s = t
        <4>1. h \in files => Ok(s, h)'
          BY <2>1, <3>1 DEF Ok
        <4>2. QED
          BY <1>e, <2>1, <4>1 DEF Known, VerifyingIsThere, StoredOn
      <3>2. CASE s # t
        <4>1. checked'[s] = checked[s]
          BY <1>a, <2>1, <3>2 DEF TypeOK
        <4>2. QED
          BY <1>e, <2>1, <4>1, KnownStays
      <3>3. QED
        BY <3>1, <3>2
    <2>4. QED
      BY <2>3
  <1>10. ASSUME NEW t \in Storages, NEW g \in Hashes, Verified(t, g) PROVE Goal
    <2>1. PICK told \in BOOLEAN :
            LET inTime == pc \in {"check", "collect"}
                shared == missing[g] # {} /\ copy[g] \in {"none", "await", "alloc"}
                bad    == content[t][g] = "corrupt"
            IN  /\ IF inTime THEN told = bad ELSE told => bad /\ shared
                /\ missing' = IF told THEN [missing EXCEPT ![g] = @ \union {t}] ELSE missing
                /\ excused' = IF bad /\ ~told THEN excused \union {<<t, g>>} ELSE excused
      BY <1>10 DEF Verified
    <2>2. /\ UNCHANGED <<files, heavy, checked, copy, targets, content, pc>>
          /\ <<t, g>> \in verifying /\ verifying' = verifying \ {<<t, g>>}
          /\ excused \subseteq excused'
      BY <1>10, <2>1 DEF Verified
    <2>3. ASSUME NEW s \in Storages, NEW h \in Hashes, <<s, h>> # <<t, g>> PROVE Known(s, h)'
      <3>1. Ok(s, h) => Ok(s, h)'
        BY <2>2, <2>3, OkStays
      <3>2. s \in missing[h] => s \in missing'[h]
        BY <1>a, <2>1 DEF TypeOK
      <3>3. Known(s, h)
        BY <1>e
      <3>4. QED
        BY <2>2, <3>1, <3>2, <3>3 DEF Known, VerifyingIsThere, StoredOn
    <2>4. Known(t, g)'
      <3>1. Known(t, g) /\ content[t][g] \in {"none", "corrupt", "whole"}
        BY <1>a, <1>e DEF TypeOK
      <3>2. g \in files /\ (content[t][g] # "none" \/ <<t, g>> \in excused)
        BY <2>2, <3>1 DEF Known, VerifyingIsThere
      <3>3. VerifyingIsThere(t, g)'
        BY <2>2 DEF VerifyingIsThere
      <3>4. CASE ~told
        <4>1. Ok(t, g)'
          BY <2>1, <2>2, <3>1, <3>2, <3>4 DEF Ok
        <4>2. QED
          BY <2>2, <3>3, <4>1 DEF Known, StoredOn
      <3>5. CASE told
        <4>1. t \in missing'[g]
          BY <1>a, <2>1, <3>5 DEF TypeOK
        <4>2. pc \in Working \union {"check"} => copy[g] \notin {"copy", "send"}
          BY <1>a, <2>1, <3>2, <3>5 DEF FreshInv, Waiting, Fresh, TypeOK
        <4>3. QED
          BY <2>2, <3>3, <4>1, <4>2 DEF Known, StoredOn
      <3>6. QED
        BY <3>4, <3>5
    <2>5. QED
      BY <2>3, <2>4
  <1>11. ASSUME NEW g \in Hashes, Launch(g) PROVE Goal
    <2>1. /\ UNCHANGED <<files, heavy, verifying, checked, missing, targets, content, excused>>
          /\ pc = "launch" /\ copy' = [copy EXCEPT ![g] = "await"]
      BY <1>11 DEF Launch, Goto, Set
    <2>2. pc \in Working /\ \A h \in Hashes : copy'[h] \in {"copy", "send"} => copy'[h] = copy[h]
      BY <1>a, <2>1 DEF Working, TypeOK
    <2>3. QED
      BY <1>e, <2>1, <2>2, KnownStays
  <1>12. ASSUME NEW h \in Hashes, FetchOk(h) \/ FetchFails(h) \/ FetchStops(h) \/ FetchFrees(h)
         PROVE  Goal
    <2>1. /\ UNCHANGED <<files, heavy, verifying, checked, missing, targets, copy, content, pc>>
          /\ excused \subseteq excused'
      BY <1>12 DEF FetchOk, FetchFails, FetchStops, FetchFrees
    <2>2. QED
      BY <1>3, <2>1
  <1>13. ASSUME NEW g \in Hashes, CopyStops(g) \/ CopyLosesFile(g) \/ Receive(g) PROVE Goal
    <2>1. /\ UNCHANGED <<files, heavy, verifying, checked, missing, targets, content, excused>>
          /\ pc' \in Working => pc \in Working
          /\ pc' = "check" => pc = "check"
          /\ copy' \in {[copy EXCEPT ![g] = "gone"], [copy EXCEPT ![g] = "lost"]}
      BY <1>13 DEF CopyStops, CopyLosesFile, Receive, Goto, Set, Working
    <2>2. \A h \in Hashes : copy'[h] \in {"copy", "send"} => copy'[h] = copy[h]
      BY <1>a, <2>1 DEF TypeOK
    <2>3. QED
      BY <1>e, <2>1, <2>2, KnownStays
  <1>14. ASSUME NEW g \in Hashes, NEW to, copy' = [copy EXCEPT ![g] = to],
                UNCHANGED <<files, heavy, verifying, checked, missing, content, excused, pc>>,
                \A h \in Hashes \ {g} : targets'[h] = targets[h],
                ASSUME g \in files, pc \in Working \union {"check"}
                PROVE  \A s \in Storages : /\ to = "copy" => s \in targets'[g] \/ Ok(s, g)
                                           /\ to = "send" => Ok(s, g)
         PROVE  Goal
    <2>1. ASSUME NEW s \in Storages, NEW h \in Hashes \ {g} PROVE Known(s, h)'
      <3>1. copy'[h] = copy[h] /\ Known(s, h)
        BY <1>a, <1>e, <1>14 DEF TypeOK
      <3>2. QED
        BY <1>14, <3>1, KnownStays
    <2>2. ASSUME NEW s \in Storages PROVE Known(s, g)'
      <3>1. copy'[g] = to /\ Known(s, g)
        BY <1>a, <1>e, <1>14 DEF TypeOK
      <3>2. Ok(s, g) => Ok(s, g)'
        BY <1>14, OkStays
      <3>3. QED
        BY <1>14, <3>1, <3>2 DEF Known, VerifyingIsThere, StoredOn
    <2>3. QED
      BY <2>1, <2>2
  <1>15. ASSUME NEW g \in Hashes, CopyGets(g) PROVE Goal
    <2>1. PICK to \in {"alloc", "send"} : /\ copy' = [copy EXCEPT ![g] = to]
                                          /\ to = "send" => path[g] # "file"
      BY <1>15 DEF CopyGets, Set
    <2>2. /\ UNCHANGED <<files, heavy, verifying, checked, missing, content, excused, pc, targets>>
          /\ path[g] # "none"
      BY <1>15 DEF CopyGets
    <2>3. to = "send" => \A s \in Storages : Ok(s, g)
      BY <1>a, <2>1, <2>2 DEF TypeOK, PathInv, PathOf, Ok
    <2>4. QED
      BY <1>14, <2>1, <2>2, <2>3
  <1>16. ASSUME NEW g \in Hashes, CopyBegins(g) PROVE Goal
    <2>1. /\ UNCHANGED <<files, heavy, verifying, checked, missing, content, excused, pc>>
          /\ copy' = [copy EXCEPT ![g] = "copy"] /\ copy[g] = "alloc"
          /\ targets' = [targets EXCEPT ![g] = missing[g]]
      BY <1>16 DEF CopyBegins, Set
    <2>2. targets'[g] = missing[g] /\ \A h \in Hashes \ {g} : targets'[h] = targets[h]
      BY <1>a, <2>1 DEF TypeOK
    <2>3. ASSUME g \in files, pc \in Working \union {"check"}
          PROVE  \A s \in Storages : s \in targets'[g] \/ Ok(s, g)
      <3>1. pc \in Working
        BY <1>a, <2>1, <2>3 DEF FreshInv, Waiting, Fresh
      <3>2. \A s \in Storages : checked[s] # "no" /\ Known(s, g)
        BY <1>a, <1>e, <3>1 DEF FreshInv
      <3>3. QED
        BY <2>2, <2>3, <3>2 DEF Known, StoredOn
    <2>4. QED
      BY <1>14, <2>1, <2>2, <2>3
  <1>17. ASSUME NEW g \in Hashes, CopyDone(g) PROVE Goal
    <2>1. /\ UNCHANGED <<files, heavy, verifying, checked, missing, content, excused, pc, targets>>
          /\ copy' = [copy EXCEPT ![g] = "send"] /\ copy[g] = "copy" /\ targets[g] = {}
      BY <1>17 DEF CopyDone, Set
    <2>2. ASSUME g \in files, pc \in Working \union {"check"}
          PROVE  \A s \in Storages : Ok(s, g)
      BY <1>e, <2>1, <2>2 DEF Known, StoredOn
    <2>3. QED
      BY <1>14, <2>1, <2>2
  <1>18. ASSUME NEW g \in Hashes, NEW t \in Storages,
                CopyTo(g, t) \/ CopyRefused(g, t) \/ CopySkips(g, t)
         PROVE  Goal
    <2>1. PICK kept \in {"whole", "none", "corrupt"} :
            /\ content' = [content EXCEPT ![t][g] = kept]
            /\ kept # "whole" => <<t, g>> \in excused'
      <3>1. CASE CopySkips(g, t)
        <4>1. content' = content /\ <<t, g>> \in excused'
          BY <3>1 DEF CopySkips
        <4>2. content = [content EXCEPT ![t][g] = content[t][g]]
              /\ content[t][g] \in {"whole", "none", "corrupt"}
          BY <1>a DEF TypeOK
        <4>3. QED
          BY <4>1, <4>2
      <3>2. CASE CopyTo(g, t) \/ CopyRefused(g, t)
        BY <3>2 DEF CopyTo, CopyRefused
      <3>3. QED
        BY <1>18, <3>1, <3>2
    <2>2. /\ UNCHANGED <<files, heavy, verifying, checked, missing, copy, pc>>
          /\ excused \subseteq excused' /\ targets' = [targets EXCEPT ![g] = targets[g] \ {t}]
      BY <1>18 DEF CopyTo, CopyRefused, CopySkips, Set
    <2>3. /\ content'[t][g] = kept
          /\ \A s \in Storages, h \in Hashes : s # t \/ h # g => content'[s][h] = content[s][h]
          /\ targets'[g] = targets[g] \ {t} /\ \A h \in Hashes \ {g} : targets'[h] = targets[h]
      BY <1>a, <2>1, <2>2 DEF TypeOK
    <2>4. Ok(t, g)'
      BY <2>1, <2>3 DEF Ok
    <2>5. Known(t, g)'
      <3>1. VerifyingIsThere(t, g)'
        BY <1>e, <2>1, <2>2, <2>3 DEF Known, VerifyingIsThere
      <3>2. QED
        BY <2>4, <3>1 DEF Known, StoredOn
    <2>6. ASSUME NEW s \in Storages, NEW h \in Hashes, s # t \/ h # g PROVE Known(s, h)'
      <3>1. Ok(s, h) => Ok(s, h)'
        BY <2>2, <2>3, <2>6, OkStays
      <3>2. s \in targets[h] => s \in targets'[h]
        BY <2>3, <2>6
      <3>3. Known(s, h) /\ content'[s][h] = content[s][h]
        BY <1>e, <2>3, <2>6
      <3>4. QED
        BY <2>2, <3>1, <3>2, <3>3 DEF Known, VerifyingIsThere, StoredOn
    <2>7. QED
      BY <2>5, <2>6
  <1>19. CASE GcRemoves \/ GcEnds \/ \E s \in Storages, h \in Hashes : GcFinds(s, h)
    BY <1>e, <1>19 DEF GcRemoves, GcEnds, GcFinds, NoGc
  <1>q. QED
    BY <1>1, <1>2, <1>5, <1>6, <1>7, <1>8, <1>9, <1>10, <1>11, <1>12, <1>13, <1>15, <1>16, <1>17,
       <1>18, <1>19
       DEF Next, Synchronizer, Fetch, Goroutine

\* Lemma: a file with nothing to come does not become due again.
LEMMA NotDueAgain ==
  ASSUME NEW h \in Hashes, files' = files, Pending(h)' => Pending(h),
         NoGC /\ ~Pending(h) => \A s \in Storages : Ok(s, h) => Ok(s, h)'
  PROVE  h \in Due' => h \in Due
PROOF
  BY DEF Due

\* Lemma: the number of files that are due is a number.
LEMMA DueFinite ==
  ASSUME TypeOK, TypeOK'
  PROVE  /\ Due \subseteq Hashes /\ IsFiniteSet(Due) /\ Cardinality(Due) \in Nat
         /\ Due' \subseteq Hashes /\ IsFiniteSet(Due') /\ Cardinality(Due') \in Nat
PROOF
  <1>1. Due \subseteq Hashes /\ Due' \subseteq Hashes
    BY DEF Due, TypeOK
  <1>2. \A S : S \subseteq Hashes => IsFiniteSet(S)
    BY HashesAssumption, FS_Subset
  <1>3. QED
    BY <1>1, <1>2, FS_CardinalityType

\* Lemma: the results to come still suffice when no file becomes due and no
\* result is received.
LEMMA DueStays ==
  ASSUME TypeOK, TypeOK', DueInv, pc' \in Copying => pc \in Copying,
         pc' = "index" => pc = "index", pc' \in Copying => UNCHANGED <<files, awaited>>,
         pc' \in Copying => Due' \subseteq Due,
         pc' \in Copying => \A h \in files : missing'[h] # {} /\ copy'[h] = "none" =>
                               h \in todo' \/ (missing[h] # {} /\ copy[h] = "none" /\ h \notin todo)
  PROVE  DueInv'
PROOF
  <1>1. SUFFICES ASSUME pc' \in Copying
                 PROVE  /\ \A h \in files' : missing'[h] # {} /\ copy'[h] = "none" => h \in todo'
                        /\ Cardinality(Due') <= awaited'
                        /\ pc' = "index" => awaited' = 0
    BY DEF DueInv
  <1>2. /\ \A h \in files : missing[h] # {} /\ copy[h] = "none" => h \in todo
        /\ Cardinality(Due) <= awaited
        /\ pc = "index" => awaited = 0
    BY <1>1 DEF DueInv
  <1>3. Cardinality(Due') <= Cardinality(Due)
    BY <1>1, DueFinite, FS_Subset
  <1>4. awaited \in Nat
    BY DEF TypeOK
  <1>5. QED
    BY <1>1, <1>2, <1>3, <1>4, DueFinite

\* Lemma: the results to come suffice for the files that are not stored.
LEMMA DueStep ==
  ASSUME IInv, TypeOK', [Next]_vars
  PROVE  DueInv'
PROOF
  <1> USE DEF control, checks, results, contexts, fetches, copies, history, FetchVars, CopyVars,
              GcVars
  <1>a. TypeOK /\ FreshInv /\ GcInv /\ StoreInv /\ DueInv
    BY DEF IInv
  <1>b. files \subseteq Hashes /\ Due \subseteq files /\ (files' = files => Due' \subseteq files)
    BY <1>a DEF TypeOK, Due
  <1>c. NoGC => gc = NoGc /\ \A s \in Storages, h \in Hashes : Known(s, h)
    BY <1>a DEF GcInv, StoreInv, Clean
  <1>1. ASSUME pc' \notin Copying PROVE DueInv'
    BY <1>1 DEF DueInv
  <1>2. ASSUME pc' \in Copying => pc \in Copying, pc' = "index" => pc = "index",
               UNCHANGED <<files, awaited, heavy, content, verifying>>, excused \subseteq excused',
               \A h \in files : /\ Pending(h)' => Pending(h)
                                /\ missing'[h] = missing[h] /\ (copy'[h] = "none" => copy[h] = "none")
                                /\ h \in todo => h \in todo' \/ copy'[h] # "none"
        PROVE  DueInv'
    <2>1. \A s \in Storages, h \in Hashes : Ok(s, h) => Ok(s, h)'
      BY <1>2, OkStays
    <2>2. Due' \subseteq Due
      BY <1>b, <1>2, <2>1, NotDueAgain
    <2>3. QED
      BY <1>a, <1>2, <2>2, DueStays
  <1>3. ASSUME FirstList \/ FirstListFails \/ Tick \/ Begin \/ CollectRace PROVE DueInv'
    BY <1>1, <1>3 DEF FirstList, FirstListFails, Tick, Begin, CollectRace, Goto, Copying
  <1>4. ASSUME Index \/ IndexExisting \/ Interrupted \/ \E h \in Hashes : AllBroken(h) PROVE DueInv'
    BY <1>1, <1>4 DEF Index, IndexExisting, Interrupted, AllBroken, Fail, Copying
  <1>5. ASSUME CheckDone PROVE DueInv'
    BY <1>1, <1>5 DEF CheckDone, Fail, Goto, Copying
  <1>6. ASSUME NEW s \in Storages, CheckStorage(s) \/ CheckFails(s) PROVE DueInv'
    <2>1. pc' = "check"
      BY <1>6 DEF CheckStorage, CheckFails
    <2>2. QED
      BY <1>1, <2>1 DEF Copying
  <1>7. ASSUME EnableCluster \/ Stop \/ Prepare \/ GcEnds \/ UNCHANGED vars PROVE DueInv'
    <2>1. /\ UNCHANGED <<files, todo, awaited, heavy, missing, content, verifying, copy, excused>>
          /\ pc' \in Copying => pc \in Copying
          /\ pc' = "index" => pc = "index"
      BY <1>7 DEF EnableCluster, Stop, Prepare, GcEnds, Goto, Copying, vars
    <2>2. QED
      BY <1>2, <2>1 DEF Pending
  <1>8. ASSUME Collect PROVE DueInv'
    <2>1. /\ UNCHANGED <<files, heavy, missing, content, verifying, copy, excused>>
          /\ pc = "collect" /\ todo' = {h \in files : missing[h] # {}}
          /\ awaited' = Cardinality(todo')
          /\ pc' = (IF todo' = {} THEN "index" ELSE "prepare")
      BY <1>8 DEF Collect, Goto
    <2>2. \A h \in files : copy[h] = "none"
      BY <1>a, <1>b, <2>1 DEF FreshInv, Waiting, Fresh
    <2>3. ASSUME NoGC, NEW h \in files, h \notin todo', NEW s \in Storages PROVE Ok(s, h)'
      <3>1. Known(s, h) /\ checked[s] # "no" /\ s \notin missing[h]
        BY <1>a, <1>b, <1>c, <2>1, <2>3 DEF FreshInv, Working
      <3>2. Ok(s, h)
        BY <2>1, <3>1 DEF Known, StoredOn, Working
      <3>3. QED
        BY <2>1, <3>2 DEF Ok
    <2>4. Due' \subseteq todo'
      BY <2>1, <2>2, <2>3 DEF Due, Pending
    <2>5. IsFiniteSet(todo') /\ todo' \subseteq Hashes
      BY <1>b, <2>1, HashesAssumption, FS_Subset
    <2>6. Cardinality(Due') <= awaited' /\ (todo' = {} => awaited' = 0)
      BY <2>1, <2>4, <2>5, FS_Subset, FS_EmptySet
    <2>7. QED
      BY <2>1, <2>6 DEF DueInv
  <1>9. ASSUME NEW t \in Storages, NEW g \in Hashes, Verified(t, g) PROVE DueInv'
    <2>1. PICK told \in BOOLEAN :
            LET inTime == pc \in {"check", "collect"}
                shared == missing[g] # {} /\ copy[g] \in {"none", "await", "alloc"}
                bad    == content[t][g] = "corrupt"
            IN  /\ IF inTime THEN told = bad ELSE told => bad /\ shared
                /\ missing' = IF told THEN [missing EXCEPT ![g] = @ \union {t}] ELSE missing
                /\ excused' = IF bad /\ ~told THEN excused \union {<<t, g>>} ELSE excused
      BY <1>9 DEF Verified
    <2>2. /\ UNCHANGED <<files, todo, awaited, heavy, copy, content, pc>>
          /\ <<t, g>> \in verifying /\ verifying' = verifying \ {<<t, g>>}
          /\ excused \subseteq excused'
      BY <1>9, <2>1 DEF Verified
    <2>3. CASE pc \notin Copying
      BY <1>1, <2>2, <2>3
    <2>4. CASE pc \in Copying
      <3>1. told => missing[g] # {} /\ copy[g] \in {"none", "await", "alloc"}
        BY <2>1, <2>4 DEF Copying
      <3>2. \A h \in files : missing'[h] # {} => missing[h] # {}
        BY <1>a, <1>b, <2>1, <3>1 DEF TypeOK
      <3>3. ASSUME NEW h \in files, NoGC, ~Pending(h), NEW s \in Storages, Ok(s, h) PROVE Ok(s, h)'
        <4>1. CASE <<s, h>> # <<t, g>>
          BY <1>b, <2>2, <3>3, <4>1, OkStays
        <4>2. CASE <<s, h>> = <<t, g>>
          <5>1. ~told
            BY <1>a, <2>4, <3>1, <3>3, <4>2 DEF DueInv, Pending
          <5>2. content[t][g] \in {"none", "corrupt", "whole"} /\ VerifyingIsThere(t, g)
            BY <1>a, <1>c, <3>3 DEF TypeOK, Known
          <5>3. QED
            BY <2>1, <2>2, <4>2, <5>1, <5>2 DEF Ok, VerifyingIsThere
        <4>3. QED
          BY <4>1, <4>2
      <3>4. \A h \in files : Pending(h)' <=> Pending(h)
        BY <2>2 DEF Pending
      <3>5. Due' \subseteq Due
        BY <1>b, <2>2, <3>3, <3>4, NotDueAgain
      <3>6. QED
        BY <1>a, <2>2, <3>2, <3>5, DueStays
    <2>5. QED
      BY <2>3, <2>4
  <1>10. ASSUME NEW g \in Hashes, Launch(g) PROVE DueInv'
    <2>1. /\ UNCHANGED <<files, awaited, heavy, missing, content, verifying, excused>>
          /\ pc = "launch" /\ pc' \in {"launch", "results"}
          /\ g \in todo /\ todo' = todo \ {g} /\ copy' = [copy EXCEPT ![g] = "await"]
      BY <1>10 DEF Launch, Goto, Set
    <2>2. copy'[g] = "await" /\ \A h \in Hashes \ {g} : copy'[h] = copy[h]
      BY <1>a, <2>1 DEF TypeOK
    <2>3. QED
      BY <1>b, <1>2, <2>1, <2>2 DEF Pending, Copying
  <1>11. ASSUME NEW h \in Hashes, FetchOk(h) \/ FetchFails(h) \/ FetchStops(h) \/ FetchFrees(h)
         PROVE  DueInv'
    <2>1. /\ UNCHANGED <<files, todo, awaited, heavy, missing, content, verifying, copy, pc>>
          /\ excused \subseteq excused'
      BY <1>11 DEF FetchOk, FetchFails, FetchStops, FetchFrees
    <2>2. QED
      BY <1>2, <2>1 DEF Pending
  <1>12. ASSUME NEW g \in Hashes, \/ CopyGets(g) \/ CopyStops(g) \/ CopyBegins(g) \/ CopyLosesFile(g)
                                  \/ CopyDone(g)
         PROVE  DueInv'
    <2>1. /\ UNCHANGED <<files, todo, awaited, heavy, missing, content, verifying, excused, pc>>
          /\ copy[g] \in {"await", "alloc", "copy", "send"}
          /\ \E to \in {"alloc", "copy", "send", "gone", "lost"} : copy' = [copy EXCEPT ![g] = to]
      BY <1>12 DEF CopyGets, CopyStops, CopyBegins, CopyLosesFile, CopyDone, Set
    <2>2. \A h \in Hashes : copy'[h] = copy[h] \/ (h = g /\ copy'[h] # "none")
      BY <1>a, <2>1 DEF TypeOK
    <2>3. QED
      BY <1>b, <1>2, <2>1, <2>2 DEF Pending
  <1>13. ASSUME NEW g \in Hashes, NEW t \in Storages,
                CopyTo(g, t) \/ CopyRefused(g, t) \/ CopySkips(g, t)
         PROVE  DueInv'
    <2>1. PICK kept \in {"whole", "none", "corrupt"} :
            /\ content' = [content EXCEPT ![t][g] = kept]
            /\ kept # "whole" => <<t, g>> \in excused'
      <3>1. CASE CopySkips(g, t)
        <4>1. content' = content /\ <<t, g>> \in excused'
          BY <3>1 DEF CopySkips
        <4>2. content = [content EXCEPT ![t][g] = content[t][g]]
              /\ content[t][g] \in {"whole", "none", "corrupt"}
          BY <1>a DEF TypeOK
        <4>3. QED
          BY <4>1, <4>2
      <3>2. CASE CopyTo(g, t) \/ CopyRefused(g, t)
        BY <3>2 DEF CopyTo, CopyRefused
      <3>3. QED
        BY <1>13, <3>1, <3>2
    <2>2. /\ UNCHANGED <<files, todo, awaited, heavy, missing, verifying, copy, pc>>
          /\ excused \subseteq excused'
      BY <1>13 DEF CopyTo, CopyRefused, CopySkips
    <2>3. /\ content'[t][g] = kept
          /\ \A s \in Storages, h \in Hashes : s # t \/ h # g => content'[s][h] = content[s][h]
      BY <1>a, <2>1 DEF TypeOK
    <2>4. ASSUME NEW s \in Storages, NEW h \in Hashes, Ok(s, h) PROVE Ok(s, h)'
      <3>1. CASE s = t /\ h = g
        BY <2>1, <2>3, <3>1 DEF Ok
      <3>2. CASE s # t \/ h # g
        BY <2>2, <2>3, <2>4, <3>2, OkStays
      <3>3. QED
        BY <3>1, <3>2
    <2>5. \A h \in files : Pending(h)' <=> Pending(h)
      BY <2>2 DEF Pending
    <2>6. Due' \subseteq Due
      BY <1>b, <2>2, <2>4, <2>5, NotDueAgain
    <2>7. QED
      BY <1>a, <2>2, <2>6, DueStays
  <1>14. ASSUME NEW g \in Hashes, Receive(g) PROVE DueInv'
    <2>1. /\ UNCHANGED <<files, todo, heavy, missing, content, verifying, excused>>
          /\ pc = "results" /\ g \in files /\ copy[g] = "send" /\ copy' = [copy EXCEPT ![g] = "gone"]
          /\ awaited' = awaited - 1
          /\ pc' = (IF awaited' = 0 THEN "index" ELSE "results")
      BY <1>14 DEF Receive, AllReceived, Goto, Set
    <2>2. copy'[g] = "gone" /\ \A h \in Hashes \ {g} : copy'[h] = copy[h]
      BY <1>a, <2>1 DEF TypeOK
    <2>3. \A s \in Storages, h \in Hashes : Ok(s, h) => Ok(s, h)'
      BY <2>1, OkStays
    <2>4. Due' \subseteq Due
      BY <1>b, <2>1, <2>2, <2>3, NotDueAgain DEF Pending
    <2>5. g \in Due /\ g \notin Due'
      <3>1. todo = {}
        BY <1>a, <2>1 DEF FreshInv
      <3>2. NoGC => \A s \in Storages : Ok(s, g)
        BY <1>c, <2>1 DEF Known, StoredOn, Working
      <3>3. QED
        BY <2>1, <2>2, <2>3, <3>1, <3>2 DEF Due, Pending
    <2>6. Cardinality(Due') <= Cardinality(Due) - 1
      <3>1. Due' \subseteq Due \ {g}
        BY <2>4, <2>5
      <3>2. IsFiniteSet(Due \ {g}) /\ Cardinality(Due \ {g}) = Cardinality(Due) - 1
        BY <1>a, <2>5, DueFinite, FS_RemoveElement
      <3>3. Cardinality(Due') <= Cardinality(Due \ {g})
        BY <3>1, <3>2, FS_Subset
      <3>4. QED
        BY <3>2, <3>3
    <2>7. /\ \A h \in files : missing[h] # {} /\ copy[h] = "none" => h \in todo
          /\ Cardinality(Due) <= awaited /\ awaited \in Nat
      BY <1>a, <2>1 DEF DueInv, Copying, TypeOK
    <2>8. Cardinality(Due') <= awaited'
      BY <1>a, <2>1, <2>6, <2>7, DueFinite
    <2>9. QED
      BY <2>1, <2>2, <2>7, <2>8 DEF DueInv
  <1>15. ASSUME NEW s \in Storages, NEW h \in Hashes, GcFinds(s, h) PROVE DueInv'
    <2>1. UNCHANGED <<pc, files, todo, awaited, heavy, missing, content, verifying, copy, excused>>
      BY <1>15 DEF GcFinds
    <2>2. QED
      BY <1>2, <2>1 DEF Pending
  <1>16. ASSUME GcRemoves PROVE DueInv'
    <2>1. ~NoGC
      BY <1>c, <1>16 DEF GcRemoves, NoGc
    <2>2. UNCHANGED <<pc, files, todo, awaited, missing, copy>>
      BY <1>16 DEF GcRemoves
    <2>3. Due' \subseteq Due
      BY <2>1, <2>2 DEF Due, Pending
    <2>4. QED
      BY <1>a, <2>2, <2>3, DueStays
  <1>q. QED
    BY <1>3, <1>4, <1>5, <1>6, <1>7, <1>8, <1>9, <1>10, <1>11, <1>12, <1>13, <1>14, <1>15, <1>16
       DEF Next, Synchronizer, Fetch, Goroutine

\* Lemma: without a first sync nothing is copied before the first interval, and
\* only files that are there are indexed.
LEMMA ExistStep ==
  ASSUME IInv, [Next]_vars
  PROVE  ExistInv'
PROOF
  <1> USE DEF control, checks, results, contexts, fetches, copies, history, FetchVars, CopyVars,
              GcVars
  <1>a. TypeOK /\ FreshInv /\ GcInv /\ StoreInv /\ ExistInv
    BY DEF IInv
  <1>1. CASE Tick
    BY <1>1 DEF Tick, ExistInv
  <1>2. SUFFICES ASSUME mode' = "exist", ~Tick PROVE ExistInv'
    BY <1>1 DEF ExistInv
  <1>3. mode = "exist"
    BY <1>2, ModeAndGc
  <1>4. /\ pc \in {"start", "check", "collect", "idle", "over"}
        /\ ~heavy /\ verifying = {}
        /\ \A h \in Hashes : copy[h] = "none"
        /\ pc \in {"start", "check", "collect"} => fileset = {}
        /\ \A s \in Storages, h \in Hashes : s \in missing[h] => content[s][h] = "none"
        /\ ExistingIsIndexed
        /\ gc = NoGc
        /\ \A s \in Storages, h \in Hashes : Known(s, h)
    BY <1>a, <1>3 DEF ExistInv, GcInv, StoreInv, Clean
  <1>5. ASSUME UNCHANGED <<heavy, verifying, copy, content, fileset>>, excused \subseteq excused',
               \A s \in Storages, h \in Hashes :
                 s \in missing'[h] => s \in missing[h] \/ content[s][h] = "none",
               \/ pc' = pc /\ (pc = "idle" => files' = files)
               \/ pc = "start" /\ (pc' \in {"check", "over"} \/ (pc' = "idle" /\ files' = {}))
               \/ pc = "check" /\ pc' \in {"collect", "over"}
        PROVE  ExistInv'
    <2>1. files \subseteq Hashes
      BY <1>a DEF TypeOK
    <2>2. ExistingIsIndexed'
      BY <1>3, <1>4, <1>5, <2>1 DEF ExistingIsIndexed
    <2>3. QED
      BY <1>4, <1>5, <2>2 DEF ExistInv
  <1>6. ASSUME FirstList \/ FirstListFails PROVE ExistInv'
    <2>1. FirstList => verifying' = {} /\ missing' = missing
      BY DEF FirstList, NewList
    <2>2. UNCHANGED <<heavy, verifying, missing, copy, content, fileset, excused>>
      BY <1>4, <1>6, <2>1 DEF FirstList, FirstListFails
    <2>3. pc = "start" /\ (pc' \in {"check", "over"} \/ (pc' = "idle" /\ files' = {}))
      BY <1>a, <1>3, <1>6 DEF FirstList, FirstListFails, FreshInv, TypeOK
    <2>4. QED
      BY <1>5, <2>2, <2>3
  <1>7. ASSUME EnableCluster \/ Stop \/ UNCHANGED vars PROVE ExistInv'
    <2>1. UNCHANGED <<heavy, verifying, missing, copy, content, fileset, files, excused, pc>>
      BY <1>7 DEF EnableCluster, Stop, vars
    <2>2. QED
      BY <1>5, <2>1
  <1>8. ASSUME Fail, pc = "check" PROVE ExistInv'
    <2>1. UNCHANGED <<heavy, verifying, missing, copy, content, fileset, excused>> /\ pc' = "over"
      BY <1>3, <1>8 DEF Fail, Leave
    <2>2. QED
      BY <1>5, <1>8, <2>1
  <1>9. ASSUME Interrupted \/ CheckDone PROVE ExistInv'
    <2>1. CASE Fail
      BY <1>4, <1>8, <1>9, <2>1 DEF Interrupted, CheckDone
    <2>2. CASE ~Fail
      <3>1. UNCHANGED <<heavy, verifying, missing, copy, content, fileset, excused>>
            /\ pc = "check" /\ pc' = "collect"
        BY <1>9, <2>2 DEF Interrupted, CheckDone, Goto
      <3>2. QED
        BY <1>5, <3>1
    <2>3. QED
      BY <2>1, <2>2
  <1>10. ASSUME NEW t \in Storages, CheckStorage(t) \/ CheckFails(t) PROVE ExistInv'
    <2>1. UNCHANGED <<heavy, copy, content, fileset, files, pc>> /\ excused \subseteq excused'
      BY <1>10 DEF CheckStorage, CheckFails
    <2>2. verifying' = verifying
      BY <1>4, <1>10 DEF CheckStorage, CheckFails
    <2>3. \A s \in Storages, h \in Hashes :
            s \in missing'[h] => s \in missing[h] \/ content[s][h] = "none"
      BY <1>10 DEF CheckStorage, CheckFails
    <2>4. QED
      BY <1>5, <2>1, <2>2, <2>3
  <1>11. ASSUME IndexExisting PROVE ExistInv'
    <2>1. /\ UNCHANGED <<heavy, verifying, missing, copy, content, files, excused>>
          /\ pc = "collect" /\ pc' = "idle"
          /\ fileset' = {h \in files : missing[h] # Storages}
      BY <1>11 DEF IndexExisting, Leave
    <2>2. ASSUME NEW h \in fileset'
          PROVE  \E s \in Storages : content[s][h] # "none" \/ <<s, h>> \in excused
      <3>1. h \in files /\ h \in Hashes /\ missing[h] \subseteq Storages /\ missing[h] # Storages
        BY <1>a, <2>1, <2>2 DEF TypeOK
      <3>2. PICK s \in Storages : s \notin missing[h]
        BY <3>1
      <3>3. Known(s, h) /\ checked[s] # "no"
        BY <1>a, <1>4, <2>1, <3>1 DEF FreshInv, Working
      <3>4. Ok(s, h)
        BY <2>1, <3>1, <3>2, <3>3 DEF Known, StoredOn, Working
      <3>5. QED
        BY <1>4, <3>4 DEF Ok
    <2>3. ASSUME NEW h \in files, NEW s \in Storages, content[s][h] # "none"
          PROVE  h \in fileset'
      <3>1. h \in Hashes
        BY <1>a DEF TypeOK
      <3>2. s \notin missing[h]
        BY <1>4, <2>3, <3>1
      <3>3. QED
        BY <2>1, <3>2
    <2>4. ExistingIsIndexed'
      BY <2>1, <2>2, <2>3 DEF ExistingIsIndexed
    <2>5. QED
      BY <1>4, <2>1, <2>4 DEF ExistInv
  <1>12. ASSUME NEW h \in Hashes, FetchOk(h) \/ FetchFails(h) \/ FetchStops(h) \/ FetchFrees(h)
         PROVE  ExistInv'
    <2>1. UNCHANGED <<heavy, verifying, missing, copy, content, fileset, files, pc>>
          /\ excused \subseteq excused'
      BY <1>12 DEF FetchOk, FetchFails, FetchStops, FetchFrees
    <2>2. QED
      BY <1>5, <2>1
  <1>13. /\ ~Begin /\ ~Index /\ ~Collect /\ ~CollectRace /\ ~Prepare /\ ~GcRemoves /\ ~GcEnds
         /\ \A h \in Hashes : ~Launch(h) /\ ~Receive(h) /\ ~AllBroken(h)
         /\ \A s \in Storages, h \in Hashes : ~Verified(s, h) /\ ~GcFinds(s, h)
    BY <1>3, <1>4 DEF Begin, Index, Collect, CollectRace, Prepare, GcRemoves, GcEnds, Launch, Receive,
       AllBroken, Verified, GcFinds, NoGc
  <1>14. \A h \in Hashes : /\ ~CopyGets(h) /\ ~CopyStops(h) /\ ~CopyBegins(h) /\ ~CopyLosesFile(h)
                           /\ ~CopyDone(h)
                           /\ \A s \in Storages :
                                ~CopyTo(h, s) /\ ~CopyRefused(h, s) /\ ~CopySkips(h, s)
    BY <1>4 DEF CopyGets, CopyStops, CopyBegins, CopyLosesFile, CopyDone, CopyTo, CopyRefused,
                CopySkips
  <1>q. QED
    BY <1>2, <1>6, <1>7, <1>9, <1>10, <1>11, <1>12, <1>13, <1>14
       DEF Next, Synchronizer, Fetch, Goroutine
-----------------------------------------------------------------------------
\* Lemma: the program starts in the invariant.
LEMMA InitInv == Init => IInv
PROOF
  <1> SUFFICES ASSUME Init PROVE IInv
    OBVIOUS
  <1>1. Cardinality(Hashes) \in Nat /\ 0 \in Rounds /\ Cardinality({}) = 0
    BY HashesAssumption, FS_CardinalityType, FS_EmptySet DEF Rounds
  <1>2. TypeOK
    <2>1. slots \in [Rounds -> 0..Slots] /\ tried \in [Hashes -> 1..MaxTries]
      BY SlotsAssumption, TriesAssumption DEF Init
    <2>2. synced \in BOOLEAN
      BY ConfigAssumption DEF Init
    <2>3. /\ checked \in [Storages -> {"no", "ok", "failed"}]
          /\ missing \in [Hashes -> SUBSET Storages] /\ roundOf \in [Hashes -> Rounds]
          /\ targets \in [Hashes -> SUBSET Storages] /\ failed \in [Hashes -> SUBSET Storages]
      BY <1>1 DEF Init
    <2>4. /\ fetch \in [Hashes -> {"none", "run", "end", "gone"}]
          /\ path \in [Hashes -> {"none", "file", "closed"}]
          /\ copy \in [Hashes -> {"none", "await", "alloc", "copy", "send", "gone", "lost"}]
          /\ content \in [Storages -> [Hashes -> {"none", "corrupt", "whole"}]]
      BY DEF Init
    <2>5. /\ pc \in Places /\ mode \in {"first", "exist", "interval"}
          /\ round \in Rounds /\ files \subseteq listed /\ listed \subseteq Hashes
          /\ heavy \in BOOLEAN /\ checkCount \in Int /\ simple \in Int
      <3>1. mode \in {"first", "exist"}
        BY DEF Init
      <3>2. pc = "start" /\ round = 0 /\ files = {} /\ listed = {} /\ heavy = FALSE
        BY DEF Init
      <3>3. checkCount = -1 /\ simple = -1
        BY DEF Init
      <3>4. checkCount \in Int /\ simple \in Int
        BY <3>3
      <3>5. pc \in Places /\ round \in Rounds
        BY <1>1, <3>2 DEF Places
      <3>6. files \subseteq listed /\ listed \subseteq Hashes /\ heavy \in BOOLEAN
        BY <3>2
      <3>7. QED
        BY <3>1, <3>4, <3>5, <3>6
    <2>6. /\ issync \in BOOLEAN /\ fileset \subseteq listed
          /\ verifying \subseteq Storages \X Hashes /\ excused \subseteq Storages \X Hashes
          /\ todo \subseteq files /\ awaited \in Nat /\ broken \subseteq Storages
          /\ over \subseteq Rounds /\ temps \subseteq Hashes /\ gc = NoGc
          /\ stopped \in BOOLEAN /\ enabled \in BOOLEAN
      BY DEF Init
    <2>7. QED
      BY <2>1, <2>2, <2>3, <2>4, <2>5, <2>6 DEF TypeOK
  <1>3. SlotsConserved
    <2>1. ASSUME NEW r \in Rounds
          PROVE  slots[r] + Cardinality(Fetching(r)) + Cardinality(CopyingIn(r)) = Slots
      <3>1. Fetching(r) = {} /\ CopyingIn(r) = {} /\ slots[r] = Slots
        BY DEF Init, Fetching, CopyingIn
      <3>2. QED
        BY <1>1, <3>1, SlotsAssumption
    <2>2. QED
      BY <2>1 DEF SlotsConserved, Fetching, CopyingIn
  <1>4. FreshInv
    BY <1>1 DEF Init, FreshInv, Fresh, Waiting, Working
  <1>5. PathInv /\ GcInv
    BY DEF Init, PathInv, PathOf, GcInv
  <1>6. StoreInv /\ DueInv
    BY DEF Init, StoreInv, Known, VerifyingIsThere, Working, DueInv, Copying
  <1>7. ExistInv
    BY DEF Init, ExistInv, ExistingIsIndexed
  <1>8. QED
    BY <1>2, <1>3, <1>4, <1>5, <1>6, <1>7 DEF IInv

\* Lemma: every step keeps the invariant.
LEMMA NextInv == IInv /\ [Next]_vars => IInv'
PROOF
  <1> SUFFICES ASSUME IInv, [Next]_vars PROVE IInv'
    OBVIOUS
  <1>1. SlotsConserved'
    BY SlotStep
  <1>2. TypeOK'
    BY <1>1, TypeStep
  <1>3. FreshInv' /\ PathInv' /\ GcInv' /\ StoreInv' /\ ExistInv'
    BY FreshStep, PathStep, GcStep, StoreStep, ExistStep
  <1>4. DueInv'
    BY <1>2, DueStep
  <1>5. QED
    BY <1>1, <1>2, <1>3, <1>4 DEF IInv

\* Lemma: the invariant always holds.
LEMMA Inductive == Spec => []IInv
PROOF
  BY InitInv, NextInv, PTL DEF Spec

\* The variables of the synchronizer have their types: no slot is given up that
\* was not taken, and no result is received that was not awaited.
THEOREM TypesKept == Spec => []TypeOK
PROOF
  <1>1. IInv => TypeOK
    BY DEF IInv
  <1>2. QED
    BY <1>1, Inductive, PTL

\* Every slot of a round is free or held by one goroutine.
THEOREM SlotsAreConserved == Spec => []SlotsConserved
PROOF
  <1>1. IInv => SlotsConserved
    BY DEF IInv
  <1>2. QED
    BY <1>1, Inductive, PTL

\* A temporary file is removed, unless the round was cancelled as it arrived.
THEOREM TempsAreRemoved == Spec => []TempsRemoved
PROOF
  <1>1. IInv => TempsRemoved
    BY DEF IInv, PathInv, PathOf, TempsRemoved
  <1>2. QED
    BY <1>1, Inductive, PTL

\* Without collection, when a sync succeeds every storage it could check and write
\* to has every file of the list.
THEOREM SuccessIsStored ==
  ASSUME NoGC
  PROVE  Spec => []SyncedIsStored
PROOF
  <1>1. IInv => SyncedIsStored
    <2>1. SUFFICES ASSUME IInv, pc = "index", NEW h \in files, NEW s \in Storages PROVE Ok(s, h)
      BY DEF SyncedIsStored, Ok
    <2>2. TypeOK /\ DueInv
      BY <2>1 DEF IInv
    <2>3. Cardinality(Due) <= 0
      BY <2>1, <2>2 DEF DueInv, Copying
    <2>4. Due \subseteq Hashes
      BY <2>2 DEF Due, TypeOK
    <2>5. IsFiniteSet(Due)
      BY <2>4, HashesAssumption, FS_Subset
    <2>6. Due = {}
      <3>1. Cardinality(Due) \in Nat /\ (Cardinality(Due) = 0 => Due = {})
        BY <2>5, FS_CardinalityType, FS_EmptySet
      <3>2. QED
        BY <2>3, <3>1
    <2>7. QED
      BY <2>6 DEF Due
  <1>2. QED
    BY <1>1, Inductive, PTL

\* Without a first sync, every file that some storage has is indexed, and no other, unless a
\* storage could not be asked: for any storages and files.
THEOREM IndexedExists == Spec => []ExistingIsIndexed
PROOF
  <1>1. IInv => ExistingIsIndexed
    BY DEF IInv, ExistInv, ExistingIsIndexed
  <1>2. QED
    BY <1>1, Inductive, PTL

=============================================================================
