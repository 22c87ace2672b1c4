--------------------------- MODULE DownloadProofs ---------------------------
(***************************************************************************)
(* Proofs about Download, for any numbers of requests, items, hashes,        *)
(* storages and buffers.                                                     *)
(*                                                                          *)
(* SingleFlight is not inductive by itself: two goroutines could start if    *)
(* the map cr.downloading could forget one of them.  FlightInv says that the *)
(* map lists exactly the items that are running or about to be forgotten.    *)
(* WaitersHaveLeader and IndexedBeforeServed need to know in addition what a *)
(* published item stands for (PublishInv) and whom a request waits for       *)
(* (RequestInv).  The types need BuffersConserved: no buffer is handed back   *)
(* while the pool is full.  IndexedIsStored needs what a goroutine has settled *)
(* in the storages it has passed (StoreInv).                                 *)
(***************************************************************************)
EXTENDS Download, TLAPS, FiniteSetTheorems

Listed == Running \union {"forget"}

\* The map and the items agree.
FlightInv ==
  /\ \A i \in Items : step[i] \in Listed => downloading[target[i]] = i
  /\ \A h \in Hashes : downloading[h] # NoItem =>
       step[downloading[h]] \in Listed /\ target[downloading[h]] = h

\* What an item that is published, or about to be, stands for.
PublishInv ==
  \A i \in Items :
    /\ step[i] \in Running => ~done[i]
    /\ step[i] \in {"forget", "gone"} => done[i]
    /\ step[i] = "finish" => target[i] \in fileset
    /\ step[i] \in {"forget", "gone"} /\ ~failed[i] => target[i] \in fileset

\* Whom a request waits for, and what it was told.
RequestInv ==
  \A r \in Requests :
    /\ pc[r] \in {"select", "wait"} =>
         /\ joined[r] \in Items
         /\ step[joined[r]] # "unused"
         /\ target[joined[r]] = hash[r]
    /\ pc[r] = "serve" => hash[r] \in fileset

\* The steps before a goroutine has been to the last storage.
Early == {"start", "alloc", "token", "fetch", "copy", "writing"}

\* A storage has the file, or what became of it there is known.
Settled(h, s) == content[s][h] \in {"whole", "collected"} \/ h \in refused[s]

\* The file is settled in the storages its goroutine has passed, and a recorded
\* file in every storage but the one that is writing it.
StoreInv ==
  /\ \A i \in Items, s \in Storages :
       \/ step[i] \in Early /\ s < store[i]
       \/ step[i] \in {"index", "finish"}
       => Settled(target[i], s)
  /\ \A h \in fileset, s \in Storages :
       \/ Settled(h, s)
       \/ \E i \in Items : step[i] = "writing" /\ target[i] = h /\ store[i] = s

IInv == TypeOK /\ BuffersConserved /\ FlightInv /\ PublishInv /\ RequestInv /\ StoreInv
-----------------------------------------------------------------------------
Held == {i \in Items : step[i] \in Buffered}

\* Lemma: the goroutines that hold a buffer are finitely many, and while one of
\* them does the pool is not full.
LEMMA HeldFacts ==
  ASSUME TypeOK, BuffersConserved
  PROVE  /\ IsFiniteSet(Held)
         /\ \A i \in Items : step[i] \in Buffered => free < MaxConn
PROOF
  <1>1. IsFiniteSet(Held)
    BY ItemsAssumption, FS_Subset DEF Held
  <1>2. ASSUME NEW i \in Items, step[i] \in Buffered PROVE free < MaxConn
    <2>1. Held # {} /\ Cardinality(Held) \in Nat
      BY <1>1, <1>2, FS_CardinalityType DEF Held
    <2>2. Cardinality(Held) # 0
      BY <1>1, <2>1, FS_EmptySet
    <2>3. free + Cardinality(Held) = MaxConn
      BY DEF BuffersConserved, Held
    <2>4. free \in Nat /\ MaxConn \in Nat
      BY MaxConnAssumption DEF TypeOK
    <2>5. QED
      BY <2>1, <2>2, <2>3, <2>4
  <1>3. QED
    BY <1>1, <1>2

\* Lemma: the invariant holds when the cluster is made.
LEMMA InitInv == Init => IInv
PROOF
  <1> SUFFICES ASSUME Init PROVE IInv
    OBVIOUS
  <1>1. TypeOK
    <2>1. gc = Resting
      BY DEF Init
    <2>2. target \in [Items -> Hashes] /\ store \in [Items -> Storages]
      <3>1. (CHOOSE h \in Hashes : TRUE) \in Hashes
        BY HashesAssumption
      <3>2. QED
        BY <3>1, StoresAssumption DEF Init, Storages
    <2>3. content \in [Storages -> [Hashes -> {"none", "collected", "part", "whole"}]]
      BY DEF Init
    <2>4. guard \in [Items -> [waitsFor : {"nothing", "look", "sawOn", "sawOff", "end", "begin"},
                               of : Nat]]
      BY DEF Init, Nothing
    <2>5. on \in BOOLEAN /\ generation \in Nat /\ ended \subseteq Nat
      <3>1. on = FALSE /\ generation = 0 /\ ended = {0}
        BY DEF Init, P!PresenceInit
      <3>2. on \in BOOLEAN
        BY <3>1, Zenon
      <3>3. generation \in Nat /\ ended \subseteq Nat
        BY <3>1, SMT
      <3>4. QED
        BY <3>2, <3>3
    <2>6. free \in 0..MaxConn
      BY MaxConnAssumption DEF Init
    <2>7. refused \in [Storages -> SUBSET Hashes]
      BY DEF Init
    <2>8. pc \in [Requests -> {"idle", "peek", "lock", "select", "wait", "serve", "left"}]
          /\ until \in [Requests -> Nat] /\ joined \in [Requests -> Items \union {NoItem}]
      BY DEF Init
    <2>9. hash \in [Requests -> Hashes]
      BY AskedAssumption DEF Init
    <2>10. QED
      BY <2>1, <2>2, <2>3, <2>4, <2>5, <2>6, <2>7, <2>8, <2>9 DEF Init, TypeOK
  <1>2. FlightInv /\ PublishInv /\ RequestInv
    BY DEF Init, FlightInv, PublishInv, RequestInv, Listed, Running
  <1>3. BuffersConserved
    <2>1. {i \in Items : step[i] \in Buffered} = {}
      BY DEF Init, Buffered
    <2>2. Cardinality({i \in Items : step[i] \in Buffered}) = 0
      BY <2>1, FS_EmptySet
    <2>3. QED
      BY <2>2, MaxConnAssumption DEF Init, BuffersConserved
  <1>4. StoreInv
    BY DEF Init, StoreInv, Early
  <1>5. QED
    BY <1>1, <1>2, <1>3, <1>4 DEF IInv

\* Lemma: every step keeps the types.
LEMMA TypeStep ==
  ASSUME TypeOK, BuffersConserved, [Next]_vars
  PROVE  TypeOK'
PROOF
  <1>1. ASSUME NEW r \in Requests, Lookup(r) PROVE TypeOK'
    BY <1>1, StoresAssumption, MaxConnAssumption DEF Lookup, TypeOK, Storages, Running,
      Nothing, presence, callers, items,
      contexts, files
  <1>2. ASSUME NEW r \in Requests, Peek(r) PROVE TypeOK'
    BY <1>2, StoresAssumption, MaxConnAssumption DEF Peek, Join, TypeOK, Storages,
      Running, Nothing, presence, callers, items,
      contexts, files
  <1>3. ASSUME NEW r \in Requests, LockJoin(r) PROVE TypeOK'
    BY <1>3, StoresAssumption, MaxConnAssumption DEF LockJoin, Join, Present, TypeOK,
      Storages, Running, Nothing, presence,
      callers, items, contexts, files
  <1>4. ASSUME NEW r \in Requests, LockLead(r) PROVE TypeOK'
    <2>1. 1 \in Storages /\ Nothing \in [waitsFor : {"nothing"}, of : Nat]
      BY StoresAssumption DEF Storages, Nothing
    <2>2. /\ downloading' \in [Hashes -> Items \union {NoItem}]
          /\ step' \in [Items -> Running \union {"unused", "forget", "gone"}]
          /\ target' \in [Items -> Hashes] /\ store' \in [Items -> Storages]
          /\ failed' \in [Items -> BOOLEAN] /\ done' \in [Items -> BOOLEAN]
      BY <1>4, <2>1 DEF LockLead, TypeOK, Running
    <2>3. /\ guard' \in [Items -> [waitsFor : {"nothing", "look", "sawOn", "sawOff", "end", "begin"},
                                   of : Nat]]
          /\ cancelled' \subseteq Items
      BY <1>4, <2>1 DEF LockLead, TypeOK
    <2>4. /\ joined' \in [Requests -> Items \union {NoItem}]
          /\ pc' \in [Requests -> {"idle", "peek", "lock", "select", "wait", "serve", "left"}]
      BY <1>4 DEF LockLead, Join, TypeOK
    <2>5. QED
      BY <1>4, <2>2, <2>3, <2>4 DEF LockLead, TypeOK, presence, files
  <1>5. ASSUME NEW r \in Requests, EnterSelect(r) PROVE TypeOK'
    BY <1>5, StoresAssumption, MaxConnAssumption DEF EnterSelect, TypeOK, Storages,
      Running, Nothing, presence, callers, items,
      contexts, files
  <1>6. ASSUME NEW r \in Requests, Answered(r) PROVE TypeOK'
    BY <1>6, StoresAssumption, MaxConnAssumption DEF Answered, Leave, TypeOK, Storages,
      Running, Nothing, presence, callers,
      items, contexts, files
  <1>7. ASSUME NEW r \in Requests, GivesUp(r) PROVE TypeOK'
    BY <1>7, StoresAssumption, MaxConnAssumption DEF GivesUp, Leave, TypeOK, Storages,
      Running, Nothing, presence, callers,
      items, contexts, files
  <1>8. ASSUME NEW r \in Requests, Disabled(r) PROVE TypeOK'
    BY <1>8, StoresAssumption, MaxConnAssumption DEF Disabled, Leave, TypeOK, Storages,
      Running, Nothing, presence, callers,
      items, contexts, files
  <1>9. ASSUME NEW r \in Requests, Serve(r) PROVE TypeOK'
    BY <1>9, StoresAssumption, MaxConnAssumption DEF Serve, Leave, TypeOK, Storages,
      Running, Nothing, presence, callers,
      items, contexts, files
  <1>10. ASSUME NEW i \in Items, Start(i) PROVE TypeOK'
    BY <1>10, StoresAssumption, MaxConnAssumption DEF Start, TypeOK, Storages, Running,
      Nothing, presence, callers, items,
      contexts, files
  <1>11. ASSUME NEW i \in Items, Alloc(i) PROVE TypeOK'
    BY <1>11, StoresAssumption, MaxConnAssumption DEF Alloc, TypeOK, Storages, Running,
      Nothing, presence, callers, items,
      contexts, files
  <1>12. ASSUME NEW i \in Items, AllocCancelled(i) PROVE TypeOK'
    <2>1. free' \in 0..MaxConn
      BY <1>12, HeldFacts, MaxConnAssumption
      DEF AllocCancelled, PublishError, Publish, EndContext, TypeOK
    <2>2. QED
      BY <1>12, <2>1, StoresAssumption
      DEF AllocCancelled, PublishError, Publish, EndContext, TypeOK, Storages, Running, Nothing,
        presence, callers, items, contexts, files
  <1>13. ASSUME NEW i \in Items, Fetched(i) PROVE TypeOK'
    BY <1>13, StoresAssumption, MaxConnAssumption DEF Fetched, TypeOK, Storages,
      Running, Nothing, presence, callers, items,
      contexts, files
  <1>t. ASSUME NEW i \in Items, TokenTurn(i) PROVE TypeOK'
    BY <1>t, StoresAssumption, MaxConnAssumption DEF TokenTurn, TypeOK, Storages,
      Running, Nothing, presence, callers, items,
      contexts, files
  <1>14. ASSUME NEW i \in Items, FetchFailed(i) PROVE TypeOK'
    <2>1. free' \in 0..MaxConn
      BY <1>14, HeldFacts, MaxConnAssumption
      DEF FetchFailed, PublishError, Publish, EndContext, TypeOK
    <2>2. QED
      BY <1>14, <2>1, StoresAssumption
      DEF FetchFailed, PublishError, Publish, EndContext, TypeOK, Storages, Running, Nothing,
        presence, callers, items, contexts, files
  <1>15. ASSUME NEW i \in Items, SeekFailed(i) PROVE TypeOK'
    <2>1. free' \in 0..MaxConn
      BY <1>15, HeldFacts, MaxConnAssumption
      DEF SeekFailed, PublishError, Publish, EndContext, TypeOK
    <2>2. QED
      BY <1>15, <2>1, StoresAssumption
      DEF SeekFailed, PublishError, Publish, EndContext, TypeOK, Storages, Running, Nothing,
        presence, callers, items, contexts, files
  <1>16. ASSUME NEW i \in Items, Truncate(i) PROVE TypeOK'
    BY <1>16, StoresAssumption, MaxConnAssumption DEF Truncate, TypeOK, Storages,
      Running, Nothing, presence, callers, items,
      contexts, files
  <1>17. ASSUME NEW i \in Items, Stored(i) PROVE TypeOK'
    <2>1. store' \in [Items -> Storages] /\ step' \in [Items -> Running \union {"unused", "forget", "gone"}]
      BY <1>17, StoresAssumption DEF Stored, Advance, LastStore, TypeOK, Storages, Running
    <2>2. content' \in [Storages -> [Hashes -> {"none", "collected", "part", "whole"}]]
      BY <1>17 DEF Stored, TypeOK
    <2>3. refused' \in [Storages -> SUBSET Hashes]
      BY <1>17 DEF Stored, TypeOK
    <2>4. QED
      BY <1>17, <2>1, <2>2, <2>3 DEF Stored, TypeOK, presence, callers, items, contexts, files
  <1>18. ASSUME NEW i \in Items, Refused(i) PROVE TypeOK'
    <2>1. store' \in [Items -> Storages] /\ step' \in [Items -> Running \union {"unused", "forget", "gone"}]
      BY <1>18, StoresAssumption DEF Refused, Advance, LastStore, TypeOK, Storages, Running
    <2>2. refused' \in [Storages -> SUBSET Hashes]
      BY <1>18 DEF Refused, TypeOK
    <2>3. QED
      BY <1>18, <2>1, <2>2 DEF Refused, TypeOK, presence, callers, items, contexts, files
  <1>19. ASSUME NEW i \in Items, Index(i) PROVE TypeOK'
    BY <1>19, StoresAssumption, MaxConnAssumption DEF Index, TypeOK, Storages, Running,
      Nothing, presence, callers, items,
      contexts, files
  <1>20. ASSUME NEW i \in Items, Finish(i) PROVE TypeOK'
    <2>1. free' \in 0..MaxConn
      BY <1>20, HeldFacts, MaxConnAssumption
      DEF Finish, Publish, EndContext, TypeOK
    <2>2. QED
      BY <1>20, <2>1, StoresAssumption
      DEF Finish, Publish, EndContext, TypeOK, Storages, Running, Nothing,
        presence, callers, items, contexts, files
  <1>21. ASSUME NEW i \in Items, Forget(i) PROVE TypeOK'
    BY <1>21, StoresAssumption, MaxConnAssumption DEF Forget, TypeOK, Storages, Running,
      Nothing, presence, callers, items,
      contexts, files
  <1>22. ASSUME NEW i \in Items, Look(i) PROVE TypeOK'
    <2> DEFINE places == {"nothing", "look", "sawOn", "sawOff", "end", "begin"}
               to == IF on THEN "sawOn" ELSE "sawOff"
    <2>1. guard \in [Items -> [waitsFor : places, of : Nat]] /\ to \in places
      BY DEF TypeOK
    <2>2. guard' = [guard EXCEPT ![i].waitsFor = to]
      BY <1>22 DEF Look
    <2>3. guard' \in [Items -> [waitsFor : places, of : Nat]]
      <3> HIDE DEF places, to
      <3>1. QED
        BY <2>1, <2>2
    <2>4. UNCHANGED <<presence, callers, items, cancelled, free, files, gc>>
      BY <1>22 DEF Look
    <2>5. QED
      BY <2>3, <2>4 DEF TypeOK, presence, callers, items, files
  <1>23. ASSUME NEW i \in Items, Subscribe(i) PROVE TypeOK'
    <2>1. guard' \in [Items -> [waitsFor : {"nothing", "look", "sawOn", "sawOff", "end", "begin"},
                                of : Nat]]
      <3>1. CASE guard' = [guard EXCEPT ![i] = [waitsFor |-> "end", of |-> generation]]
        BY <3>1 DEF TypeOK
      <3>2. CASE guard' = [guard EXCEPT ![i] =
                   [waitsFor |-> "begin", of |-> IF on THEN generation ELSE generation + 1]]
        <4>1. (IF on THEN generation ELSE generation + 1) \in Nat
          BY DEF TypeOK
        <4>2. QED
          BY <3>2, <4>1 DEF TypeOK
      <3>3. QED
        BY <1>23, <3>1, <3>2 DEF Subscribe
    <2>2. QED
      BY <1>23, <2>1 DEF Subscribe, TypeOK, presence, callers, items, contexts, files
  <1>24. ASSUME NEW i \in Items, Cancel(i) PROVE TypeOK'
    BY <1>24, StoresAssumption, MaxConnAssumption DEF Cancel, TypeOK, Storages, Running,
      Nothing, presence, callers, items,
      contexts, files
  <1>25. CASE Cluster
    <2>1. on' \in BOOLEAN /\ generation' \in Nat /\ ended' \subseteq Nat
      <3>1. CASE P!ComeOn
        BY <3>1 DEF P!ComeOn, TypeOK
      <3>2. CASE P!GoOff
        BY <3>2 DEF P!GoOff, TypeOK
      <3>3. CASE P!Lapse
        BY <3>3 DEF P!Lapse, TypeOK
      <3>4. QED
        BY <1>25, <3>1, <3>2, <3>3 DEF Cluster, P!PresenceNext
    <2>2. QED
      BY <1>25, <2>1 DEF Cluster, TypeOK, callers, items, contexts, files
  <1>26. CASE Gc
    <2>1. ASSUME NEW s \in Storages, NEW h \in Hashes, GcLook(s, h) PROVE TypeOK'
      BY <2>1 DEF GcLook, TypeOK, presence, callers, items, contexts, files
    <2>2. ASSUME GcRemove PROVE TypeOK'
      <3>1. content' \in [Storages -> [Hashes -> {"none", "collected", "part", "whole"}]]
        BY <2>2 DEF GcRemove, TypeOK
      <3>2. gc' = Resting
        BY <2>2 DEF GcRemove
      <3>3. QED
        BY <2>2, <3>1, <3>2 DEF GcRemove, TypeOK, presence, callers, items, contexts, files
    <2>3. QED
      BY <1>26, <2>1, <2>2 DEF Gc
  <1>27. CASE UNCHANGED vars
    BY <1>27, StoresAssumption, MaxConnAssumption DEF vars, TypeOK, Storages, Running,
      Nothing, presence, callers, items,
      contexts, files
  <1>28. QED
    BY <1>1, <1>2, <1>3, <1>4, <1>5, <1>6, <1>7, <1>8, <1>9, <1>10, <1>11, <1>12,
      <1>13, <1>t, <1>14, <1>15, <1>16, <1>17, <1>18, <1>19, <1>20, <1>21, <1>22,
      <1>23, <1>24, <1>25, <1>26, <1>27
      DEF Next, Rest, Request, Fetch, Watch

\* Lemma: every step keeps the buffers.
LEMMA BufferStep ==
  ASSUME TypeOK, TypeOK', BuffersConserved, [Next]_vars
  PROVE  BuffersConserved'
PROOF
  <1> USE DEF Held
  <1>1. IsFiniteSet(Held) /\ Cardinality(Held) \in Nat /\ free + Cardinality(Held) = MaxConn
    BY HeldFacts, FS_CardinalityType DEF BuffersConserved
  <1>2. BuffersConserved' <=> free' + Cardinality(Held') = MaxConn
    BY DEF BuffersConserved
  <1>3. ASSUME Held' = Held, free' = free PROVE BuffersConserved'
    BY <1>1, <1>2, <1>3
  <1>4. ASSUME NEW i \in Items, Alloc(i) PROVE BuffersConserved'
    <2>1. Held' = Held \union {i} /\ i \notin Held /\ free' = free - 1
      BY <1>4 DEF Alloc, TypeOK, Buffered
    <2>2. Cardinality(Held') = Cardinality(Held) + 1
      BY <1>1, <2>1, FS_AddElement
    <2>3. QED
      BY <1>1, <1>2, <2>1, <2>2, MaxConnAssumption DEF TypeOK
  <1>5. ASSUME NEW i \in Items, NEW err \in BOOLEAN, Publish(i, err) PROVE BuffersConserved'
    <2>1. CASE step[i] \in Buffered
      <3>1. Held' = Held \ {i} /\ i \in Held /\ free' = free + 1
        BY <1>5, <2>1 DEF Publish, TypeOK, Buffered
      <3>2. Cardinality(Held') = Cardinality(Held) - 1
        BY <1>1, <3>1, FS_RemoveElement
      <3>3. QED
        BY <1>1, <1>2, <3>1, <3>2, MaxConnAssumption DEF TypeOK
    <2>2. CASE step[i] \notin Buffered
      <3>1. Held' = Held /\ free' = free
        BY <1>5, <2>2 DEF Publish, TypeOK, Buffered
      <3>2. QED
        BY <1>3, <3>1
    <2>3. QED
      BY <2>1, <2>2
  <1>6. ASSUME NEW i \in Items,
               AllocCancelled(i) \/ FetchFailed(i) \/ SeekFailed(i) \/ Finish(i)
        PROVE  BuffersConserved'
    BY <1>5, <1>6 DEF AllocCancelled, FetchFailed, SeekFailed, Finish, PublishError
  <1>7. ASSUME NEW r \in Requests, LockLead(r) PROVE BuffersConserved'
    <2>1. PICK i \in Items : Reusable(i) /\ step' = [step EXCEPT ![i] = "start"]
      BY <1>7 DEF LockLead, NewItem
    <2>2. Held' = Held /\ free' = free
      BY <1>7, <2>1 DEF LockLead, NewItem, Reusable, TypeOK, Buffered
    <2>3. QED
      BY <1>3, <2>2
  <1>8. ASSUME NEW i \in Items,
               Start(i) \/ TokenTurn(i) \/ Fetched(i) \/ Truncate(i) \/ Stored(i) \/ Refused(i) \/ Index(i) \/ Forget(i)
        PROVE  BuffersConserved'
    <2>1. Held' = Held /\ free' = free
      BY <1>8 DEF Start, TokenTurn, Fetched, Truncate, Stored, Refused, Advance, Index, Forget,
        TypeOK, Buffered
    <2>2. QED
      BY <1>3, <2>1
  <1>9. ASSUME UNCHANGED <<step, free>> PROVE BuffersConserved'
    BY <1>3, <1>9
  <1>10. ASSUME NEW i \in Items, Watch(i) PROVE BuffersConserved'
    BY <1>9, <1>10 DEF Watch, Look, Subscribe, Cancel, items
  <1>11. ASSUME NEW r \in Requests, Request(r), ~LockLead(r) PROVE BuffersConserved'
    BY <1>9, <1>11 DEF Request, Lookup, Peek, LockJoin, EnterSelect, Answered, GivesUp, Disabled,
                       Serve, Leave, items
  <1>12. CASE Cluster \/ Gc \/ UNCHANGED vars
    BY <1>9, <1>12 DEF Cluster, Gc, GcLook, GcRemove, vars, items
  <1>13. QED
    BY <1>4, <1>6, <1>7, <1>8, <1>10, <1>11, <1>12 DEF Next, Rest, Fetch

\* Lemma: every step keeps the map in agreement with the items.
LEMMA FlightStep ==
  ASSUME TypeOK, TypeOK', FlightInv, [Next]_vars
  PROVE  FlightInv'
PROOF
  <1>1. ASSUME NEW r \in Requests, Lookup(r) PROVE FlightInv'
    BY <1>1, ItemsAssumption DEF Lookup, TypeOK, FlightInv, Listed, Running, presence,
      callers, items,
      contexts, files
  <1>2. ASSUME NEW r \in Requests, Peek(r) PROVE FlightInv'
    BY <1>2, ItemsAssumption DEF Peek, Join, TypeOK, FlightInv, Listed, Running,
      presence, callers, items,
      contexts, files
  <1>3. ASSUME NEW r \in Requests, LockJoin(r) PROVE FlightInv'
    BY <1>3, ItemsAssumption DEF LockJoin, Join, Present, TypeOK, FlightInv, Listed,
      Running, presence,
      callers, items, contexts, files
  <1>4. ASSUME NEW r \in Requests, LockLead(r) PROVE FlightInv'
    <2>1. PICK i \in Items :
            /\ step[i] \in {"unused", "gone"} /\ downloading[hash[r]] = NoItem
            /\ downloading' = [downloading EXCEPT ![hash[r]] = i]
            /\ step' = [step EXCEPT ![i] = "start"]
            /\ target' = [target EXCEPT ![i] = hash[r]]
      BY <1>4 DEF LockLead, NewItem, Present, Reusable
    <2>2. /\ hash[r] \in Hashes /\ downloading'[hash[r]] = i
          /\ step'[i] = "start" /\ target'[i] = hash[r]
          /\ \A j \in Items : j # i => step'[j] = step[j] /\ target'[j] = target[j]
          /\ \A h \in Hashes : h # hash[r] => downloading'[h] = downloading[h]
      BY <2>1 DEF TypeOK
    <2>3. step[i] \notin Listed /\ "start" \in Listed
      BY <2>1 DEF Listed, Running
    <2>4. ASSUME NEW j \in Items, step'[j] \in Listed PROVE downloading'[target'[j]] = j
      <3>1. CASE j = i
        BY <2>2, <3>1
      <3>2. CASE j # i
        <4>1. downloading[target[j]] = j /\ target[j] \in Hashes
          BY <2>2, <2>4, <3>2 DEF FlightInv, TypeOK
        <4>2. target[j] # hash[r]
          BY <2>1, <4>1, ItemsAssumption
        <4>3. QED
          BY <2>2, <3>2, <4>1, <4>2
      <3>3. QED
        BY <3>1, <3>2
    <2>5. ASSUME NEW h \in Hashes, downloading'[h] # NoItem
          PROVE  step'[downloading'[h]] \in Listed /\ target'[downloading'[h]] = h
      <3>1. CASE h = hash[r]
        BY <2>2, <2>3, <3>1
      <3>2. CASE h # hash[r]
        <4>1. /\ downloading'[h] = downloading[h] /\ downloading[h] \in Items
              /\ step[downloading[h]] \in Listed /\ target[downloading[h]] = h
          BY <2>2, <2>5, <3>2 DEF FlightInv, TypeOK
        <4>2. QED
          BY <2>2, <2>3, <4>1
      <3>3. QED
        BY <3>1, <3>2
    <2>6. QED
      BY <2>4, <2>5 DEF FlightInv
  <1>5. ASSUME NEW r \in Requests, EnterSelect(r) PROVE FlightInv'
    BY <1>5, ItemsAssumption DEF EnterSelect, TypeOK, FlightInv, Listed, Running,
      presence, callers, items,
      contexts, files
  <1>6. ASSUME NEW r \in Requests, Answered(r) PROVE FlightInv'
    BY <1>6, ItemsAssumption DEF Answered, Leave, TypeOK, FlightInv, Listed, Running,
      presence, callers,
      items, contexts, files
  <1>7. ASSUME NEW r \in Requests, GivesUp(r) PROVE FlightInv'
    BY <1>7, ItemsAssumption DEF GivesUp, Leave, TypeOK, FlightInv, Listed, Running,
      presence, callers,
      items, contexts, files
  <1>8. ASSUME NEW r \in Requests, Disabled(r) PROVE FlightInv'
    BY <1>8, ItemsAssumption DEF Disabled, Leave, TypeOK, FlightInv, Listed, Running,
      presence, callers,
      items, contexts, files
  <1>9. ASSUME NEW r \in Requests, Serve(r) PROVE FlightInv'
    BY <1>9, ItemsAssumption DEF Serve, Leave, TypeOK, FlightInv, Listed, Running,
      presence, callers,
      items, contexts, files
  <1>10. ASSUME NEW i \in Items, Start(i) PROVE FlightInv'
    BY <1>10, ItemsAssumption DEF Start, TypeOK, FlightInv, Listed, Running, presence,
      callers, items,
      contexts, files
  <1>11. ASSUME NEW i \in Items, Alloc(i) PROVE FlightInv'
    BY <1>11, ItemsAssumption DEF Alloc, TypeOK, FlightInv, Listed, Running, presence,
      callers, items,
      contexts, files
  <1>12. ASSUME NEW i \in Items, AllocCancelled(i) PROVE FlightInv'
    BY <1>12, ItemsAssumption DEF AllocCancelled, PublishError, Publish, EndContext,
      TypeOK, FlightInv,
      Listed, Running, presence, callers, items, contexts, files
  <1>13. ASSUME NEW i \in Items, Fetched(i) PROVE FlightInv'
    BY <1>13, ItemsAssumption DEF Fetched, TypeOK, FlightInv, Listed, Running, presence,
      callers, items,
      contexts, files
  <1>t. ASSUME NEW i \in Items, TokenTurn(i) PROVE FlightInv'
    BY <1>t, ItemsAssumption DEF TokenTurn, TypeOK, FlightInv, Listed, Running, presence,
      callers, items,
      contexts, files
  <1>14. ASSUME NEW i \in Items, FetchFailed(i) PROVE FlightInv'
    BY <1>14, ItemsAssumption DEF FetchFailed, PublishError, Publish, EndContext,
      TypeOK, FlightInv, Listed,
      Running, presence, callers, items, contexts, files
  <1>15. ASSUME NEW i \in Items, SeekFailed(i) PROVE FlightInv'
    BY <1>15, ItemsAssumption DEF SeekFailed, PublishError, Publish, EndContext, TypeOK,
      FlightInv, Listed,
      Running, presence, callers, items, contexts, files
  <1>16. ASSUME NEW i \in Items, Truncate(i) PROVE FlightInv'
    BY <1>16, ItemsAssumption DEF Truncate, TypeOK, FlightInv, Listed, Running,
      presence, callers, items,
      contexts, files
  <1>17. ASSUME NEW i \in Items, Stored(i) PROVE FlightInv'
    BY <1>17, ItemsAssumption DEF Stored, Advance, TypeOK, FlightInv, Listed, Running,
      presence, callers,
      items, contexts, files
  <1>18. ASSUME NEW i \in Items, Refused(i) PROVE FlightInv'
    BY <1>18, ItemsAssumption DEF Refused, Advance, TypeOK, FlightInv, Listed, Running,
      presence, callers,
      items, contexts, files
  <1>19. ASSUME NEW i \in Items, Index(i) PROVE FlightInv'
    BY <1>19, ItemsAssumption DEF Index, TypeOK, FlightInv, Listed, Running, presence,
      callers, items,
      contexts, files
  <1>20. ASSUME NEW i \in Items, Finish(i) PROVE FlightInv'
    BY <1>20, ItemsAssumption DEF Finish, Publish, EndContext, TypeOK, FlightInv,
      Listed, Running, presence,
      callers, items, contexts, files
  <1>21. ASSUME NEW i \in Items, Forget(i) PROVE FlightInv'
    BY <1>21, ItemsAssumption DEF Forget, TypeOK, FlightInv, Listed, Running, presence,
      callers, items,
      contexts, files
  <1>22. ASSUME NEW i \in Items, Look(i) PROVE FlightInv'
    BY <1>22, ItemsAssumption DEF Look, TypeOK, FlightInv, Listed, Running, presence,
      callers, items,
      contexts, files
  <1>23. ASSUME NEW i \in Items, Subscribe(i) PROVE FlightInv'
    BY <1>23, ItemsAssumption DEF Subscribe, TypeOK, FlightInv, Listed, Running,
      presence, callers, items,
      contexts, files
  <1>24. ASSUME NEW i \in Items, Cancel(i) PROVE FlightInv'
    BY <1>24, ItemsAssumption DEF Cancel, TypeOK, FlightInv, Listed, Running, presence,
      callers, items,
      contexts, files
  <1>25. CASE Cluster
    BY <1>25, ItemsAssumption DEF Cluster, P!PresenceNext, P!ComeOn, P!GoOff, P!Lapse,
      TypeOK, FlightInv,
      Listed, Running, callers, items, contexts, files
  <1>26. CASE Gc
    BY <1>26, ItemsAssumption DEF Gc, GcLook, GcRemove, TypeOK, FlightInv, Listed,
      Running, presence,
      callers, items, contexts, files
  <1>27. CASE UNCHANGED vars
    BY <1>27, ItemsAssumption DEF vars, TypeOK, FlightInv, Listed, Running, presence,
      callers, items,
      contexts, files
  <1>28. QED
    BY <1>1, <1>2, <1>3, <1>4, <1>5, <1>6, <1>7, <1>8, <1>9, <1>10, <1>11, <1>12,
      <1>13, <1>t, <1>14, <1>15, <1>16, <1>17, <1>18, <1>19, <1>20, <1>21, <1>22,
      <1>23, <1>24, <1>25, <1>26, <1>27
      DEF Next, Rest, Request, Fetch, Watch

\* Lemma: every step keeps published items true to the file set.
LEMMA PublishStep ==
  ASSUME TypeOK, TypeOK', PublishInv, [Next]_vars
  PROVE  PublishInv'
PROOF
  <1>1. ASSUME NEW r \in Requests, Lookup(r) PROVE PublishInv'
    BY <1>1 DEF Lookup, TypeOK, PublishInv, Running, presence, callers, items, contexts,
      files
  <1>2. ASSUME NEW r \in Requests, Peek(r) PROVE PublishInv'
    BY <1>2 DEF Peek, Join, TypeOK, PublishInv, Running, presence, callers, items,
      contexts, files
  <1>3. ASSUME NEW r \in Requests, LockJoin(r) PROVE PublishInv'
    BY <1>3 DEF LockJoin, Join, Present, TypeOK, PublishInv, Running, presence, callers,
      items, contexts, files
  <1>4. ASSUME NEW r \in Requests, LockLead(r) PROVE PublishInv'
    BY <1>4 DEF LockLead, NewItem, Join, Present, Reusable, TypeOK, PublishInv, Running, presence,
      callers, items, contexts, files
  <1>5. ASSUME NEW r \in Requests, EnterSelect(r) PROVE PublishInv'
    BY <1>5 DEF EnterSelect, TypeOK, PublishInv, Running, presence, callers, items,
      contexts, files
  <1>6. ASSUME NEW r \in Requests, Answered(r) PROVE PublishInv'
    BY <1>6 DEF Answered, Leave, TypeOK, PublishInv, Running, presence, callers, items,
      contexts, files
  <1>7. ASSUME NEW r \in Requests, GivesUp(r) PROVE PublishInv'
    BY <1>7 DEF GivesUp, Leave, TypeOK, PublishInv, Running, presence, callers, items,
      contexts, files
  <1>8. ASSUME NEW r \in Requests, Disabled(r) PROVE PublishInv'
    BY <1>8 DEF Disabled, Leave, TypeOK, PublishInv, Running, presence, callers, items,
      contexts, files
  <1>9. ASSUME NEW r \in Requests, Serve(r) PROVE PublishInv'
    BY <1>9 DEF Serve, Leave, TypeOK, PublishInv, Running, presence, callers, items,
      contexts, files
  <1>10. ASSUME NEW i \in Items, Start(i) PROVE PublishInv'
    BY <1>10 DEF Start, TypeOK, PublishInv, Running, presence, callers, items, contexts,
      files
  <1>11. ASSUME NEW i \in Items, Alloc(i) PROVE PublishInv'
    BY <1>11 DEF Alloc, TypeOK, PublishInv, Running, presence, callers, items, contexts,
      files
  <1>12. ASSUME NEW i \in Items, AllocCancelled(i) PROVE PublishInv'
    BY <1>12 DEF AllocCancelled, PublishError, Publish, EndContext, TypeOK, PublishInv,
      Running, presence, callers, items, contexts, files
  <1>13. ASSUME NEW i \in Items, Fetched(i) PROVE PublishInv'
    BY <1>13 DEF Fetched, TypeOK, PublishInv, Running, presence, callers, items, contexts,
      files
  <1>t. ASSUME NEW i \in Items, TokenTurn(i) PROVE PublishInv'
    BY <1>t DEF TokenTurn, TypeOK, PublishInv, Running, presence, callers, items, contexts,
      files
  <1>14. ASSUME NEW i \in Items, FetchFailed(i) PROVE PublishInv'
    BY <1>14 DEF FetchFailed, PublishError, Publish, EndContext, TypeOK, PublishInv,
      Running, presence, callers, items, contexts, files
  <1>15. ASSUME NEW i \in Items, SeekFailed(i) PROVE PublishInv'
    BY <1>15 DEF SeekFailed, PublishError, Publish, EndContext, TypeOK, PublishInv,
      Running, presence, callers, items, contexts, files
  <1>16. ASSUME NEW i \in Items, Truncate(i) PROVE PublishInv'
    BY <1>16 DEF Truncate, TypeOK, PublishInv, Running, presence, callers, items, contexts,
      files
  <1>17. ASSUME NEW i \in Items, Stored(i) PROVE PublishInv'
    BY <1>17 DEF Stored, Advance, TypeOK, PublishInv, Running, presence, callers, items,
      contexts, files
  <1>18. ASSUME NEW i \in Items, Refused(i) PROVE PublishInv'
    BY <1>18 DEF Refused, Advance, TypeOK, PublishInv, Running, presence, callers, items,
      contexts, files
  <1>19. ASSUME NEW i \in Items, Index(i) PROVE PublishInv'
    BY <1>19 DEF Index, TypeOK, PublishInv, Running, presence, callers, items, contexts,
      files
  <1>20. ASSUME NEW i \in Items, Finish(i) PROVE PublishInv'
    BY <1>20 DEF Finish, Publish, EndContext, TypeOK, PublishInv, Running, presence,
      callers, items, contexts, files
  <1>21. ASSUME NEW i \in Items, Forget(i) PROVE PublishInv'
    BY <1>21 DEF Forget, TypeOK, PublishInv, Running, presence, callers, items, contexts,
      files
  <1>22. ASSUME NEW i \in Items, Look(i) PROVE PublishInv'
    BY <1>22 DEF Look, TypeOK, PublishInv, Running, presence, callers, items, contexts,
      files
  <1>23. ASSUME NEW i \in Items, Subscribe(i) PROVE PublishInv'
    BY <1>23 DEF Subscribe, TypeOK, PublishInv, Running, presence, callers, items,
      contexts, files
  <1>24. ASSUME NEW i \in Items, Cancel(i) PROVE PublishInv'
    BY <1>24 DEF Cancel, TypeOK, PublishInv, Running, presence, callers, items, contexts,
      files
  <1>25. CASE Cluster
    BY <1>25 DEF Cluster, P!PresenceNext, P!ComeOn, P!GoOff, P!Lapse, TypeOK, PublishInv,
      Running, callers, items, contexts, files
  <1>26. CASE Gc
    BY <1>26 DEF Gc, GcLook, GcRemove, TypeOK, PublishInv, Running, presence, callers,
      items, contexts, files
  <1>27. CASE UNCHANGED vars
    BY <1>27 DEF vars, TypeOK, PublishInv, Running, presence, callers, items, contexts,
      files
  <1>28. QED
    BY <1>1, <1>2, <1>3, <1>4, <1>5, <1>6, <1>7, <1>8, <1>9, <1>10, <1>11, <1>12,
      <1>13, <1>t, <1>14, <1>15, <1>16, <1>17, <1>18, <1>19, <1>20, <1>21, <1>22,
      <1>23, <1>24, <1>25, <1>26, <1>27
      DEF Next, Rest, Request, Fetch, Watch

\* Lemma: every step leaves the requests with an item that answers them.
LEMMA RequestStep ==
  ASSUME IInv, TypeOK', [Next]_vars
  PROVE  RequestInv'
PROOF
  <1>1. ASSUME NEW r \in Requests, Lookup(r) PROVE RequestInv'
    BY <1>1, ItemsAssumption DEF Lookup, IInv, TypeOK, FlightInv, PublishInv,
      RequestInv, Listed, Running,
      presence, callers, items, contexts, files
  <1>2. ASSUME NEW r \in Requests, Peek(r) PROVE RequestInv'
    <2>1. UNCHANGED <<step, target, hash, fileset>>
      BY <1>2 DEF Peek, items, files
    <2>2. downloading[hash[r]] # NoItem =>
            /\ downloading[hash[r]] \in Items
            /\ step[downloading[hash[r]]] # "unused"
            /\ target[downloading[hash[r]]] = hash[r]
      <3>1. hash[r] \in Hashes /\ downloading[hash[r]] \in Items \union {NoItem}
        BY DEF IInv, TypeOK
      <3>2. "unused" \notin Listed
        BY DEF Listed, Running
      <3>3. QED
        BY <3>1, <3>2 DEF IInv, FlightInv
    <2>3. QED
      BY <1>2, <2>1, <2>2 DEF Peek, Join, IInv, TypeOK, RequestInv
  <1>3. ASSUME NEW r \in Requests, LockJoin(r) PROVE RequestInv'
    <2>1. UNCHANGED <<step, target, hash, fileset>>
      BY <1>3 DEF LockJoin, items, files
    <2>2. downloading[hash[r]] # NoItem =>
            /\ downloading[hash[r]] \in Items
            /\ step[downloading[hash[r]]] # "unused"
            /\ target[downloading[hash[r]]] = hash[r]
      <3>1. hash[r] \in Hashes /\ downloading[hash[r]] \in Items \union {NoItem}
        BY DEF IInv, TypeOK
      <3>2. "unused" \notin Listed
        BY DEF Listed, Running
      <3>3. QED
        BY <3>1, <3>2 DEF IInv, FlightInv
    <2>3. QED
      BY <1>3, <2>1, <2>2 DEF LockJoin, Join, Present, IInv, TypeOK, RequestInv
  <1>4. ASSUME NEW r \in Requests, LockLead(r) PROVE RequestInv'
    BY <1>4, ItemsAssumption DEF LockLead, NewItem, Join, Present, Reusable, IInv, TypeOK,
      FlightInv, PublishInv,
      RequestInv, Listed, Running, presence, callers, items, contexts, files
  <1>5. ASSUME NEW r \in Requests, EnterSelect(r) PROVE RequestInv'
    BY <1>5, ItemsAssumption DEF EnterSelect, IInv, TypeOK, FlightInv, PublishInv,
      RequestInv, Listed,
      Running, presence, callers, items, contexts, files
  <1>6. ASSUME NEW r \in Requests, Answered(r) PROVE RequestInv'
    BY <1>6, ItemsAssumption DEF Answered, Leave, IInv, TypeOK, FlightInv, PublishInv,
      RequestInv, Listed,
      Running, presence, callers, items, contexts, files
  <1>7. ASSUME NEW r \in Requests, GivesUp(r) PROVE RequestInv'
    BY <1>7, ItemsAssumption DEF GivesUp, Leave, IInv, TypeOK, FlightInv, PublishInv,
      RequestInv, Listed,
      Running, presence, callers, items, contexts, files
  <1>8. ASSUME NEW r \in Requests, Disabled(r) PROVE RequestInv'
    BY <1>8, ItemsAssumption DEF Disabled, Leave, IInv, TypeOK, FlightInv, PublishInv,
      RequestInv, Listed,
      Running, presence, callers, items, contexts, files
  <1>9. ASSUME NEW r \in Requests, Serve(r) PROVE RequestInv'
    BY <1>9, ItemsAssumption DEF Serve, Leave, IInv, TypeOK, FlightInv, PublishInv,
      RequestInv, Listed,
      Running, presence, callers, items, contexts, files
  <1>10. ASSUME NEW i \in Items, Start(i) PROVE RequestInv'
    BY <1>10, ItemsAssumption DEF Start, IInv, TypeOK, FlightInv, PublishInv,
      RequestInv, Listed, Running,
      presence, callers, items, contexts, files
  <1>11. ASSUME NEW i \in Items, Alloc(i) PROVE RequestInv'
    BY <1>11, ItemsAssumption DEF Alloc, IInv, TypeOK, FlightInv, PublishInv,
      RequestInv, Listed, Running,
      presence, callers, items, contexts, files
  <1>12. ASSUME NEW i \in Items, AllocCancelled(i) PROVE RequestInv'
    BY <1>12, ItemsAssumption DEF AllocCancelled, PublishError, Publish, EndContext, IInv, TypeOK,
      FlightInv, PublishInv, RequestInv, Listed, Running, presence, callers,
      items, contexts, files
  <1>13. ASSUME NEW i \in Items, Fetched(i) PROVE RequestInv'
    BY <1>13, ItemsAssumption DEF Fetched, IInv, TypeOK, FlightInv, PublishInv,
      RequestInv, Listed, Running,
      presence, callers, items, contexts, files
  <1>t. ASSUME NEW i \in Items, TokenTurn(i) PROVE RequestInv'
    BY <1>t, ItemsAssumption DEF TokenTurn, IInv, TypeOK, FlightInv, PublishInv,
      RequestInv, Listed, Running,
      presence, callers, items, contexts, files
  <1>14. ASSUME NEW i \in Items, FetchFailed(i) PROVE RequestInv'
    BY <1>14, ItemsAssumption DEF FetchFailed, PublishError, Publish, EndContext, IInv,
      TypeOK, FlightInv,
      PublishInv, RequestInv, Listed, Running, presence, callers, items,
      contexts, files
  <1>15. ASSUME NEW i \in Items, SeekFailed(i) PROVE RequestInv'
    BY <1>15, ItemsAssumption DEF SeekFailed, PublishError, Publish, EndContext, IInv,
      TypeOK, FlightInv,
      PublishInv, RequestInv, Listed, Running, presence, callers, items,
      contexts, files
  <1>16. ASSUME NEW i \in Items, Truncate(i) PROVE RequestInv'
    BY <1>16, ItemsAssumption DEF Truncate, IInv, TypeOK, FlightInv, PublishInv, RequestInv, Listed,
      Running, presence, callers, items, contexts, files
  <1>17. ASSUME NEW i \in Items, Stored(i) PROVE RequestInv'
    BY <1>17, ItemsAssumption DEF Stored, Advance, IInv, TypeOK, FlightInv, PublishInv,
      RequestInv, Listed,
      Running, presence, callers, items, contexts, files
  <1>18. ASSUME NEW i \in Items, Refused(i) PROVE RequestInv'
    BY <1>18, ItemsAssumption DEF Refused, Advance, IInv, TypeOK, FlightInv, PublishInv,
      RequestInv, Listed,
      Running, presence, callers, items, contexts, files
  <1>19. ASSUME NEW i \in Items, Index(i) PROVE RequestInv'
    BY <1>19, ItemsAssumption DEF Index, IInv, TypeOK, FlightInv, PublishInv,
      RequestInv, Listed, Running,
      presence, callers, items, contexts, files
  <1>20. ASSUME NEW i \in Items, Finish(i) PROVE RequestInv'
    BY <1>20, ItemsAssumption DEF Finish, Publish, EndContext, IInv, TypeOK, FlightInv, PublishInv,
      RequestInv, Listed, Running, presence, callers, items, contexts, files
  <1>21. ASSUME NEW i \in Items, Forget(i) PROVE RequestInv'
    BY <1>21, ItemsAssumption DEF Forget, IInv, TypeOK, FlightInv, PublishInv,
      RequestInv, Listed, Running,
      presence, callers, items, contexts, files
  <1>22. ASSUME NEW i \in Items, Look(i) PROVE RequestInv'
    BY <1>22, ItemsAssumption DEF Look, IInv, TypeOK, FlightInv, PublishInv, RequestInv,
      Listed, Running,
      presence, callers, items, contexts, files
  <1>23. ASSUME NEW i \in Items, Subscribe(i) PROVE RequestInv'
    BY <1>23, ItemsAssumption DEF Subscribe, IInv, TypeOK, FlightInv, PublishInv,
      RequestInv, Listed,
      Running, presence, callers, items, contexts, files
  <1>24. ASSUME NEW i \in Items, Cancel(i) PROVE RequestInv'
    BY <1>24, ItemsAssumption DEF Cancel, IInv, TypeOK, FlightInv, PublishInv,
      RequestInv, Listed, Running,
      presence, callers, items, contexts, files
  <1>25. CASE Cluster
    BY <1>25, ItemsAssumption DEF Cluster, P!PresenceNext, P!ComeOn, P!GoOff, P!Lapse, IInv, TypeOK,
      FlightInv, PublishInv, RequestInv, Listed, Running, callers, items,
      contexts, files
  <1>26. CASE Gc
    BY <1>26, ItemsAssumption DEF Gc, GcLook, GcRemove, IInv, TypeOK, FlightInv,
      PublishInv, RequestInv,
      Listed, Running, presence, callers, items, contexts, files
  <1>27. CASE UNCHANGED vars
    BY <1>27, ItemsAssumption DEF vars, IInv, TypeOK, FlightInv, PublishInv, RequestInv,
      Listed, Running,
      presence, callers, items, contexts, files
  <1>28. QED
    BY <1>1, <1>2, <1>3, <1>4, <1>5, <1>6, <1>7, <1>8, <1>9, <1>10, <1>11, <1>12,
      <1>13, <1>t, <1>14, <1>15, <1>16, <1>17, <1>18, <1>19, <1>20, <1>21, <1>22,
      <1>23, <1>24, <1>25, <1>26, <1>27
      DEF Next, Rest, Request, Fetch, Watch
-----------------------------------------------------------------------------
\* Item i is as far as it was, or starts again from the first storage.
NoFurther(i) ==
  /\ step[i] = "writing" => step'[i] = "writing" /\ target'[i] = target[i] /\ store'[i] = store[i]
  /\ step'[i] \in {"index", "finish"} =>
       step[i] \in {"index", "finish"} /\ target'[i] = target[i]
  /\ step'[i] \in Early =>
       \/ step[i] \in Early /\ target'[i] = target[i] /\ store'[i] = store[i]
       \/ store'[i] = 1

\* Lemma: a step that leaves the storages and the file set alone, and takes no
\* goroutine further, keeps what is settled.
LEMMA StoreQuiet ==
  ASSUME StoreInv, UNCHANGED files, \A i \in Items : NoFurther(i)
  PROVE  StoreInv'
PROOF
  <1>1. \A h, s : Settled(h, s)' <=> Settled(h, s)
    BY DEF files, Settled
  <1>2. ASSUME NEW i \in Items, NEW s \in Storages,
               (step'[i] \in Early /\ s < store'[i]) \/ step'[i] \in {"index", "finish"}
        PROVE  Settled(target[i], s)'
    <2>1. ~(s < 1)
      BY StoresAssumption DEF Storages
    <2>2. \/ step[i] \in Early /\ s < store[i] /\ target'[i] = target[i]
          \/ step[i] \in {"index", "finish"} /\ target'[i] = target[i]
      BY <1>2, <2>1 DEF NoFurther
    <2>3. QED
      BY <1>1, <2>2 DEF StoreInv
  <1>3. ASSUME NEW h \in fileset', NEW s \in Storages, ~Settled(h, s)'
        PROVE  \E i \in Items : step'[i] = "writing" /\ target'[i] = h /\ store'[i] = s
    <2>1. \E i \in Items : step[i] = "writing" /\ target[i] = h /\ store[i] = s
      BY <1>1, <1>3 DEF StoreInv, files
    <2>2. QED
      BY <2>1 DEF NoFurther
  <1>4. QED
    BY <1>2, <1>3 DEF StoreInv

\* Lemma: the item that runs is the only one of its hash.
LEMMA Alone ==
  ASSUME FlightInv, NEW i \in Items, NEW j \in Items, step[i] \in Running,
         step[j] \in Running, target[i] = target[j]
  PROVE  i = j
PROOF
  BY DEF FlightInv, Listed

\* Lemma: the file is truncated in the storage that is then writing it.
LEMMA StoreTruncate ==
  ASSUME TypeOK, FlightInv, StoreInv, NEW i \in Items, Truncate(i)
  PROVE  StoreInv'
PROOF
  <1>1. /\ step[i] = "copy" /\ step' = [step EXCEPT ![i] = "writing"]
        /\ step \in [Items -> Running \union {"unused", "forget", "gone"}]
        /\ UNCHANGED <<target, store, fileset, refused>>
        /\ store[i] \in Storages /\ target[i] \in Hashes
        /\ content' = [content EXCEPT ![store[i]][target[i]] = "part"]
        /\ content \in [Storages -> [Hashes -> {"none", "collected", "part", "whole"}]]
    BY DEF Truncate, TypeOK
  <1>2. \A h \in Hashes, s \in Storages : Settled(h, s) => Settled(h, s)' \/ (h = target[i] /\ s = store[i])
    BY <1>1 DEF Settled
  <1>3. ASSUME NEW j \in Items, NEW s \in Storages,
               (step'[j] \in Early /\ s < store'[j]) \/ step'[j] \in {"index", "finish"}
        PROVE  Settled(target[j], s)'
    <2>1. (step[j] \in Early /\ s < store[j]) \/ step[j] \in {"index", "finish"}
      BY <1>1, <1>3 DEF Early
    <2>2. Settled(target[j], s)
      BY <2>1 DEF StoreInv
    <2>3. ~(target[j] = target[i] /\ s = store[i])
      <3>1. SUFFICES ASSUME target[j] = target[i], s = store[i] PROVE FALSE
        OBVIOUS
      <3>2. step[j] \in Running /\ step[i] \in Running
        BY <1>1, <2>1 DEF Early, Running
      <3>3. j = i
        BY <3>1, <3>2, Alone
      <3>4. ~(store[i] < store[i])
        BY <1>1, StoresAssumption DEF Storages
      <3>5. QED
        BY <1>1, <2>1, <3>1, <3>3, <3>4
    <2>4. QED
      BY <1>1, <1>2, <2>2, <2>3 DEF TypeOK
  <1>4. ASSUME NEW h \in fileset', NEW s \in Storages, ~Settled(h, s)'
        PROVE  \E j \in Items : step'[j] = "writing" /\ target'[j] = h /\ store'[j] = s
    <2>1. CASE h = target[i] /\ s = store[i]
      BY <1>1, <2>1
    <2>2. CASE ~(h = target[i] /\ s = store[i])
      <3>1. ~Settled(h, s)
        BY <1>1, <1>2, <1>4, <2>2 DEF TypeOK
      <3>2. PICK j \in Items : step[j] = "writing" /\ target[j] = h /\ store[j] = s
        BY <1>1, <1>4, <3>1 DEF StoreInv
      <3>3. QED
        BY <1>1, <3>2
    <2>3. QED
      BY <2>1, <2>2
  <1>5. QED
    BY <1>3, <1>4 DEF StoreInv

\* Lemma: a storage has stored or refused the file: it is settled there, and the
\* goroutine goes on.
LEMMA StoreAdvance ==
  ASSUME TypeOK, StoreInv, NEW i \in Items, step[i] \in {"copy", "writing"}, Advance(i),
         UNCHANGED <<target, fileset>>, NEW now \in Storages, now = store[i],
         Settled(target[i], now)',
         \A h \in Hashes, s \in Storages : Settled(h, s) => Settled(h, s)'
  PROVE  StoreInv'
PROOF
  <1>1. /\ step \in [Items -> Running \union {"unused", "forget", "gone"}]
        /\ store \in [Items -> Storages] /\ store[i] \in Storages
        /\ store[i] \in Nat /\ store[i] <= Stores
    BY StoresAssumption DEF TypeOK, Storages
  <1>2. \A j \in Items \ {i} : step'[j] = step[j] /\ store'[j] = store[j]
    BY <1>1 DEF Advance
  <1>3. /\ step'[i] = (IF store[i] = Stores THEN "index" ELSE "copy")
        /\ store'[i] = (IF store[i] = Stores THEN 1 ELSE store[i] + 1)
    BY <1>1 DEF Advance, LastStore
  <1>4. ASSUME NEW j \in Items, NEW s \in Storages,
               (step'[j] \in Early /\ s < store'[j]) \/ step'[j] \in {"index", "finish"}
        PROVE  Settled(target[j], s)'
    <2>1. CASE j # i
      BY <1>2, <1>4, <2>1 DEF StoreInv, TypeOK
    <2>2. CASE j = i
      <3>1. s \in Nat /\ s <= Stores
        BY StoresAssumption DEF Storages
      <3>2. s <= store[i]
        <4>1. CASE store[i] = Stores
          BY <3>1, <4>1
        <4>2. CASE store[i] # Stores
          <5>1. s < store[i] + 1
            BY <1>3, <1>4, <2>2, <4>2
          <5>2. QED
            BY <1>1, <3>1, <5>1
        <4>3. QED
          BY <4>1, <4>2
      <3>3. s = store[i] \/ s < store[i]
        BY <1>1, <3>1, <3>2
      <3>4. s < store[i] => Settled(target[i], s)
        BY DEF StoreInv, Early
      <3>5. QED
        BY <2>2, <3>3, <3>4, target' = target DEF TypeOK
    <2>3. QED
      BY <2>1, <2>2
  <1>5. ASSUME NEW h \in fileset', NEW s \in Storages, ~Settled(h, s)'
        PROVE  \E j \in Items : step'[j] = "writing" /\ target'[j] = h /\ store'[j] = s
    <2>1. PICK j \in Items : step[j] = "writing" /\ target[j] = h /\ store[j] = s
      BY <1>5 DEF StoreInv, TypeOK
    <2>2. j # i
      BY <1>5, <2>1
    <2>3. QED
      BY <1>2, <2>1, <2>2
  <1>6. QED
    BY <1>4, <1>5 DEF StoreInv

\* Lemma: what a goroutine has settled stays so, and a file is recorded when it
\* is settled everywhere.
LEMMA StoreStep ==
  ASSUME TypeOK, TypeOK', FlightInv, StoreInv, [Next]_vars
  PROVE  StoreInv'
PROOF
  <1>a. /\ step \in [Items -> Running \union {"unused", "forget", "gone"}]
        /\ target \in [Items -> Hashes] /\ store \in [Items -> Storages]
        /\ content \in [Storages -> [Hashes -> {"none", "collected", "part", "whole"}]]
        /\ refused \in [Storages -> SUBSET Hashes]
    BY DEF TypeOK
  <1>1. ASSUME NEW r \in Requests, Lookup(r) PROVE StoreInv'
    <2>1. UNCHANGED files /\ \A i \in Items : NoFurther(i)
      BY <1>1 DEF Lookup, NoFurther, items
    <2>2. QED
      BY <2>1, StoreQuiet
  <1>2. ASSUME NEW r \in Requests, Peek(r) PROVE StoreInv'
    <2>1. UNCHANGED files /\ \A i \in Items : NoFurther(i)
      BY <1>2 DEF Peek, Join, NoFurther, items
    <2>2. QED
      BY <2>1, StoreQuiet
  <1>3. ASSUME NEW r \in Requests, LockJoin(r) PROVE StoreInv'
    <2>1. UNCHANGED files /\ \A i \in Items : NoFurther(i)
      BY <1>3 DEF LockJoin, Join, NoFurther, items
    <2>2. QED
      BY <2>1, StoreQuiet
  <1>4. ASSUME NEW r \in Requests, LockLead(r) PROVE StoreInv'
    <2>1. UNCHANGED files /\ \A i \in Items : NoFurther(i)
      BY <1>4, <1>a DEF LockLead, NewItem, Join, Reusable, Early, NoFurther, items
    <2>2. QED
      BY <2>1, StoreQuiet
  <1>5. ASSUME NEW r \in Requests, EnterSelect(r) PROVE StoreInv'
    <2>1. UNCHANGED files /\ \A i \in Items : NoFurther(i)
      BY <1>5 DEF EnterSelect, NoFurther, items
    <2>2. QED
      BY <2>1, StoreQuiet
  <1>6. ASSUME NEW r \in Requests, Answered(r) PROVE StoreInv'
    <2>1. UNCHANGED files /\ \A i \in Items : NoFurther(i)
      BY <1>6 DEF Answered, Leave, NoFurther, items
    <2>2. QED
      BY <2>1, StoreQuiet
  <1>7. ASSUME NEW r \in Requests, GivesUp(r) PROVE StoreInv'
    <2>1. UNCHANGED files /\ \A i \in Items : NoFurther(i)
      BY <1>7 DEF GivesUp, Leave, NoFurther, items
    <2>2. QED
      BY <2>1, StoreQuiet
  <1>8. ASSUME NEW r \in Requests, Disabled(r) PROVE StoreInv'
    <2>1. UNCHANGED files /\ \A i \in Items : NoFurther(i)
      BY <1>8 DEF Disabled, Leave, NoFurther, items
    <2>2. QED
      BY <2>1, StoreQuiet
  <1>9. ASSUME NEW r \in Requests, Serve(r) PROVE StoreInv'
    <2>1. UNCHANGED files /\ \A i \in Items : NoFurther(i)
      BY <1>9 DEF Serve, Leave, NoFurther, items
    <2>2. QED
      BY <2>1, StoreQuiet
  <1>10. ASSUME NEW i \in Items, Start(i) PROVE StoreInv'
    <2>1. UNCHANGED files /\ \A j \in Items : NoFurther(j)
      BY <1>10, <1>a DEF Start, NoFurther, Early
    <2>2. QED
      BY <2>1, StoreQuiet
  <1>11. ASSUME NEW i \in Items, Alloc(i) PROVE StoreInv'
    <2>1. UNCHANGED files /\ \A j \in Items : NoFurther(j)
      BY <1>11, <1>a DEF Alloc, NoFurther, Early
    <2>2. QED
      BY <2>1, StoreQuiet
  <1>12. ASSUME NEW i \in Items, AllocCancelled(i) PROVE StoreInv'
    <2>1. UNCHANGED files /\ \A j \in Items : NoFurther(j)
      BY <1>12, <1>a DEF AllocCancelled, PublishError, Publish, NoFurther, Early
    <2>2. QED
      BY <2>1, StoreQuiet
  <1>13. ASSUME NEW i \in Items, Fetched(i) PROVE StoreInv'
    <2>1. UNCHANGED files /\ \A j \in Items : NoFurther(j)
      BY <1>13, <1>a DEF Fetched, NoFurther, Early
    <2>2. QED
      BY <2>1, StoreQuiet
  <1>t. ASSUME NEW i \in Items, TokenTurn(i) PROVE StoreInv'
    <2>1. UNCHANGED files /\ \A j \in Items : NoFurther(j)
      BY <1>t, <1>a DEF TokenTurn, NoFurther, Early
    <2>2. QED
      BY <2>1, StoreQuiet
  <1>14. ASSUME NEW i \in Items, FetchFailed(i) PROVE StoreInv'
    <2>1. UNCHANGED files /\ \A j \in Items : NoFurther(j)
      BY <1>14, <1>a DEF FetchFailed, PublishError, Publish, NoFurther, Early
    <2>2. QED
      BY <2>1, StoreQuiet
  <1>15. ASSUME NEW i \in Items, SeekFailed(i) PROVE StoreInv'
    <2>1. UNCHANGED files /\ \A j \in Items : NoFurther(j)
      BY <1>15, <1>a DEF SeekFailed, PublishError, Publish, NoFurther, Early
    <2>2. QED
      BY <2>1, StoreQuiet
  <1>16. ASSUME NEW i \in Items, Finish(i) PROVE StoreInv'
    <2>1. UNCHANGED files /\ \A j \in Items : NoFurther(j)
      BY <1>16, <1>a DEF Finish, Publish, NoFurther, Early
    <2>2. QED
      BY <2>1, StoreQuiet
  <1>17. ASSUME NEW i \in Items, Forget(i) PROVE StoreInv'
    <2>1. UNCHANGED files /\ \A j \in Items : NoFurther(j)
      BY <1>17, <1>a DEF Forget, NoFurther, Early
    <2>2. QED
      BY <2>1, StoreQuiet
  <1>18. ASSUME NEW i \in Items, Look(i) PROVE StoreInv'
    <2>1. UNCHANGED files /\ \A j \in Items : NoFurther(j)
      BY <1>18 DEF Look, NoFurther, items
    <2>2. QED
      BY <2>1, StoreQuiet
  <1>19. ASSUME NEW i \in Items, Subscribe(i) PROVE StoreInv'
    <2>1. UNCHANGED files /\ \A j \in Items : NoFurther(j)
      BY <1>19 DEF Subscribe, NoFurther, items
    <2>2. QED
      BY <2>1, StoreQuiet
  <1>20. ASSUME NEW i \in Items, Cancel(i) PROVE StoreInv'
    <2>1. UNCHANGED files /\ \A j \in Items : NoFurther(j)
      BY <1>20 DEF Cancel, NoFurther, items
    <2>2. QED
      BY <2>1, StoreQuiet
  <1>21. ASSUME NEW i \in Items, Truncate(i) PROVE StoreInv'
    BY <1>21, StoreTruncate
  <1>22. ASSUME NEW i \in Items, Stored(i) PROVE StoreInv'
    <2>1. /\ store[i] \in Storages /\ target[i] \in Hashes
          /\ content' = [content EXCEPT ![store[i]][target[i]] = "whole"]
          /\ refused' = [refused EXCEPT ![store[i]] = refused[store[i]] \ {target[i]}]
          /\ step[i] = "writing" /\ Advance(i) /\ UNCHANGED <<target, fileset>>
      BY <1>22, <1>a DEF Stored
    <2>2. content'[store[i]][target[i]] = "whole"
      BY <2>1, <1>a
    <2>p. PICK now \in Storages : now = store[i]
      BY <2>1
    <2>3. Settled(target[i], now)'
      BY <2>1, <2>2, <2>p DEF Settled
    <2>4. \A h \in Hashes, s \in Storages : Settled(h, s) => Settled(h, s)'
      BY <2>1, <2>2, <1>a DEF Settled
    <2>5. QED
      BY <2>1, <2>3, <2>4, <2>p, StoreAdvance
  <1>23. ASSUME NEW i \in Items, Refused(i) PROVE StoreInv'
    <2>1. /\ store[i] \in Storages /\ target[i] \in Hashes
          /\ refused' = [refused EXCEPT ![store[i]] = refused[store[i]] \union {target[i]}]
          /\ step[i] \in {"copy", "writing"} /\ Advance(i)
          /\ UNCHANGED <<target, fileset, content>>
      BY <1>23, <1>a DEF Refused
    <2>p. PICK now \in Storages : now = store[i]
      BY <2>1
    <2>2. Settled(target[i], now)'
      BY <2>1, <2>p, <1>a DEF Settled
    <2>3. \A h \in Hashes, s \in Storages : Settled(h, s) => Settled(h, s)'
      BY <2>1, <1>a DEF Settled
    <2>4. QED
      BY <2>1, <2>2, <2>3, <2>p, StoreAdvance
  <1>24. ASSUME NEW i \in Items, Index(i) PROVE StoreInv'
    <2>1. /\ step[i] = "index" /\ fileset' = fileset \union {target[i]}
          /\ UNCHANGED <<content, refused, target, store>>
          /\ step' = [step EXCEPT ![i] = "finish"]
      BY <1>24 DEF Index
    <2>2. \A h, s : Settled(h, s)' <=> Settled(h, s)
      BY <2>1 DEF Settled
    <2>3. \A s \in Storages : Settled(target[i], s)
      BY <2>1 DEF StoreInv
    <2>4. \A j \in Items : \/ step'[j] = step[j]
                           \/ j = i /\ step'[j] = "finish"
      BY <2>1, <1>a
    <2>5. \A j \in Items, s \in Storages :
            (step'[j] \in Early /\ s < store'[j]) \/ step'[j] \in {"index", "finish"}
              => Settled(target[j], s)'
      BY <2>1, <2>2, <2>3, <2>4 DEF StoreInv, Early
    <2>6. ASSUME NEW h \in fileset', NEW s \in Storages, ~Settled(h, s)'
          PROVE  \E j \in Items : step'[j] = "writing" /\ target'[j] = h /\ store'[j] = s
      <3>1. h \in fileset /\ ~Settled(h, s)
        BY <2>1, <2>2, <2>3, <2>6
      <3>2. PICK j \in Items : step[j] = "writing" /\ target[j] = h /\ store[j] = s
        BY <3>1 DEF StoreInv
      <3>3. QED
        BY <2>1, <2>4, <3>2
    <2>7. QED
      BY <2>5, <2>6 DEF StoreInv
  <1>25. ASSUME NEW s \in Storages, NEW h \in Hashes, GcLook(s, h) PROVE StoreInv'
    <2>1. UNCHANGED files /\ \A i \in Items : NoFurther(i)
      BY <1>25 DEF GcLook, NoFurther, items
    <2>2. QED
      BY <2>1, StoreQuiet
  <1>26. ASSUME GcRemove PROVE StoreInv'
    <2>1. /\ content' = [content EXCEPT ![gc.store][gc.hash] = "collected"]
          /\ UNCHANGED <<fileset, refused, step, target, store>>
      BY <1>26 DEF GcRemove, items
    <2>2. \A h \in Hashes, s \in Storages : Settled(h, s) => Settled(h, s)'
      BY <2>1, <1>a DEF Settled
    <2>3. QED
      BY <2>1, <2>2, <1>a DEF StoreInv, TypeOK
  <1>27. ASSUME Cluster PROVE StoreInv'
    <2>1. UNCHANGED files /\ \A i \in Items : NoFurther(i)
      BY <1>27 DEF Cluster, NoFurther, items
    <2>2. QED
      BY <2>1, StoreQuiet
  <1>28. ASSUME UNCHANGED vars PROVE StoreInv'
    <2>1. UNCHANGED files /\ \A i \in Items : NoFurther(i)
      BY <1>28 DEF vars, NoFurther, items
    <2>2. QED
      BY <2>1, StoreQuiet
  <1>29. QED
    BY <1>1, <1>2, <1>3, <1>4, <1>5, <1>6, <1>7, <1>8, <1>9, <1>10, <1>11, <1>12,
      <1>13, <1>t, <1>14, <1>15, <1>16, <1>17, <1>18, <1>19, <1>20, <1>21, <1>22, <1>23,
      <1>24, <1>25, <1>26, <1>27, <1>28
      DEF Next, Rest, Request, Fetch, Watch, Gc

\* Lemma: IInv is inductive.
LEMMA Inductive == IInv /\ [Next]_vars => IInv'
PROOF
  <1> SUFFICES ASSUME IInv, [Next]_vars PROVE IInv'
    OBVIOUS
  <1>1. TypeOK'
    BY TypeStep DEF IInv
  <1>2. BuffersConserved' /\ FlightInv' /\ PublishInv' /\ RequestInv' /\ StoreInv'
    BY <1>1, BufferStep, FlightStep, PublishStep, RequestStep, StoreStep DEF IInv
  <1>3. QED
    BY <1>1, <1>2 DEF IInv

\* Lemma: IInv holds throughout.
LEMMA Invariant == Spec => []IInv
PROOF
  <1>1. QED
    BY InitInv, Inductive, PTL DEF Spec

\* The variables keep their types.
THEOREM DownloadTypes == Spec => []TypeOK
PROOF
  <1>1. IInv => TypeOK
    BY DEF IInv
  <1>2. QED
    BY <1>1, Invariant, PTL

\* lockDownloading lets one goroutine at a time fetch a hash, however many
\* requests ask for it.
THEOREM OneFlightPerHash == Spec => []SingleFlight
PROOF
  <1>1. IInv => SingleFlight
    BY DEF IInv, FlightInv, SingleFlight, Listed
  <1>2. QED
    BY <1>1, Invariant, PTL

\* A request of DownloadFile waits for an item of its own hash that is published
\* or will be.
THEOREM NobodyLeftBehind == Spec => []WaitersHaveLeader
PROOF
  <1>1. IInv => WaitersHaveLeader
    BY DEF IInv, TypeOK, RequestInv, PublishInv, WaitersHaveLeader
  <1>2. QED
    BY <1>1, Invariant, PTL

\* A request that DownloadFile answered without an error finds the hash indexed.
THEOREM ServedIsIndexed == Spec => []IndexedBeforeServed
PROOF
  <1>1. IInv => IndexedBeforeServed
    BY DEF IInv, RequestInv, IndexedBeforeServed
  <1>2. QED
    BY <1>1, Invariant, PTL

\* No buffer of the pool is lost or returned twice, on any path of the download.
THEOREM NoBufferLost == Spec => []BuffersConserved
PROOF
  <1>1. IInv => BuffersConserved
    BY DEF IInv
  <1>2. QED
    BY <1>1, Invariant, PTL

\* What DownloadFile has recorded is whole in every storage, unless its last
\* attempt there failed, Gc removed it, or it is being fetched again.
THEOREM RecordedIsStored == Spec => []IndexedIsStored
PROOF
  <1>1. IInv => IndexedIsStored
    <2> SUFFICES ASSUME IInv, NEW h \in fileset, NEW s \in Storages
                 PROVE  \/ content[s][h] = "whole"
                        \/ h \in refused[s]
                        \/ content[s][h] = "collected"
                        \/ \E i \in Items : step[i] \in Running /\ target[i] = h
      BY DEF IndexedIsStored
    <2>1. \/ Settled(h, s)
          \/ \E i \in Items : step[i] = "writing" /\ target[i] = h /\ store[i] = s
      BY DEF IInv, StoreInv
    <2>2. QED
      BY <2>1 DEF Settled, Running
  <1>2. QED
    BY <1>1, Invariant, PTL
=============================================================================
