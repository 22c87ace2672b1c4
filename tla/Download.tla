------------------------------ MODULE Download ------------------------------
(***************************************************************************)
(* Files fetched on demand: DownloadFile and lockDownloading of sync.go,    *)
(* the part of handleDownload that calls them, and the garbage collector    *)
(* that walks the same storages (Gc, gcFor).                                 *)
(*                                                                          *)
(* A request for a hash that is not in the file set joins the download of   *)
(* that hash, or starts a goroutine that fetches the file, copies it to the *)
(* storages in order and records it in the file set.  A second goroutine    *)
(* cancels the fetch when the cluster goes off line (or, if it started off  *)
(* line, when the cluster comes on).  The cluster is the environment: it    *)
(* behaves as Presence allows, which ClusterLifecycle implements.            *)
(***************************************************************************)
EXTENDS Naturals, FiniteSets

CONSTANTS
  Requests,   \* concurrent HTTP requests
  Items,      \* downloadingItem objects; one is reused once nobody holds it
  Hashes,
  Asked,      \* the ways the requests may ask for the hashes
  Stores,     \* the number of storages, tried in the order 1..Stores
  MaxConn,    \* config.DownloadMaxConn: buffers of the slot pool
  MaxBegun,   \* bound: times the cluster comes on line + hashes asked for
  WithGc,     \* is a garbage collection run?
  NoItem

ASSUME StoresAssumption == Stores \in Nat \ {0}
ASSUME MaxConnAssumption == MaxConn \in Nat \ {0}
ASSUME ItemsAssumption == NoItem \notin Items /\ IsFiniteSet(Items)
ASSUME HashesAssumption == Hashes # {}
ASSUME AskedAssumption == Asked \subseteq [Requests -> Hashes]

VARIABLES
  on, generation, ended,  \* the cluster's presence (module Presence)
  pc,          \* where each request is
  hash,        \* the hash it asks for
  joined,      \* the item it waits for
  until,       \* the generation whose end it also waits for
  downloading, \* cr.downloading: the item of each hash being fetched
  step,        \* where the goroutine that fetches each item is
  target,      \* the hash it fetches
  store,       \* the storage it is writing to
  failed,      \* item.err # nil
  done,        \* item.done is closed
  guard,       \* what the cancelling goroutine of each item waits for
  cancelled,   \* the items whose context is cancelled
  free,        \* buffers left in cr.bufSlots
  fileset,     \* the hashes in cr.fileset
  content,     \* what each storage holds of each hash; "collected" if Gc removed it
  refused,     \* the hashes each storage failed to store (history)
  gc           \* what the garbage collector is about to remove

presence == <<on, generation, ended>>
callers  == <<pc, hash, joined, until>>
items    == <<downloading, step, target, store, failed, done>>
contexts == <<guard, cancelled>>
files    == <<fileset, content, refused>>
vars     == <<presence, callers, items, contexts, free, files, gc>>

P == INSTANCE Presence

Storages == 1..Stores
Nothing == [waitsFor |-> "nothing", of |-> 0]
Resting == [at |-> "idle"]

Running  == {"start", "alloc", "token", "fetch", "copy", "writing", "index", "finish"}
Buffered == {"token", "fetch", "copy", "writing", "index", "finish"}

Init ==
  /\ P!PresenceInit
  /\ pc = [r \in Requests |-> "idle"]
  /\ hash \in Asked
  /\ joined = [r \in Requests |-> NoItem]
  /\ until = [r \in Requests |-> 0]
  /\ downloading = [h \in Hashes |-> NoItem]
  /\ step = [i \in Items |-> "unused"]
  /\ target = [i \in Items |-> CHOOSE h \in Hashes : TRUE]
  /\ store = [i \in Items |-> 1]
  /\ failed = [i \in Items |-> FALSE]
  /\ done = [i \in Items |-> FALSE]
  /\ guard = [i \in Items |-> Nothing]
  /\ cancelled = {}
  /\ free = MaxConn
  /\ fileset = {}
  /\ content = [s \in Storages |-> [h \in Hashes |-> "none"]]
  /\ refused = [s \in Storages |-> {}]
  /\ gc = Resting
-----------------------------------------------------------------------------
(* The cluster *)

Cluster ==
  /\ P!PresenceNext
  /\ generation' + Cardinality({hash[r] : r \in Requests}) <= MaxBegun
  /\ UNCHANGED <<callers, items, contexts, free, files, gc>>
-----------------------------------------------------------------------------
(* A request: handleDownload and DownloadFile *)

\* CachedFileSize: a file that is indexed is not downloaded.
Lookup(r) ==
  /\ pc[r] = "idle"
  /\ pc' = [pc EXCEPT ![r] = IF hash[r] \in fileset THEN "serve" ELSE "peek"]
  /\ UNCHANGED <<presence, hash, joined, until, items, contexts, free, files, gc>>

Join(r, i) ==
  /\ joined' = [joined EXCEPT ![r] = i]
  /\ pc' = [pc EXCEPT ![r] = "select"]

\* The first look of lockDownloading, under the read lock.
Peek(r) ==
  /\ pc[r] = "peek"
  /\ IF downloading[hash[r]] # NoItem
       THEN Join(r, downloading[hash[r]])
       ELSE pc' = [pc EXCEPT ![r] = "lock"] /\ UNCHANGED joined
  /\ UNCHANGED <<presence, hash, until, items, contexts, free, files, gc>>

Reusable(i) ==
  /\ step[i] \in {"unused", "gone"}
  /\ \A r \in Requests : joined[r] # i

\* A new item: which object it is makes no difference.
NewItem(i) == Reusable(i) /\ i = CHOOSE j \in Items : Reusable(j)

\* Mutant of Present: what the first look saw is believed.
PresentAtPeek(h) == FALSE

Present(h) == downloading[h] # NoItem

\* The second look, under the write lock: join, or become the one that fetches.
LockJoin(r) ==
  /\ pc[r] = "lock"
  /\ Present(hash[r])
  /\ Join(r, downloading[hash[r]])
  /\ UNCHANGED <<presence, hash, until, items, contexts, free, files, gc>>

LockLead(r) ==
  /\ pc[r] = "lock"
  /\ ~Present(hash[r])
  /\ \E i \in Items :
       /\ NewItem(i)
       /\ downloading' = [downloading EXCEPT ![hash[r]] = i]
       /\ step' = [step EXCEPT ![i] = "start"]
       /\ target' = [target EXCEPT ![i] = hash[r]]
       /\ store' = [store EXCEPT ![i] = 1]
       /\ failed' = [failed EXCEPT ![i] = FALSE]
       /\ done' = [done EXCEPT ![i] = FALSE]
       /\ guard' = [guard EXCEPT ![i] = Nothing]
       /\ cancelled' = cancelled \ {i}
       /\ Join(r, i)
  /\ UNCHANGED <<presence, hash, until, free, files, gc>>

\* cr.Disabled() is evaluated when the select statement is entered.
EnterSelect(r) ==
  /\ pc[r] = "select"
  /\ until' = [until EXCEPT ![r] = generation]
  /\ pc' = [pc EXCEPT ![r] = "wait"]
  /\ UNCHANGED <<presence, hash, joined, items, contexts, free, files, gc>>

Leave(r, where) ==
  /\ pc' = [pc EXCEPT ![r] = where]
  /\ joined' = [joined EXCEPT ![r] = NoItem]
  /\ until' = [until EXCEPT ![r] = 0]
  /\ UNCHANGED <<presence, hash, items, contexts, free, files, gc>>

\* Mutant of Answered: the item is looked up again instead of being kept.
AnsweredIfListed(r) ==
  /\ pc[r] = "wait"
  /\ done[joined[r]]
  /\ downloading[hash[r]] = joined[r]
  /\ Leave(r, IF failed[joined[r]] THEN "left" ELSE "serve")

Answered(r) ==
  /\ pc[r] = "wait"
  /\ done[joined[r]]
  /\ Leave(r, IF failed[joined[r]] THEN "left" ELSE "serve")

GivesUp(r) == pc[r] = "wait" /\ Leave(r, "left")   \* ctx.Done(): the client left

\* The generation whose channel cr.Disabled() returned has ended.
Disabled(r) == pc[r] = "wait" /\ until[r] \in ended /\ Leave(r, "left")

\* The client is sent the file from the first storage that has it, or an error.
Serve(r) == pc[r] = "serve" /\ Leave(r, "left")
-----------------------------------------------------------------------------
(* The goroutine that fetches an item *)

\* The deferred cancel() also ends the cancelling goroutine.
EndContext(i) ==
  /\ cancelled' = cancelled \ {i}
  /\ guard' = [guard EXCEPT ![i] = Nothing]

\* The last deferred calls: the buffer goes back, the error is published and
\* the waiters are woken.  The item leaves cr.downloading in a later step.
Publish(i, err) ==
  /\ step' = [step EXCEPT ![i] = "forget"]
  /\ failed' = [failed EXCEPT ![i] = err]
  /\ done' = [done EXCEPT ![i] = TRUE]
  /\ EndContext(i)
  /\ free' = IF step[i] \in Buffered THEN free + 1 ELSE free

\* Mutant of PublishError: the buffer is freed on the path without an error only.
KeepBuffer(i) ==
  /\ step' = [step EXCEPT ![i] = "forget"]
  /\ failed' = [failed EXCEPT ![i] = TRUE]
  /\ done' = [done EXCEPT ![i] = TRUE]
  /\ EndContext(i)
  /\ UNCHANGED free

PublishError(i) == Publish(i, TRUE)

Start(i) ==
  /\ step[i] = "start"
  /\ step' = [step EXCEPT ![i] = "alloc"]
  /\ guard' = [guard EXCEPT ![i] = [waitsFor |-> "look", of |-> 0]]
  /\ UNCHANGED <<presence, callers, downloading, target, store, failed, done,
                 cancelled, free, files, gc>>

Alloc(i) ==
  /\ step[i] = "alloc"
  /\ free > 0
  /\ free' = free - 1
  /\ step' = [step EXCEPT ![i] = "token"]
  /\ UNCHANGED <<presence, callers, downloading, target, store, failed, done,
                 contexts, files, gc>>

AllocCancelled(i) ==
  /\ step[i] = "alloc"
  /\ i \in cancelled
  /\ PublishError(i)
  /\ UNCHANGED <<presence, callers, downloading, target, store, files, gc>>

\* GetAuthToken waits for authTokenMux first; the context does not end that wait.
TokenTurn(i) ==
  /\ step[i] = "token"
  /\ step' = [step EXCEPT ![i] = "fetch"]
  /\ UNCHANGED <<presence, callers, downloading, target, store, failed, done,
                 contexts, free, files, gc>>

\* fetchFileWithBuf succeeds: size and hash of the temporary file are right.
Fetched(i) ==
  /\ step[i] = "fetch"
  /\ step' = [step EXCEPT ![i] = "copy"]
  /\ UNCHANGED <<presence, callers, downloading, target, store, failed, done,
                 contexts, free, files, gc>>

\* It fails, or its temporary file cannot be opened.
FetchFailed(i) ==
  /\ step[i] = "fetch"
  /\ PublishError(i)
  /\ UNCHANGED <<presence, callers, downloading, target, store, files, gc>>

\* The temporary file cannot be rewound for the next storage.
SeekFailed(i) ==
  /\ step[i] = "copy"
  /\ PublishError(i)
  /\ UNCHANGED <<presence, callers, downloading, target, store, files, gc>>

\* target.Create truncates the object before it is written.
Truncate(i) ==
  /\ step[i] = "copy"
  /\ step' = [step EXCEPT ![i] = "writing"]
  /\ content' = [content EXCEPT ![store[i]][target[i]] = "part"]
  /\ UNCHANGED <<presence, callers, downloading, target, store, failed, done,
                 contexts, free, fileset, refused, gc>>

\* Mutant of LastStore: the loop ends one storage early.
LastStoreButOne(i) == store[i] >= Stores - 1

LastStore(i) == store[i] = Stores

Advance(i) ==
  /\ step' = [step EXCEPT ![i] = IF LastStore(i) THEN "index" ELSE "copy"]
  /\ store' = [store EXCEPT ![i] = IF LastStore(i) THEN 1 ELSE @ + 1]

Stored(i) ==
  /\ step[i] = "writing"
  /\ content' = [content EXCEPT ![store[i]][target[i]] = "whole"]
  /\ refused' = [refused EXCEPT ![store[i]] = @ \ {target[i]}]
  /\ Advance(i)
  /\ UNCHANGED <<presence, callers, downloading, target, failed, done,
                 contexts, free, fileset, gc>>

\* Create fails, before or after it touched the object: the error is logged and
\* the next storage is tried.
Refused(i) ==
  /\ step[i] \in {"copy", "writing"}
  /\ refused' = [refused EXCEPT ![store[i]] = @ \union {target[i]}]
  /\ Advance(i)
  /\ UNCHANGED <<presence, callers, downloading, target, failed, done,
                 contexts, free, fileset, content, gc>>

\* Mutant of Index: the deferred calls run before the file set is updated.
PublishThenIndex(i) ==
  /\ step[i] \in {"index", "forget"}
  /\ IF step[i] = "index"
       THEN Publish(i, FALSE) /\ UNCHANGED fileset
       ELSE /\ fileset' = fileset \union {target[i]}
            /\ UNCHANGED <<step, failed, done, contexts, free>>
  /\ UNCHANGED <<presence, callers, downloading, target, store, content, refused, gc>>

Index(i) ==
  /\ step[i] = "index"
  /\ fileset' = fileset \union {target[i]}
  /\ step' = [step EXCEPT ![i] = "finish"]
  /\ UNCHANGED <<presence, callers, downloading, target, store, failed, done,
                 contexts, free, content, refused, gc>>

Finish(i) ==
  /\ step[i] = "finish"
  /\ Publish(i, FALSE)
  /\ UNCHANGED <<presence, callers, downloading, target, store, files, gc>>

Forget(i) ==
  /\ step[i] = "forget"
  /\ downloading' = [downloading EXCEPT ![target[i]] = NoItem]
  /\ step' = [step EXCEPT ![i] = "gone"]
  /\ UNCHANGED <<presence, callers, target, store, failed, done, contexts, free, files, gc>>

\* The goroutine that cancels the download reads the state of the cluster ...
Look(i) ==
  /\ guard[i].waitsFor = "look"
  /\ guard' = [guard EXCEPT ![i].waitsFor = IF on THEN "sawOn" ELSE "sawOff"]
  /\ UNCHANGED <<presence, callers, items, cancelled, free, files, gc>>

\* ... then asks for the channel of the change it waits for: the end of the
\* current generation, or the next one (a closed channel if it has begun).
Subscribe(i) ==
  /\ \/ /\ guard[i].waitsFor = "sawOn"
        /\ guard' = [guard EXCEPT ![i] = [waitsFor |-> "end", of |-> generation]]
     \/ /\ guard[i].waitsFor = "sawOff"
        /\ guard' = [guard EXCEPT ![i] =
             [waitsFor |-> "begin", of |-> IF on THEN generation ELSE generation + 1]]
  /\ UNCHANGED <<presence, callers, items, cancelled, free, files, gc>>

Signalled(i) ==
  \/ guard[i].waitsFor = "end" /\ guard[i].of \in ended
  \/ guard[i].waitsFor = "begin" /\ guard[i].of <= generation

\* Mutant of Cancel: the channel is received from, and the fetch goes on.
LogOnly(i) ==
  /\ Signalled(i)
  /\ i \notin cancelled
  /\ guard' = [guard EXCEPT ![i] = Nothing]
  /\ UNCHANGED <<presence, callers, items, cancelled, free, files, gc>>

Cancel(i) ==
  /\ Signalled(i)
  /\ i \notin cancelled
  /\ cancelled' = cancelled \union {i}
  /\ guard' = [guard EXCEPT ![i] = Nothing]
  /\ UNCHANGED <<presence, callers, items, free, files, gc>>

\* A cancelled fetch returns: the request it makes carries the context.
FetchAborted(i) == i \in cancelled /\ FetchFailed(i)
-----------------------------------------------------------------------------
(* Gc: one object of one storage is looked up, then removed.  The walk lists    *)
(* every object of every storage and stops while a synchronization runs.        *)

GcLook(s, h) ==
  /\ WithGc
  /\ gc.at = "idle"
  /\ content[s][h] \in {"part", "whole"}
  /\ h \notin fileset
  /\ gc' = [at |-> "remove", store |-> s, hash |-> h]
  /\ UNCHANGED <<presence, callers, items, contexts, free, files>>

GcRemove ==
  /\ gc.at = "remove"
  /\ content' = [content EXCEPT ![gc.store][gc.hash] = "collected"]
  /\ gc' = Resting
  /\ UNCHANGED <<presence, callers, items, contexts, free, fileset, refused>>

Gc == GcRemove \/ \E s \in Storages, h \in Hashes : GcLook(s, h)
-----------------------------------------------------------------------------
Request(r) ==
  \/ Lookup(r) \/ Peek(r) \/ LockJoin(r) \/ LockLead(r) \/ EnterSelect(r)
  \/ Answered(r) \/ GivesUp(r) \/ Disabled(r) \/ Serve(r)

Fetch(i) ==
  \/ Start(i) \/ Alloc(i) \/ AllocCancelled(i) \/ TokenTurn(i) \/ Fetched(i)
  \/ FetchFailed(i) \/ SeekFailed(i) \/ Truncate(i) \/ Stored(i) \/ Refused(i)
  \/ Index(i) \/ Finish(i) \/ Forget(i)

\* Every request has been answered.
Rest == (\A r \in Requests : pc[r] = "left") /\ UNCHANGED vars

Watch(i) == Look(i) \/ Subscribe(i) \/ Cancel(i)

Next ==
  \/ Cluster
  \/ \E r \in Requests : Request(r)
  \/ \E i \in Items : Fetch(i) \/ Watch(i)
  \/ Gc
  \/ Rest

Spec == Init /\ [][Next]_vars

\* What is ready to run runs.  Nothing bounds the wait for cr.mux (EnterSelect,
\* Subscribe), for authTokenMux (TokenTurn), for the center (Fetched, FetchFailed)
\* and for a storage that is writing (Stored, Refused): none of these is fair.  A
\* fetch whose context is cancelled returns, and the goroutines that wait for a
\* buffer queue in a channel: one that could have a buffer again and again gets it.
FairSpec ==
  /\ Spec
  /\ \A r \in Requests : WF_vars(Answered(r) \/ Disabled(r))
  /\ \A i \in Items :
       /\ WF_vars(Cancel(i))
       /\ WF_vars(Start(i)) /\ SF_vars(Alloc(i)) /\ WF_vars(AllocCancelled(i))
       /\ WF_vars(FetchAborted(i))
       /\ WF_vars(SeekFailed(i) \/ Truncate(i) \/ (step[i] = "copy" /\ Refused(i)))
       /\ WF_vars(Index(i) \/ Finish(i) \/ Forget(i))
-----------------------------------------------------------------------------
(* Properties *)

\* Types of the variables, and what the selects rely on: a request waits for an
\* item that exists.
TypeOK ==
  /\ on \in BOOLEAN /\ generation \in Nat /\ ended \subseteq Nat
  /\ pc \in [Requests -> {"idle", "peek", "lock", "select", "wait", "serve", "left"}]
  /\ hash \in [Requests -> Hashes]
  /\ joined \in [Requests -> Items \union {NoItem}]
  /\ until \in [Requests -> Nat]
  /\ downloading \in [Hashes -> Items \union {NoItem}]
  /\ step \in [Items -> Running \union {"unused", "forget", "gone"}]
  /\ target \in [Items -> Hashes]
  /\ store \in [Items -> Storages]
  /\ failed \in [Items -> BOOLEAN]
  /\ done \in [Items -> BOOLEAN]
  /\ guard \in [Items -> [waitsFor : {"nothing", "look", "sawOn", "sawOff", "end", "begin"},
                          of : Nat]]
  /\ cancelled \subseteq Items
  /\ free \in 0..MaxConn
  /\ fileset \subseteq Hashes
  /\ content \in [Storages -> [Hashes -> {"none", "collected", "part", "whole"}]]
  /\ refused \in [Storages -> SUBSET Hashes]
  /\ gc \in {Resting} \union [at : {"remove"}, store : Storages, hash : Hashes]

\* However requests interleave in lockDownloading, at most one goroutine fetches
\* a hash, and it is the one that requests for that hash can join: a second one
\* would truncate the files the first one is writing.
SingleFlight ==
  \A i, j \in Items :
    (step[i] \in Running /\ step[j] \in Running /\ target[i] = target[j]) => i = j

\* Nobody is left behind: an item somebody waits for either is published or has
\* a goroutine that will publish it, for the hash that was asked for.
WaitersHaveLeader ==
  \A r \in Requests : pc[r] \in {"select", "wait"} =>
    /\ joined[r] \in Items
    /\ target[joined[r]] = hash[r]
    /\ done[joined[r]] <=> step[joined[r]] \notin Running

\* A buffer is held by exactly the goroutines between allocBuf and their return:
\* none is lost on an error path and none is returned twice.
BuffersConserved ==
  free + Cardinality({i \in Items : step[i] \in Buffered}) = MaxConn

\* A request goes on to serve a hash only when the file set has it: the item is
\* published after the file was recorded.
IndexedBeforeServed ==
  \A r \in Requests : pc[r] = "serve" => hash[r] \in fileset

\* A recorded file that nobody is rewriting is whole in every storage, unless the
\* last attempt to store it there failed, or a garbage collection that had looked
\* before the file was recorded removed it.
IndexedIsStored ==
  \A h \in fileset, s \in Storages :
    \/ content[s][h] = "whole"
    \/ h \in refused[s]
    \/ content[s][h] = "collected"
    \/ \E i \in Items : step[i] \in Running /\ target[i] = h

\* The waits of the goroutine of an item that nothing has to end.
Hangs(i) ==
  \/ step[i] \in {"token", "writing"}
  \/ step[i] = "fetch" /\ i \notin cancelled

\* A request that joined a download waits for ever in one case only: the end of
\* the generation it watches is never announced (the cluster stays on, or it went
\* off with a lost connection), and some download never ends: its own, or one
\* whose buffer its own needs.  Whoever publishes, forgets, cancels or begins a
\* generation in between, its result and the announcement are not missed.
JoinedAreReleased ==
  \A r \in Requests :
    <>[](pc[r] = "wait") =>
      /\ <>[](until[r] \notin ended)
      /\ \E i \in Items : <>[]Hangs(i)

\* The goroutine that watches over an item has seen the change it waits for, or
\* has only to look.
Told(i) == guard[i] = Nothing \/ Signalled(i)

\* A download does not wait for ever for a buffer, for the token or for the center
\* once the change its second goroutine waits for has come: the generation it saw
\* has ended, whatever has begun since.  Supposed is that whoever holds
\* authTokenMux lets it go.
EndStopsFetch ==
  (\A i \in Items : []<>(step[i] # "token")) =>
    \A i \in Items : []<>~(step[i] \in {"alloc", "token", "fetch"} /\ Told(i))

\* README.MD: no-gc keeps the objects that are not used; the collector removes
\* only such objects.
GcRemovesOnlyUnused ==
  [][GcRemove => gc.hash \notin fileset]_vars
=============================================================================
