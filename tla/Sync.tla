-------------------------------- MODULE Sync --------------------------------
(***************************************************************************)
(* The synchronisation of the storages with the file list of the center:     *)
(* Runner.InitSynchronizer of main.go and SyncFiles, CheckFiles,             *)
(* checkFileFor, syncFiles, fetchFile, SetFilesetByExists and Gc of sync.go. *)
(*                                                                          *)
(* The synchronizer checks every storage, and for each file that one of them *)
(* misses it starts two goroutines: one fetches the file into a temporary    *)
(* file, the other copies it to the storages that miss it.  Both need one of *)
(* the slots of the round; the results come back over a channel.             *)
(*                                                                          *)
(* The center lists a file once: the next list asks for later times only.    *)
(* So a file belongs to one round, and its goroutines, which may outlive the *)
(* round, are named by it.  The time of the last file is the set listed.     *)
(*                                                                          *)
(* Left out: empty files, which no storage has to have; hashes of a length    *)
(* with no hash method, which a heavy check accepts; the mirrors a retried    *)
(* request asks; the buffer of the channel done, whose value waits in its     *)
(* sender here; a second Gc while one runs.                                  *)
(***************************************************************************)
EXTENDS Integers, FiniteSets

CONSTANTS
  Hashes, Storages,
  Slots,             \* slots of a round: concurrency + 1
  MaxTries,          \* maxRetryCount
  HeavyInterval,     \* heavy-check-interval
  NoHeavyCheck, NoGC, OnlyGcWhenStart,
  SkipFirstSync,     \* the values skip-first-sync may have
  MayFail            \* whether storages and temporary files may fail

ASSUME SlotsAssumption == Slots \in Nat \ {0}
ASSUME TriesAssumption == MaxTries \in Nat \ {0}
ASSUME HeavyAssumption == HeavyInterval \in Nat
ASSUME HashesAssumption == IsFiniteSet(Hashes)
ASSUME ConfigAssumption ==
  /\ {NoHeavyCheck, NoGC, OnlyGcWhenStart, MayFail} \subseteq BOOLEAN
  /\ SkipFirstSync \subseteq BOOLEAN

VARIABLES
  pc,                \* where the synchronizer is
  mode,              \* "first" sync, "exist" (the first is skipped), "interval"
  round, files,      \* the round and its file list
  listed,            \* files the center has listed: those up to lastMod
  heavy, checkCount,
  issync, fileset,
  content,           \* what each storage holds of each file
  checked,           \* results of checkFileFor
  verifying,         \* heavy checks of single files under way
  missing,           \* missingMap: the targets of each file
  todo, awaited,     \* files not launched; results not received
  over,              \* rounds whose context is cancelled
  slots,             \* free slots of each round
  roundOf,
  fetch, tried,      \* the goroutine of fetchFile
  path,              \* pathRes
  copy, targets, failed, \* the goroutine that copies the file
  temps,             \* temporary files on disk
  broken,
  gc,                \* a run of Gc
  stopped,           \* the context of the runner is cancelled
  enabled,           \* EnableCluster was called
  synced,            \* a first sync succeeded, or is not wanted (history)
  excused,           \* files the code could not store, by storage (history)
  simple             \* rounds since the last heavy check, -1 before (history)

control  == <<pc, mode, round, files, listed, heavy, checkCount, issync, fileset>>
checks   == <<checked, verifying, missing>>
results  == <<todo, awaited, broken>>
contexts == <<over, roundOf, stopped>>
fetches  == <<fetch, tried>>
copies   == <<copy, targets, failed>>
history  == <<synced, excused, simple>>
vars == <<control, checks, results, contexts, slots, fetches, path, copies, temps,
          content, gc, enabled, history>>

Rounds  == 0..(Cardinality(Hashes) + 1)
Over(h) == roundOf[h] \in over
NoGc    == [at |-> "off"]

Init ==
  /\ pc = "start"
  /\ synced \in SkipFirstSync /\ mode = (IF synced THEN "exist" ELSE "first")
  /\ round = 0 /\ files = {} /\ listed = {}
  /\ heavy = FALSE /\ checkCount = -1
  /\ issync = FALSE /\ fileset = {}
  /\ content \in [Storages -> [Hashes -> {"none", "corrupt", "whole"}]]
  /\ checked = [s \in Storages |-> "no"] /\ verifying = {}
  /\ missing = [h \in Hashes |-> {}]
  /\ todo = {} /\ awaited = 0 /\ broken = {}
  /\ over = {} /\ slots = [r \in Rounds |-> Slots]
  /\ roundOf = [h \in Hashes |-> 0]
  /\ fetch = [h \in Hashes |-> "none"] /\ tried = [h \in Hashes |-> 1]
  /\ path = [h \in Hashes |-> "none"]
  /\ copy = [h \in Hashes |-> "none"]
  /\ targets = [h \in Hashes |-> {}] /\ failed = [h \in Hashes |-> {}]
  /\ temps = {}
  /\ gc = NoGc
  /\ stopped = FALSE /\ enabled = FALSE
  /\ excused = {} /\ simple = -1

Set(f, h, to) == f' = [f EXCEPT ![h] = to]
-----------------------------------------------------------------------------
(* InitSynchronizer *)

\* The files of a list, and the round they belong to.
NewList(fs) ==
  /\ files' = fs
  /\ listed' = listed \union fs
  /\ round' = round + 1
  /\ roundOf' = [h \in Hashes |-> IF h \in fs THEN round + 1 ELSE roundOf[h]]
  /\ checked' = [s \in Storages |-> "no"]
  /\ verifying' = {}
  /\ UNCHANGED <<missing, over, stopped>>

FirstList ==
  /\ pc = "start" /\ ~stopped
  /\ \E fs \in SUBSET Hashes : NewList(fs)
  /\ pc' = IF mode = "exist" THEN "check" ELSE "begin"
  /\ UNCHANGED <<mode, heavy, checkCount, issync, fileset, results, slots, fetches, path,
                 copies, temps, content, gc, enabled, history>>

\* Without a list the program exits, or goes on when the first sync is skipped.
FirstListFails ==
  /\ pc = "start"
  /\ pc' = IF stopped \/ mode = "first" THEN "over" ELSE "idle"
  /\ UNCHANGED <<mode, round, files, listed, heavy, checkCount, issync, fileset, checks,
                 results, contexts, slots, fetches, path, copies, temps, content, gc,
                 enabled, history>>

\* A tick of the interval.  A list that fails or is empty changes nothing.
Tick ==
  /\ pc = "idle" /\ ~stopped
  /\ \E fs \in (SUBSET (Hashes \ listed)) \ {{}} : NewList(fs)
  /\ mode' = "interval"
  /\ IF HeavyInterval = 0
       THEN pc' = "panic" /\ UNCHANGED <<checkCount, heavy, simple>>
       ELSE /\ pc' = "begin"
            /\ checkCount' = (checkCount + 1) % HeavyInterval
            /\ heavy' = (~NoHeavyCheck /\ checkCount' = 0)
            /\ simple' = IF heavy' THEN 0 ELSE IF simple < 0 THEN -1 ELSE simple + 1
  /\ UNCHANGED <<issync, fileset, results, slots, fetches, path, copies, temps, content,
                 gc, enabled, synced, excused>>

\* firstSyncDone is closed when InitSynchronizer returns, and the cluster goes on.
EnableCluster ==
  /\ pc \in {"idle", "over"} \/ mode = "interval"
  /\ ~enabled /\ ~stopped
  /\ enabled' = TRUE
  /\ UNCHANGED <<control, checks, results, contexts, slots, fetches, path, copies, temps,
                 content, gc, history>>

\* DoSignals cancels the context.
Stop ==
  /\ ~stopped
  /\ stopped' = TRUE
  /\ over' = Rounds
  /\ UNCHANGED <<control, checks, results, roundOf, slots, fetches, path, copies, temps,
                 content, gc, enabled, history>>
-----------------------------------------------------------------------------
(* SyncFiles, and the return to InitSynchronizer *)

Begin ==
  /\ pc = "begin"
  /\ ~issync
  /\ issync' = TRUE /\ pc' = "check"
  /\ UNCHANGED <<mode, round, files, listed, heavy, checkCount, fileset, checks, results,
                 contexts, slots, fetches, path, copies, temps, content, gc, enabled,
                 history>>

\* The context of the round is cancelled on the way out.
Leave ==
  /\ issync' = FALSE
  /\ over' = over \union {round}
  /\ checked' = [s \in Storages |-> "no"]
  /\ todo' = {} /\ awaited' = 0 /\ broken' = {}
  /\ UNCHANGED <<mode, round, files, listed, heavy, checkCount, verifying, missing,
                 roundOf, stopped, slots, fetches, path, copies, temps, content, enabled,
                 simple, excused>>

\* SyncFiles returns false.  After the first sync no interval is created.
Fail ==
  /\ pc' = IF mode = "interval" THEN "idle" ELSE "over"
  /\ Leave
  /\ UNCHANGED <<fileset, gc, synced>>

\* SyncFiles returns true, and a Gc starts.
Index ==
  /\ pc = "index"
  /\ fileset' = fileset \union files
  /\ synced' = TRUE
  /\ pc' = "idle"
  /\ gc' = IF NoGC \/ (OnlyGcWhenStart /\ mode = "interval") THEN gc ELSE [at |-> "walk"]
  /\ Leave

\* Mutant of IndexExisting: the number of targets is compared with <=.
IndexIfPresent ==
  /\ pc = "collect" /\ mode = "exist"
  /\ fileset' = {h \in files : Cardinality(missing[h]) <= Cardinality(Storages)}
  /\ pc' = "idle"
  /\ Leave
  /\ UNCHANGED <<gc, synced>>

\* SetFilesetByExists: the files that some storage has.
IndexExisting ==
  /\ pc = "collect" /\ mode = "exist"
  /\ fileset' = {h \in files : missing[h] # Storages}
  /\ pc' = "idle"
  /\ Leave
  /\ UNCHANGED <<gc, synced>>

\* A step of the synchronizer that selects on the context notices its end, and
\* the configuration or every CheckUpload may fail.
Interrupted ==
  /\ \/ pc \in {"check", "launch", "results"} /\ stopped
     \/ pc = "prepare"
  /\ Fail
-----------------------------------------------------------------------------
(* CheckFiles and checkFileFor *)

Goto(where) ==
  /\ pc' = where
  /\ UNCHANGED <<mode, round, files, listed, heavy, checkCount, issync, fileset>>

\* A storage is walked and compared with the list.  The heavy check of a file is
\* left to a goroutine that nobody waits for.
CheckStorage(s) ==
  /\ pc = "check" /\ checked[s] = "no"
  /\ LET absent == {h \in files : content[s][h] = "none"}
     IN  /\ missing' = [h \in Hashes |->
                          IF h \in absent THEN missing[h] \union {s} ELSE missing[h]]
         /\ verifying' = verifying \union
              (IF heavy THEN {s} \X (files \ absent) ELSE {})
  /\ Set(checked, s, "ok")
  /\ UNCHANGED <<control, results, contexts, slots, fetches, path, copies, temps, content,
                 gc, enabled, history>>

CheckFails(s) ==
  /\ pc = "check" /\ checked[s] = "no"
  /\ MayFail
  /\ Set(checked, s, "failed")
  /\ excused' = excused \union ({s} \X files)
  /\ UNCHANGED <<control, verifying, missing, results, contexts, slots, fetches, path,
                 copies, temps, content, gc, enabled, synced, simple>>

\* The goroutine of a heavy check ends.  A file found corrupt is told missing.
\* When the map has been read it is too late, unless another storage misses the
\* file and its targets are still to be read.
Verified(s, h) ==
  /\ <<s, h>> \in verifying
  /\ verifying' = verifying \ {<<s, h>>}
  /\ \E told \in BOOLEAN :
       LET inTime == pc \in {"check", "collect"}
           shared == missing[h] # {} /\ copy[h] \in {"none", "await", "alloc"}
           bad    == content[s][h] = "corrupt"
       IN  /\ IF inTime THEN told = bad ELSE told => bad /\ shared
           /\ missing' = IF told THEN [missing EXCEPT ![h] = @ \union {s}] ELSE missing
           /\ excused' = IF bad /\ ~told THEN excused \union {<<s, h>>} ELSE excused
  /\ UNCHANGED <<control, checked, results, contexts, slots, fetches, path, copies, temps,
                 content, gc, enabled, synced, simple>>

CheckDone ==
  /\ pc = "check" /\ \A s \in Storages : checked[s] # "no"
  /\ IF \E s \in Storages : checked[s] = "ok"
       THEN /\ Goto("collect")
            /\ UNCHANGED <<checks, results, contexts, slots, fetches, path, copies, temps,
                           content, gc, enabled, history>>
       ELSE Fail

\* The map of missing files is read.
Collect ==
  /\ pc = "collect" /\ mode # "exist"
  /\ todo' = {h \in files : missing[h] # {}}
  /\ awaited' = Cardinality(todo')
  /\ Goto(IF todo' = {} THEN "index" ELSE "prepare")
  /\ UNCHANGED <<checks, broken, contexts, slots, fetches, path, copies, temps, content, gc,
                 enabled, history>>

\* A heavy check writes to the map while it is read: the Go runtime may stop the
\* program.
CollectRace ==
  /\ pc = "collect" /\ mode # "exist"
  /\ \E s \in Storages, h \in Hashes : <<s, h>> \in verifying /\ content[s][h] = "corrupt"
  /\ Goto("panic")
  /\ UNCHANGED <<checks, results, contexts, slots, fetches, path, copies, temps, content, gc,
                 enabled, history>>

\* GetConfig and CheckUpload; with a storage down, the sync waits a minute.
Prepare ==
  /\ pc = "prepare"
  /\ Goto("launch")
  /\ UNCHANGED <<checks, results, contexts, slots, fetches, path, copies, temps, content, gc,
                 enabled, history>>
-----------------------------------------------------------------------------
(* fetchFile *)

Take(h) == slots[roundOf[h]] > 0 /\ slots' = [slots EXCEPT ![roundOf[h]] = @ - 1]
Give(h) == slots' = [slots EXCEPT ![roundOf[h]] = @ + 1]

\* A slot is free: the goroutines of the next file are started.
Launch(h) ==
  /\ pc = "launch" /\ h \in todo
  /\ Take(h)
  /\ todo' = todo \ {h}
  /\ Goto(IF todo' = {} THEN "results" ELSE "launch")
  /\ Set(fetch, h, "run") /\ Set(copy, h, "await")
  /\ UNCHANGED <<checks, awaited, broken, contexts, tried, path, targets, failed, temps,
                 content, gc, enabled, history>>

FetchVars == <<control, checks, results, contexts, copies, content, gc, enabled>>

\* The file has its size and its hash.
FetchOk(h) ==
  /\ fetch[h] = "run"
  /\ Set(fetch, h, "end") /\ Set(path, h, "file")
  /\ temps' = temps \union {h}
  /\ UNCHANGED <<FetchVars, slots, tried, history>>

\* pathRes is closed with nothing in it.
NoFile(h) == Set(fetch, h, "end") /\ Set(path, h, "closed")

\* The request or the check of the file fails; after an interval it is retried.
FetchFails(h) ==
  /\ fetch[h] = "run"
  /\ IF tried[h] < MaxTries
       THEN Set(tried, h, tried[h] + 1) /\ UNCHANGED <<fetch, path, excused>>
       ELSE /\ NoFile(h) /\ UNCHANGED tried
            /\ excused' = excused \union (Storages \X {h})
  /\ UNCHANGED <<FetchVars, slots, temps, synced, simple>>

\* The round is over.  What is sent is the same as after a failure, and the
\* synchronizer may take it for a result before it notices the end.
FetchStops(h) ==
  /\ fetch[h] = "run" /\ Over(h)
  /\ NoFile(h)
  /\ excused' = excused \union (Storages \X {h})
  /\ UNCHANGED <<FetchVars, slots, tried, temps, synced, simple>>

\* The deferred free, after pathRes is closed.
FetchFrees(h) ==
  /\ fetch[h] = "end"
  /\ Set(fetch, h, "gone")
  /\ Give(h)
  /\ UNCHANGED <<FetchVars, tried, path, temps, history>>
-----------------------------------------------------------------------------
(* The goroutine of syncFiles that copies a file *)

CopyVars == <<control, checks, results, contexts, fetches, path, gc, enabled, synced, simple>>

CopyGets(h) ==
  /\ copy[h] = "await" /\ path[h] # "none"
  /\ Set(copy, h, IF path[h] = "file" THEN "alloc" ELSE "send")
  /\ UNCHANGED <<CopyVars, slots, targets, failed, temps, content, excused>>

\* The round is over.  A file that has arrived is left behind; the deferred
\* removal is only reached with the path in hand.
CopyStops(h) ==
  /\ copy[h] \in {"await", "alloc", "send"} /\ Over(h)
  /\ Set(copy, h, "gone")
  /\ temps' = IF copy[h] = "alloc" THEN temps \ {h} ELSE temps
  /\ UNCHANGED <<CopyVars, slots, targets, failed, content, excused>>

CopyBegins(h) ==
  /\ copy[h] = "alloc"
  /\ Take(h)
  /\ Set(copy, h, "copy") /\ Set(targets, h, missing[h])
  /\ UNCHANGED <<CopyVars, failed, temps, content, excused>>

\* The temporary file cannot be opened: the goroutine returns and sends nothing.
CopyLosesFile(h) ==
  /\ copy[h] = "copy" /\ targets[h] = missing[h] /\ failed[h] = {}
  /\ MayFail
  /\ Set(copy, h, "lost")
  /\ Give(h)
  /\ temps' = temps \ {h}
  /\ UNCHANGED <<CopyVars, targets, failed, content, excused>>

CopyTo(h, s) ==
  /\ copy[h] = "copy" /\ s \in targets[h]
  /\ Set(targets, h, targets[h] \ {s})
  /\ content' = [content EXCEPT ![s][h] = "whole"]
  /\ UNCHANGED <<CopyVars, slots, copy, failed, temps, excused>>

\* Create fails, and may leave a part of the file.
CopyRefused(h, s) ==
  /\ copy[h] = "copy" /\ s \in targets[h]
  /\ MayFail
  /\ Set(targets, h, targets[h] \ {s})
  /\ Set(failed, h, failed[h] \union {s})
  /\ content' = [content EXCEPT ![s][h] = "none"]
  /\ excused' = excused \union {<<s, h>>}
  /\ UNCHANGED <<CopyVars, slots, copy, temps>>

\* The file cannot be rewound for a storage, which is passed over in silence.
CopySkips(h, s) ==
  /\ copy[h] = "copy" /\ s \in targets[h]
  /\ MayFail
  /\ Set(targets, h, targets[h] \ {s})
  /\ excused' = excused \union {<<s, h>>}
  /\ UNCHANGED <<CopyVars, slots, copy, failed, temps, content>>

\* Mutant of CopyDone: the temporary file is left.
CopyForgets(h) ==
  /\ copy[h] = "copy" /\ targets[h] = {}
  /\ Set(copy, h, "send")
  /\ Give(h)
  /\ UNCHANGED <<CopyVars, targets, failed, temps, content, excused>>

\* Mutant of CopyDone: the slot is kept.
CopyKeepsSlot(h) ==
  /\ copy[h] = "copy" /\ targets[h] = {}
  /\ Set(copy, h, "send")
  /\ temps' = temps \ {h}
  /\ UNCHANGED <<CopyVars, slots, targets, failed, content, excused>>

\* The slot and the temporary file are given up before the result is sent.
CopyDone(h) ==
  /\ copy[h] = "copy" /\ targets[h] = {}
  /\ Set(copy, h, "send")
  /\ Give(h)
  /\ temps' = temps \ {h}
  /\ UNCHANGED <<CopyVars, targets, failed, content, excused>>

\* Mutant of AllReceived: one result is not waited for.
NearlyAllReceived(n) == n <= 1

AllReceived(n) == n = 0

\* A result, of this round: the storages that failed the file.
Receive(h) ==
  /\ pc = "results" /\ h \in files /\ copy[h] = "send"
  /\ broken \union failed[h] # Storages
  /\ Set(copy, h, "gone")
  /\ broken' = broken \union failed[h]
  /\ awaited' = awaited - 1
  /\ Goto(IF AllReceived(awaited') THEN "index" ELSE "results")
  /\ UNCHANGED <<checks, todo, contexts, slots, fetches, path, targets, failed, temps,
                 content, gc, enabled, history>>

\* Every storage has failed a file.
AllBroken(h) ==
  /\ pc = "results" /\ h \in files /\ copy[h] = "send"
  /\ broken \union failed[h] = Storages
  /\ Fail
-----------------------------------------------------------------------------
(* Gc, started when a sync succeeded and not waited for *)

GcVars == <<control, checks, results, contexts, slots, fetches, path, copies, temps,
            enabled, history>>

\* A file found in a storage is not in the file set, and no sync is running.
GcFinds(s, h) ==
  /\ gc.at = "walk"
  /\ ~issync /\ content[s][h] # "none" /\ h \notin fileset
  /\ gc' = [at |-> "remove", store |-> s, hash |-> h]
  /\ UNCHANGED <<GcVars, content>>

GcRemoves ==
  /\ gc.at = "remove"
  /\ content' = [content EXCEPT ![gc.store][gc.hash] = "none"]
  /\ gc' = [at |-> "walk"]
  /\ UNCHANGED GcVars

\* The walk ends, or finds that a sync is running.
GcEnds ==
  /\ gc.at = "walk"
  /\ gc' = NoGc
  /\ UNCHANGED <<GcVars, content>>
-----------------------------------------------------------------------------
Synchronizer ==
  \/ FirstList \/ FirstListFails \/ Tick \/ Begin \/ Index \/ IndexExisting \/ Interrupted
  \/ CheckDone \/ Collect \/ CollectRace \/ Prepare
  \/ \E s \in Storages : CheckStorage(s) \/ CheckFails(s)
  \/ \E h \in Hashes : Launch(h) \/ Receive(h) \/ AllBroken(h)

Fetch(h) == FetchOk(h) \/ FetchFails(h)

Goroutine(h) ==
  \/ FetchStops(h) \/ FetchFrees(h)
  \/ CopyGets(h) \/ CopyStops(h) \/ CopyBegins(h) \/ CopyLosesFile(h) \/ CopyDone(h)
  \/ \E s \in Storages : CopyTo(h, s) \/ CopyRefused(h, s) \/ CopySkips(h, s)

\* After a panic there is no program.
Next ==
  /\ pc # "panic"
  /\ \/ Synchronizer \/ EnableCluster \/ Stop
     \/ \E h \in Hashes : Fetch(h) \/ Goroutine(h) \/ \E s \in Storages : Verified(s, h)
     \/ GcRemoves \/ GcEnds \/ \E s \in Storages, h \in Hashes : GcFinds(s, h)

Spec == Init /\ [][Next]_vars

\* The synchronizer and the goroutines are scheduled.  Nothing is said of the
\* center: an HTTP request of fetchFile has no timeout.
Fairness ==
  /\ WF_vars(pc # "panic" /\ pc # "idle" /\ Synchronizer)
  /\ \A h \in Hashes :
       /\ WF_vars(pc # "panic" /\ Goroutine(h))
       /\ SF_vars(pc # "panic" /\ CopyBegins(h))
       /\ \A s \in Storages : WF_vars(pc # "panic" /\ Verified(s, h))

FairSpec == Spec /\ Fairness
-----------------------------------------------------------------------------
(* Properties *)

Places == {"start", "begin", "check", "collect", "prepare", "launch", "results", "index",
           "idle", "over", "panic"}

TypeOK ==
  /\ pc \in Places /\ mode \in {"first", "exist", "interval"}
  /\ round \in Rounds /\ files \subseteq listed /\ listed \subseteq Hashes
  /\ heavy \in BOOLEAN /\ checkCount \in Int
  /\ issync \in BOOLEAN /\ fileset \subseteq listed
  /\ content \in [Storages -> [Hashes -> {"none", "corrupt", "whole"}]]
  /\ checked \in [Storages -> {"no", "ok", "failed"}]
  /\ verifying \subseteq Storages \X Hashes
  /\ missing \in [Hashes -> SUBSET Storages]
  /\ todo \subseteq files /\ awaited \in Nat /\ broken \subseteq Storages
  /\ over \subseteq Rounds /\ slots \in [Rounds -> 0..Slots] /\ roundOf \in [Hashes -> Rounds]
  /\ fetch \in [Hashes -> {"none", "run", "end", "gone"}] /\ tried \in [Hashes -> 1..MaxTries]
  /\ path \in [Hashes -> {"none", "file", "closed"}]
  /\ copy \in [Hashes -> {"none", "await", "alloc", "copy", "send", "gone", "lost"}]
  /\ targets \in [Hashes -> SUBSET Storages] /\ failed \in [Hashes -> SUBSET Storages]
  /\ temps \subseteq Hashes
  /\ gc \in {NoGc, [at |-> "walk"]} \union [at : {"remove"}, store : Storages, hash : Hashes]
  /\ stopped \in BOOLEAN /\ enabled \in BOOLEAN /\ synced \in BOOLEAN
  /\ excused \subseteq Storages \X Hashes /\ simple \in Int

\* When a sync succeeds, every storage it could check and write to has every file
\* of the list: the sync neither misses a result nor returns before the last copy.
SyncedIsStored ==
  pc = "index" =>
    \A h \in files, s \in Storages :
      \/ <<s, h>> \in excused \union verifying
      \/ content[s][h] = "whole"
      \/ ~heavy /\ content[s][h] = "corrupt"

\* Every slot of a round is free or held by one goroutine.
SlotsConserved ==
  \A r \in Rounds :
    slots[r] + Cardinality({h \in Hashes : roundOf[h] = r /\ fetch[h] \in {"run", "end"}})
             + Cardinality({h \in Hashes : roundOf[h] = r /\ copy[h] = "copy"}) = Slots

\* A temporary file is removed, unless the round was cancelled as it arrived.
TempsRemoved ==
  \A h \in Hashes : h \in temps /\ copy[h] \in {"send", "gone", "lost"} => Over(h)

\* While the center and a storage answer, no sync runs forever: no goroutine waits
\* for a slot, or the synchronizer for a result, that never comes.  The exception
\* is a temporary file that is gone, whose goroutine says nothing.
SyncEnds ==
  (\A h \in Hashes : []<>(fetch[h] # "run"))
    => []<>(~issync \/ pc = "panic" \/ \E h \in Hashes : copy[h] = "lost")

\* Without a first sync, whichever storages could be listed, and in whatever order:
\* a file of the list is indexed if some storage has it, also one that could not be
\* listed, and only if some storage has it or could not be listed.
ExistingIsIndexed ==
  mode = "exist" /\ pc = "idle" =>
    \A h \in files :
      /\ (\E s \in Storages : content[s][h] # "none") => h \in fileset
      /\ h \in fileset =>
           \E s \in Storages : content[s][h] # "none" \/ <<s, h>> \in excused

\* lang/en/us.go, hint.sync.done: when a sync succeeds, all files were synchronized.
AllSynchronized ==
  pc = "index" => \A h \in files : \E s \in Storages : content[s][h] # "none"

\* lang/en/us.go, info.wait.first.sync: the cluster waits for the first sync before
\* it goes on.
EnabledAfterSync == enabled => synced

\* README.MD, heavy-check-interval: how many simple checks there are between two
\* checks of the hashes.
HeavySpacing ==
  [][pc = "idle" /\ pc' = "begin" /\ heavy' /\ simple >= 0 => simple = HeavyInterval]_vars
=============================================================================
