------------------------------ MODULE StatsFile ------------------------------
(***************************************************************************)
(* The files of the statistics, notify/stat.go: Stats in memory, Save with   *)
(* writeFileWithOld, Load with parseFileOrOld, and a process that may stop   *)
(* between any two of their steps.                                           *)
(*                                                                          *)
(* One file (Main) has the totals, and one the part of each storage (Subs);  *)
(* each has an old copy.  Statistics are taken for the number of their hits. *)
(* Save holds the read lock of Stats from its first step to its last, so the *)
(* hits do not change meanwhile, but several calls may run together: a call  *)
(* keeps writing to the file it has opened when another call renames it.     *)
(***************************************************************************)
EXTENDS Integers, FiniteSets

CONSTANTS
  Savers,     \* calls of Save that may be running at the same time
  Main,       \* stat.json
  Subs,       \* stats/<storage>.json
  MaxCount    \* bound on the hits

ASSUME FilesAssumption == Main \notin Subs
ASSUME CountAssumption == MaxCount \in Nat

VARIABLES
  phase,      \* of the process: "down", "read", "repair" or "up"
  loading,    \* the file Load is at
  left,       \* the files it has still to load
  mem,        \* the hits in memory
  known,      \* the keys of s.subStat
  path, old,  \* the two copies of each file
  at,         \* the step a call of Save is at
  file,       \* the file it is writing
  todo,       \* the files it has yet to write
  fd,         \* the name its open file has
  failed      \* the files a write of whose first copy failed (history)

memory  == <<mem, known>>
disk    == <<path, old>>
savers  == <<at, file, todo, fd>>
statVars == <<phase, loading, left, memory, disk, savers, failed>>

Files  == {Main} \union Subs
Absent == -2
Torn   == -1
Parses(copy) == copy >= 0

\* No call of Save holds the read lock.
Unlocked == \A s \in Savers : at[s] = "idle"

StatsInit ==
  /\ phase = "up" /\ loading = Main /\ left = {}
  /\ mem = [f \in Files |-> 0] /\ known = {}
  /\ path = [f \in Files |-> Absent] /\ old = [f \in Files |-> Absent]
  /\ at = [s \in Savers |-> "idle"]
  /\ file = [s \in Savers |-> Main]
  /\ todo = [s \in Savers |-> {}]
  /\ fd = [s \in Savers |-> "none"]
  /\ failed = {}
-----------------------------------------------------------------------------
(* AddHits *)

\* A hit, served by the storage sub or (Main) by none.
Count(sub) ==
  /\ phase = "up" /\ Unlocked
  /\ \A f \in Files : mem[f] < MaxCount
  /\ mem' = [f \in Files |-> IF f \in {Main, sub} THEN mem[f] + 1 ELSE mem[f]]
  /\ known' = known \union ({sub} \ {Main})
  /\ UNCHANGED <<phase, loading, left, disk, savers, failed>>
-----------------------------------------------------------------------------
(* Save *)

\* Mutant of SaveBegin: the totals are one file among the others.
SaveInAnyOrder(s) ==
  /\ phase = "up"
  /\ at[s] = "idle"
  /\ at' = [at EXCEPT ![s] = "remove"]
  /\ \E f \in {Main} \union known :
       /\ file' = [file EXCEPT ![s] = f]
       /\ todo' = [todo EXCEPT ![s] = ({Main} \union known) \ {f}]
  /\ UNCHANGED <<phase, loading, left, memory, disk, fd, failed>>

SaveBegin(s) ==
  /\ phase = "up"
  /\ at[s] = "idle"
  /\ at' = [at EXCEPT ![s] = "remove"]
  /\ file' = [file EXCEPT ![s] = Main]
  /\ todo' = [todo EXCEPT ![s] = known]
  /\ UNCHANGED <<phase, loading, left, memory, disk, fd, failed>>

\* What becomes of the files other calls have open when names change.
Relink(s, from, to) ==
  fd' = [t \in Savers |-> IF t # s /\ file[t] = file[s] /\ fd[t] = from THEN to ELSE fd[t]]

Remove(s) ==
  /\ at[s] = "remove"
  /\ old' = [old EXCEPT ![file[s]] = Absent]
  /\ Relink(s, "old", "gone")
  /\ at' = [at EXCEPT ![s] = "rename"]
  /\ UNCHANGED <<phase, loading, left, memory, path, file, todo, failed>>

\* Mutant of Rename: the first copy is left where it is.
RenameLeftOut(s) ==
  /\ at[s] = "rename"
  /\ at' = [at EXCEPT ![s] = "open"]
  /\ UNCHANGED <<phase, loading, left, memory, disk, file, todo, fd, failed>>

\* A first copy that does not exist is not an error.
Rename(s) ==
  /\ at[s] = "rename"
  /\ IF path[file[s]] = Absent
       THEN UNCHANGED <<disk, fd>>
       ELSE /\ old' = [old EXCEPT ![file[s]] = path[file[s]]]
            /\ path' = [path EXCEPT ![file[s]] = Absent]
            /\ fd' = [t \in Savers |->
                 IF t = s \/ file[t] # file[s] THEN fd[t]
                 ELSE IF fd[t] = "path" THEN "old"
                 ELSE IF fd[t] = "old" THEN "gone" ELSE fd[t]]
  /\ at' = [at EXCEPT ![s] = "open"]
  /\ UNCHANGED <<phase, loading, left, memory, file, todo, failed>>

\* os.WriteFile truncates the file before it writes.
Open(s) ==
  /\ at[s] = "open"
  /\ path' = [path EXCEPT ![file[s]] = Torn]
  /\ fd' = [fd EXCEPT ![s] = "path"]
  /\ at' = [at EXCEPT ![s] = "write"]
  /\ UNCHANGED <<phase, loading, left, memory, old, file, todo, failed>>

\* The whole content goes to the open file, under whatever name it has now.
Fill(s) ==
  /\ path' = IF fd[s] = "path" THEN [path EXCEPT ![file[s]] = mem[file[s]]] ELSE path
  /\ old' = IF fd[s] = "old" THEN [old EXCEPT ![file[s]] = mem[file[s]]] ELSE old
  /\ fd' = [fd EXCEPT ![s] = "none"]

Write(s) ==
  /\ at[s] = "write"
  /\ Fill(s)
  /\ at' = [at EXCEPT ![s] = "openOld"]
  /\ UNCHANGED <<phase, loading, left, memory, file, todo, failed>>

OpenOld(s) ==
  /\ at[s] = "openOld"
  /\ old' = [old EXCEPT ![file[s]] = Torn]
  /\ fd' = [fd EXCEPT ![s] = "old"]
  /\ at' = [at EXCEPT ![s] = "writeOld"]
  /\ UNCHANGED <<phase, loading, left, memory, path, file, todo, failed>>

Close(s) ==
  /\ at' = [at EXCEPT ![s] = "idle"]
  /\ file' = [file EXCEPT ![s] = Main]
  /\ todo' = [todo EXCEPT ![s] = {}]

\* The file is done: the next one, if there is one.
WriteOld(s) ==
  /\ at[s] = "writeOld"
  /\ Fill(s)
  /\ IF todo[s] = {}
       THEN Close(s)
       ELSE \E f \in todo[s] :
              /\ at' = [at EXCEPT ![s] = "remove"]
              /\ file' = [file EXCEPT ![s] = f]
              /\ todo' = [todo EXCEPT ![s] = @ \ {f}]
  /\ UNCHANGED <<phase, loading, left, memory, failed>>

\* Any of the calls returns an error: Save gives up, the other files too.
SaveFails(s) ==
  /\ at[s] # "idle"
  /\ Close(s)
  /\ fd' = [fd EXCEPT ![s] = "none"]
  /\ failed' = IF at[s] \in {"open", "write"} THEN failed \union {file[s]} ELSE failed
  /\ UNCHANGED <<phase, loading, left, memory, disk>>

Save(s) ==
  \/ Remove(s) \/ Rename(s) \/ Open(s) \/ Write(s) \/ OpenOld(s) \/ WriteOld(s)
  \/ SaveFails(s)
-----------------------------------------------------------------------------
(* The process ends, and starts again with Load *)

Crash ==
  /\ phase' = "down" /\ loading' = Main /\ left' = {}
  /\ mem' = [f \in Files |-> 0] /\ known' = {}
  /\ at' = [s \in Savers |-> "idle"]
  /\ file' = [s \in Savers |-> Main] /\ todo' = [s \in Savers |-> {}]
  /\ fd' = [s \in Savers |-> "none"]
  /\ UNCHANGED <<disk, failed>>

Start ==
  /\ phase = "down"
  /\ phase' = "read" /\ loading' = Main
  /\ UNCHANGED <<left, memory, disk, savers, failed>>

\* The directory is listed once Main has been read: it has the storages whose
\* first copy exists.
Rest == IF loading = Main THEN {f \in Subs : path[f] # Absent} ELSE left

NextFile ==
  IF Rest = {}
    THEN phase' = "up" /\ loading' = Main /\ left' = {}
    ELSE /\ phase' = "read"
         /\ \E f \in Rest : loading' = f /\ left' = Rest \ {f}

Loaded(count) ==
  /\ mem' = [mem EXCEPT ![loading] = count]
  /\ known' = known \union ({loading} \ {Main})

ReadFirst ==
  /\ phase = "read" /\ Parses(path[loading])
  /\ Loaded(path[loading])
  /\ NextFile
  /\ UNCHANGED <<disk, savers, failed>>

\* The old copy is read, and put back in two steps.
ReadOld ==
  /\ phase = "read" /\ ~Parses(path[loading]) /\ Parses(old[loading])
  /\ Loaded(old[loading])
  /\ path' = [path EXCEPT ![loading] = Torn]
  /\ phase' = "repair"
  /\ UNCHANGED <<loading, left, old, savers, failed>>

PutBack ==
  /\ phase = "repair"
  /\ path' = [path EXCEPT ![loading] = mem[loading]]
  /\ NextFile
  /\ UNCHANGED <<memory, old, savers, failed>>

\* The error of os.WriteFile is ignored.
PutBackFails ==
  /\ phase = "repair"
  /\ failed' = failed \union {loading}
  /\ NextFile
  /\ UNCHANGED <<memory, disk, savers>>

ReadNothing ==
  /\ phase = "read" /\ path[loading] = Absent /\ old[loading] = Absent
  /\ Loaded(0)
  /\ NextFile
  /\ UNCHANGED <<disk, savers, failed>>

\* Load returns an error, and the process goes on with what it has loaded.
LoadFails ==
  /\ phase = "read" /\ ~Parses(path[loading]) /\ ~Parses(old[loading])
  /\ Torn \in {path[loading], old[loading]}
  /\ phase' = "up" /\ loading' = Main /\ left' = {}
  /\ UNCHANGED <<memory, disk, savers, failed>>

Load == ReadFirst \/ ReadOld \/ PutBack \/ PutBackFails \/ ReadNothing \/ LoadFails

StatsNext ==
  \/ \E f \in Files : Count(f)
  \/ \E s \in Savers : SaveBegin(s) \/ Save(s)
  \/ Crash \/ Start \/ Load

StatsSpec == StatsInit /\ [][StatsNext]_statVars
-----------------------------------------------------------------------------
(* Properties *)

Steps == {"idle", "remove", "rename", "open", "write", "openOld", "writeOld"}
Copies == {Absent, Torn} \union Nat

StatsTypeOK ==
  /\ phase \in {"down", "read", "repair", "up"}
  /\ loading \in Files /\ left \subseteq Subs
  /\ mem \in [Files -> Nat] /\ known \subseteq Subs
  /\ path \in [Files -> Copies] /\ old \in [Files -> Copies]
  /\ at \in [Savers -> Steps]
  /\ file \in [Savers -> Files]
  /\ todo \in [Savers -> SUBSET Subs]
  /\ fd \in [Savers -> {"none", "path", "old", "gone"}]
  /\ failed \subseteq Files

\* What Load finds of a file.
Recovered(f) ==
  IF Parses(path[f]) THEN path[f]
  ELSE IF Parses(old[f]) /\ (f = Main \/ path[f] # Absent) THEN old[f]
  ELSE 0

\* The totals on disk never go back: wherever the process stops in Save or in
\* Load, and however often, the next Load finds no less than the last would have.
\* Only a failed write of the first copy can undo that: the next save then
\* removes the copy that was good.
TotalsNeverGoBack ==
  [][Recovered(Main)' >= Recovered(Main) \/ Main \in failed']_statVars

\* The files are written one after the other and read together: no storage has
\* more hits than there are in total, on disk and in memory.
NoMoreThanTotal ==
  Main \notin failed =>
    \A f \in Subs : mem[f] <= mem[Main] /\ Recovered(f) <= Recovered(Main)
=============================================================================
