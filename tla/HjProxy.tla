------------------------------- MODULE HjProxy -------------------------------
(***************************************************************************)
(* HjProxy of hijacker.go: the files of the program's own server that are      *)
(* kept in a local cache, and the index of the cache, which a timer writes to  *)
(* __cache.json a second after it was changed.                                *)
(*                                                                           *)
(* A file is as long as its answer was, or too short; the bytes are left out,   *)
(* and so are headers, and the files of file records, which are downloads.      *)
(***************************************************************************)
EXTENDS Integers

CONSTANTS
  Requests, Paths,
  RequireAuth, EnableLocalCache,   \* of the configuration
  Sizes, Ages,                     \* of answers, and how long they may be kept: 0 is not at all
  MaxClock, MaxRestarts, MaxTimers \* bounds, the last on timers at a time

VARIABLES
  clock, restarts,
  cache,       \* the index
  saved,       \* __cache.json: an index, or Torn
  disk,        \* length of each file
  req,         \* requests
  timer,       \* h.saveTimer is set
  armed,       \* that timer will fire
  strays,      \* timers that will fire and are in no variable any more
  called,      \* their functions that wait for the lock
  saving,      \* and those that have it, for reading
  failed       \* history: the last index written did not get there

timerVars == <<timer, armed, strays, called, saving>>
indexVars == <<cache, saved, failed>>
vars == <<clock, restarts, indexVars, disk, req, timerVars>>

None == [size |-> 0, expires |-> 0]
Empty == [p \in Paths |-> None]
Torn == [p \in Paths |-> [size |-> -1, expires |-> 0]]
Absent == -1
Short == 0
Idle == [stage |-> "idle", path |-> "none", at |-> 0, cached |-> None, size |-> 0, age |-> 0]

Init ==
  /\ clock = 1 /\ restarts = 0
  /\ cache = Empty /\ saved = Empty /\ failed = FALSE
  /\ disk = [p \in Paths |-> Absent]
  /\ req = [r \in Requests |-> Idle]
  /\ timer = FALSE /\ armed = FALSE /\ strays = 0 /\ called = 0 /\ saving = 0

-----------------------------------------------------------------------------
(* ServeHTTP. *)

At(r, stage) == req[r].stage = stage
Goes(r, stage) == req' = [req EXCEPT ![r].stage = stage]
Ends(r) == req' = [req EXCEPT ![r] = Idle]
Path(r) == req[r].path

\* A request with authentication gets no further, with a right password or a wrong one.
ServeHTTP(r, p) ==
  /\ At(r, "idle") /\ ~RequireAuth
  /\ req' = [req EXCEPT ![r] = [Idle EXCEPT !.stage = "look", !.path = p, !.at = clock]]
  /\ UNCHANGED <<clock, restarts, indexVars, disk, timerVars>>

GetCache(r) ==
  /\ At(r, "look")
  /\ req' = [req EXCEPT ![r].stage = "cached", ![r].cached = cache[Path(r)]]
  /\ UNCHANGED <<clock, restarts, indexVars, disk, timerVars>>

\* hjResponseWithCache has opened the file.
HasFile(r, force) ==
  /\ req[r].cached # None
  /\ force \/ req[r].cached.expires > clock
  /\ disk[Path(r)] = req[r].cached.size

FromCache(r) ==
  /\ \/ At(r, "cached") /\ Goes(r, IF HasFile(r, FALSE) THEN "reading" ELSE "remote")
     \/ At(r, "forced") /\ IF HasFile(r, TRUE) THEN Goes(r, "reading") ELSE Ends(r)
  /\ UNCHANGED <<clock, restarts, indexVars, disk, timerVars>>

\* The client has its answer, or has gone.
Answered(r) ==
  /\ At(r, "reading") /\ Ends(r)
  /\ UNCHANGED <<clock, restarts, indexVars, disk, timerVars>>

RemoteFails(r) ==
  /\ At(r, "remote") /\ Goes(r, "forced")
  /\ UNCHANGED <<clock, restarts, indexVars, disk, timerVars>>

\* The server answers.  What may be kept goes to a file first, if it can be opened.
RemoteAnswers(r, n, age) ==
  /\ At(r, "remote")
  /\ \/ req' = [req EXCEPT ![r].stage = "reading"] /\ UNCHANGED disk
     \/ /\ EnableLocalCache /\ age > 0
        /\ disk' = [disk EXCEPT ![Path(r)] = Short]
        /\ req' = [req EXCEPT ![r].stage = "copying", ![r].size = n, ![r].age = age]
  /\ UNCHANGED <<clock, restarts, indexVars, timerVars>>

\* Those that copy to a file another request removes go on with one that has no name.
Unnamed(r, q) == q # r /\ At(q, "copying") /\ Path(q) = Path(r)

Copied(r) ==
  /\ \/ At(r, "copying") /\ disk' = [disk EXCEPT ![Path(r)] = req[r].size]
     \/ At(r, "unnamed") /\ UNCHANGED disk
  /\ Goes(r, "copied")
  /\ UNCHANGED <<clock, restarts, indexVars, timerVars>>

CopyFails(r) ==
  /\ At(r, "copying") \/ At(r, "unnamed")
  /\ disk' = [disk EXCEPT ![Path(r)] = Absent]
  /\ req' = [q \in Requests |-> IF q = r THEN Idle
               ELSE IF Unnamed(r, q) THEN [req[q] EXCEPT !.stage = "unnamed"] ELSE req[q]]
  /\ UNCHANGED <<clock, restarts, indexVars, timerVars>>

-----------------------------------------------------------------------------
(* The index. *)

Entry(r) == [size |-> req[r].size, expires |-> req[r].at + req[r].age]

\* AfterFunc, or Reset.
StartTimer == timer' = TRUE /\ armed' = TRUE

\* Mutant of SetCache: only a path that is new is saved.
SetCacheOfNew(r) ==
  /\ At(r, "copied") /\ saving = 0 /\ strays + called < MaxTimers
  /\ cache' = [cache EXCEPT ![Path(r)] = Entry(r)]
  /\ IF cache[Path(r)] = None THEN StartTimer ELSE UNCHANGED <<timer, armed>>
  /\ Goes(r, "reading")
  /\ UNCHANGED <<clock, restarts, saved, failed, disk, strays, called, saving>>

SetCache(r) ==
  /\ At(r, "copied") /\ saving = 0 /\ strays + called < MaxTimers
  /\ cache' = [cache EXCEPT ![Path(r)] = Entry(r)]
  /\ StartTimer
  /\ Goes(r, "reading")
  /\ UNCHANGED <<clock, restarts, saved, failed, disk, strays, called, saving>>

Fire ==
  /\ \/ armed /\ armed' = FALSE /\ UNCHANGED strays
     \/ strays > 0 /\ strays' = strays - 1 /\ UNCHANGED armed
  /\ called' = called + 1
  /\ UNCHANGED <<clock, restarts, indexVars, disk, req, timer, saving>>

\* The timer's function has the lock.  It drops the variable's timer, whichever that is,
\* and saveCache truncates the file, if it can.
SaveBegins ==
  /\ called > 0 /\ called' = called - 1
  /\ timer' = FALSE /\ armed' = FALSE
  /\ strays' = strays + IF armed THEN 1 ELSE 0
  /\ \/ saving' = saving + 1 /\ saved' = Torn /\ UNCHANGED failed
     \/ failed' = TRUE /\ UNCHANGED <<saving, saved>>
  /\ UNCHANGED <<clock, restarts, cache, disk, req>>

SaveEnds ==
  /\ saving > 0 /\ saving' = saving - 1
  /\ \/ saved' = cache /\ failed' = FALSE
     \/ saved' = Torn /\ failed' = TRUE
  /\ UNCHANGED <<clock, restarts, cache, disk, req, timer, armed, strays, called>>

\* loadCache: an index that does not parse is none.
Loaded == IF saved = Torn THEN Empty ELSE saved

\* The process ends, anywhere, and starts again.
Restart ==
  /\ restarts < MaxRestarts /\ restarts' = restarts + 1
  /\ cache' = Loaded
  /\ req' = [r \in Requests |-> Idle]
  /\ timer' = FALSE /\ armed' = FALSE /\ strays' = 0 /\ called' = 0 /\ saving' = 0
  /\ failed' = FALSE
  /\ UNCHANGED <<clock, saved, disk>>

Tick == clock < MaxClock /\ clock' = clock + 1
        /\ UNCHANGED <<restarts, indexVars, disk, req, timerVars>>

Next ==
  \/ Tick \/ Fire \/ SaveBegins \/ SaveEnds \/ Restart
  \/ \E r \in Requests :
       \/ \E p \in Paths : ServeHTTP(r, p)
       \/ GetCache(r) \/ FromCache(r) \/ Answered(r) \/ RemoteFails(r)
       \/ \E n \in Sizes, age \in Ages : RemoteAnswers(r, n, age)
       \/ Copied(r) \/ CopyFails(r) \/ SetCache(r)

Spec == Init /\ [][Next]_vars

-----------------------------------------------------------------------------
\* Every change of the index gets to its file or is about to: if the two differ there is a
\* timer or a function of one on the way, whichever fired, was reset or dropped before, and
\* whoever changed the index while another waited for the lock; but for a write that failed,
\* which nobody repeats (hijacker.go:246).
NothingUnsaved ==
  Loaded # cache => armed \/ strays > 0 \/ called > 0 \/ saving > 0 \/ failed

(* Statements the code does not keep; see the README. *)
CachedIsWhole ==
  \A r \in Requests : At(r, "reading") /\ req[r].cached # None /\ req[r].size = 0 =>
    disk[Path(r)] = req[r].cached.size
=============================================================================
