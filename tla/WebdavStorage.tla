---------------------------- MODULE WebdavStorage ----------------------------
(***************************************************************************)
(* WebDavStorage of storage/storage_webdav.go: the connection slots its       *)
(* operations share, the walk over its files, and its health.                 *)
(*                                                                           *)
(* The slots are those of the limited dialer.  Size, Open and ServeDownload   *)
(* hold one of their own, and so does each goroutine of a walk while it lists *)
(* a directory; so does every connection of the HTTP client, in use or idle.  *)
(* Stat, ReadDir, ReadStream, Mkdir and Remove use the WebDAV client, whose    *)
(* connections take none.                                                     *)
(*                                                                           *)
(* Left out: what is sent to the client, ranges, and CheckUpload, which uses   *)
(* neither the slots nor the flag.                                            *)
(***************************************************************************)
EXTENDS Semaphore, FiniteSets

CONSTANTS
  Requests,          \* goroutines that call the storage
  Checkers,          \* goroutines of health checks
  Hashes, Dirs,      \* files, and the directories a walk lists
  DirOf,             \* the directory of each file
  Walks,             \* calls of WalkDir
  Unsteady,          \* those whose walker may return an error
  MaxIdle,           \* idle connections the HTTP client keeps
  CacheLinks,        \* redirect-link-cache is set and follow-redirect is not
  Interval, MaxTime  \* ticks of checkInterval, and the bound on the clock

ASSUME DirsAssumption == DirOf \in [Hashes -> Dirs] /\ IsFiniteSet(Dirs)
ASSUME ThreadsAssumption ==
  IsFiniteSet(Requests) /\ IsFiniteSet(Checkers) /\ Requests \cap Checkers = {}
ASSUME WalksAssumption == IsFiniteSet(Walks) /\ Unsteady \subseteq Walks
ASSUME IdleAssumption == MaxIdle \in Nat
ASSUME LinksAssumption == CacheLinks \in BOOLEAN
ASSUME IntervalAssumption == Interval \in Nat /\ MaxTime \in Nat

Threads == Requests \cup Checkers

VARIABLES
  now,               \* in ticks longer than the timeout of a check
  working, lastCheck,\* 0 not working, 1 working, 2 being checked
  measured,          \* the measure file is in s.measures
  job,               \* what each goroutine does
  dial,              \* the connections the HTTP client dials for it
  idle,              \* idle connections
  links,             \* hashes with a cached redirect
  stored,            \* files of the server
  walk, lister       \* each call of WalkDir, and its goroutine for each directory

slotVars   == <<used, dial, idle>>
healthVars == <<working, lastCheck, measured>>
walkVars   == <<walk, lister>>
vars == <<slotVars, healthVars, walkVars, now, job, links, stored>>

\* For which connection a goroutine waits: its request's, or the one to put a measure file.
Waits == {"conn", "putConn"}
NoDial == [k \in Waits |-> "no"]

Ops == {"serve", "measure", "size", "open", "create"}

Stages == {"idle", "enter", "peek", "renew", "lock", "stat", "putConn", "put", "get", "serve",
           "slot", "ask", "conn", "busy", "last"}

Idle == [op |-> "none", stage |-> "idle", hash |-> "none", at |-> 0, saw |-> 0]

Init ==
  /\ used = 0 /\ idle = 0
  /\ now = Interval + 1
  /\ working = 1 /\ lastCheck = 0 /\ measured \in BOOLEAN
  /\ job = [t \in Threads |-> Idle]
  /\ dial = [t \in Threads |-> NoDial]
  /\ links \in IF CacheLinks THEN SUBSET Hashes ELSE {{}}   \* a cache in Redis outlives the program
  /\ stored \in SUBSET Hashes
  /\ walk = [w \in Walks |-> [stage |-> "none", count |-> 0, done |-> 0, seen |-> {}, kept |-> {}]]
  /\ lister = [w \in Walks |-> [d \in Dirs |-> [stage |-> "none", files |-> {}, skipped |-> FALSE]]]

-----------------------------------------------------------------------------
(* Steps of a goroutine. *)

At(t, stage) == job[t].stage = stage
Goes(t, stage) == job' = [job EXCEPT ![t].stage = stage]
Ends(t) == job' = [job EXCEPT ![t] = Idle]

\* Operations with the context of a request, which ends when the client has gone; the
\* others use context.TODO or none.
HasContext(t) == job[t].op \in {"serve", "measure"}

\* Operations that hold a slot of their own.
OwnsSlot(t) == job[t].op \in {"serve", "size", "open"} /\ job[t].stage \in {"conn", "busy", "last"}

\* Those with a connection of the HTTP client, and those that wait for one.
OnConn(t) == At(t, "put") \/ (At(t, "busy") /\ job[t].op \in {"serve", "measure", "create"})
Waiters == {t \in Threads : job[t].stage \in Waits}

\* The stage of a goroutine that gets its connection.
Connected(stage) == IF stage = "putConn" THEN "put" ELSE "busy"

\* http.Client.Do: takes an idle connection, or waits while one is dialled.  The dial of a
\* request has its context.
Connects(t, stage) ==
  IF idle > 0
  THEN Goes(t, Connected(stage)) /\ idle' = idle - 1 /\ UNCHANGED dial
  ELSE /\ Goes(t, stage) /\ UNCHANGED idle
       /\ dial' = [dial EXCEPT ![t][stage] = IF stage = "conn" /\ HasContext(t) THEN "bound" ELSE "waiting"]

\* A connection is free: a goroutine that waits has it, or it is kept.
Offers(jobs) ==
  /\ UNCHANGED used
  /\ IF Waiters = {} THEN job' = jobs /\ idle < MaxIdle /\ idle' = idle + 1
     ELSE \E t \in Waiters : job' = [jobs EXCEPT ![t].stage = Connected(@)] /\ UNCHANGED idle

\* Or it is closed: LimitedConn.Close.
Closes(jobs) == job' = jobs /\ Release /\ UNCHANGED idle

\* What becomes of the connection of a goroutine that is done with it.
Frees(jobs) == Offers(jobs) \/ Closes(jobs)

-----------------------------------------------------------------------------
(* Health: preServe and its checks. *)

\* A request takes the time, then looks at the flag.
Serve(t, h) ==
  /\ t \in Requests /\ At(t, "idle") /\ dial[t] = NoDial
  /\ job' = [job EXCEPT ![t] = [Idle EXCEPT !.op = "serve", !.stage = "enter", !.hash = h, !.at = now]]
  /\ UNCHANGED <<slotVars, healthVars, walkVars, now, links, stored>>

Look(t) ==
  /\ At(t, "enter")
  /\ \/ working = 1 /\ Goes(t, "peek") /\ UNCHANGED working
     \/ working = 0 /\ working' = 2 /\ Goes(t, "renew")
     \/ working # 1 /\ Ends(t) /\ UNCHANGED working    \* ErrNotWorking
  /\ UNCHANGED <<slotVars, lastCheck, measured, walkVars, now, links, stored>>

\* The storage works: serve, and have it checked when the last check is old.
Peek(t) ==
  /\ At(t, "peek")
  /\ IF job[t].at - lastCheck > Interval
     THEN \E c \in Checkers :
            /\ At(c, "idle") /\ dial[c] = NoDial
            /\ job' = [job EXCEPT ![t].stage = "serve",
                                  ![c] = [Idle EXCEPT !.op = "check", !.stage = "lock",
                                                      !.at = job[t].at, !.saw = lastCheck]]
     ELSE Goes(t, "serve")
  /\ UNCHANGED <<slotVars, healthVars, walkVars, now, links, stored>>

\* Mutant of Renew: a request that need not check leaves the flag as it is.
RenewLeavesFlag(t) ==
  /\ At(t, "renew")
  /\ IF job[t].at - lastCheck > Interval
     THEN lastCheck' = job[t].at /\ job' = [job EXCEPT ![t].stage = "stat", ![t].at = now]
     ELSE Ends(t) /\ UNCHANGED lastCheck
  /\ UNCHANGED <<slotVars, working, measured, walkVars, now, links, stored>>

\* It does not: check it now, unless that was done lately.  The time is kept: the check
\* is under way from here on.
Renew(t) ==
  /\ At(t, "renew")
  /\ IF job[t].at - lastCheck > Interval
     THEN /\ lastCheck' = job[t].at
          /\ job' = [job EXCEPT ![t].stage = "stat", ![t].at = now]
          /\ UNCHANGED working
     ELSE working' = 0 /\ Ends(t) /\ UNCHANGED lastCheck
  /\ UNCHANGED <<slotVars, measured, walkVars, now, links, stored>>

\* Mutant of Lock: does not look whether another check has begun.
LockAnyway(t) ==
  /\ At(t, "lock")
  /\ lastCheck' = job[t].at /\ job' = [job EXCEPT ![t].stage = "stat", ![t].at = now]
  /\ UNCHANGED <<slotVars, working, measured, walkVars, now, links, stored>>

\* The goroutine of a check: another may have begun one in the meantime.
Lock(t) ==
  /\ At(t, "lock")
  /\ IF lastCheck # job[t].saw
     THEN Ends(t) /\ UNCHANGED lastCheck
     ELSE lastCheck' = job[t].at /\ job' = [job EXCEPT ![t].stage = "stat", ![t].at = now]
  /\ UNCHANGED <<slotVars, working, measured, walkVars, now, links, stored>>

\* The check of a request, or of a goroutine of its own, has its result.
Checks(t) == t \in Checkers \/ job[t].op = "serve"
Verdict(t, ok) ==
  /\ working' = IF ok THEN 1 ELSE 0
  /\ IF ok /\ t \in Requests THEN Goes(t, "serve") ELSE Ends(t)

\* An error on the way to the measure file.
NoMeasure(t) == IF Checks(t) THEN Verdict(t, FALSE) ELSE Ends(t) /\ UNCHANGED working

\* The measure file is there: a check reads it back with the default client, ServeMeasure
\* asks for it with its own.
HasMeasure(t) == IF Checks(t) THEN "get" ELSE "ask"

\* createMeasureFile.
Stat(t) ==
  /\ At(t, "stat")
  /\ \/ Goes(t, HasMeasure(t)) /\ UNCHANGED <<working, dial, idle>>   \* known, or of the right size
     \/ ~measured /\ NoMeasure(t) /\ UNCHANGED <<dial, idle>>          \* the context is done
     \/ ~measured /\ Connects(t, "putConn") /\ UNCHANGED working
  /\ UNCHANGED <<used, lastCheck, measured, walkVars, now, links, stored>>

\* The file is put, or it is not.
Put(t) ==
  /\ At(t, "put")
  /\ \/ measured' = TRUE /\ Frees([job EXCEPT ![t].stage = HasMeasure(t)]) /\ UNCHANGED working
     \/ /\ Frees([job EXCEPT ![t] = Idle]) /\ UNCHANGED measured
        /\ working' = IF Checks(t) THEN 0 ELSE working
  /\ UNCHANGED <<dial, lastCheck, walkVars, now, links, stored>>

\* The answer to a check.  Its context ends within a tick, so a late one is an error.
Get(t) ==
  /\ At(t, "get")
  /\ \E ok \in BOOLEAN : (ok => job[t].at = now) /\ Verdict(t, ok)
  /\ UNCHANGED <<slotVars, lastCheck, measured, walkVars, now, links, stored>>

-----------------------------------------------------------------------------
(* Operations. *)

\* ServeDownload and what it does with a cached link.
ServeDownload(t) ==
  /\ At(t, "serve")
  /\ IF CacheLinks /\ job[t].hash \in links THEN Ends(t) ELSE Goes(t, "slot")
  /\ UNCHANGED <<slotVars, healthVars, walkVars, now, links, stored>>

\* The operations but ServeDownload, and where each begins.
Call(t, op, h) ==
  LET first == CASE op \in {"size", "open"} -> "slot" [] op = "measure" -> "stat" [] op = "create" -> "ask"
  IN  /\ t \in Requests /\ At(t, "idle") /\ dial[t] = NoDial
      /\ job' = [job EXCEPT ![t] = [Idle EXCEPT !.op = op, !.stage = first, !.hash = h]]
      /\ UNCHANGED <<slotVars, healthVars, walkVars, now, links, stored>>

TakeSlot(t) ==
  /\ At(t, "slot") /\ Acquire
  /\ IF job[t].op = "serve" THEN Connects(t, "conn") ELSE Goes(t, "busy") /\ UNCHANGED <<dial, idle>>
  /\ UNCHANGED <<healthVars, walkVars, now, links, stored>>

Ask(t) ==
  /\ At(t, "ask") /\ Connects(t, "conn")
  /\ UNCHANGED <<used, healthVars, walkVars, now, links, stored>>

\* Mutant of GiveUp: the slot is given back only by a request that had its answer.
GiveUpKeepsSlot(t) ==
  /\ HasContext(t) /\ (At(t, "slot") \/ At(t, "conn"))
  /\ Ends(t)
  /\ UNCHANGED <<slotVars, healthVars, walkVars, now, links, stored>>

\* The context of the request ends while it waits, for a slot or for a connection.
GiveUp(t) ==
  /\ HasContext(t) /\ (At(t, "slot") \/ At(t, "conn"))
  /\ IF OwnsSlot(t) THEN Release ELSE UNCHANGED used
  /\ Ends(t)
  /\ UNCHANGED <<dial, idle, healthVars, walkVars, now, links, stored>>

\* The work on a connection ends, well or not.
Answered(t) ==
  /\ At(t, "busy") /\ OnConn(t)
  /\ Frees([job EXCEPT ![t] = IF OwnsSlot(t) THEN [@ EXCEPT !.stage = "last"] ELSE Idle])
  /\ \/ UNCHANGED <<links, stored>>
     \/ job[t].op = "serve" /\ CacheLinks /\ links' = links \cup {job[t].hash} /\ UNCHANGED stored
     \/ job[t].op = "create" /\ stored' = stored \cup {job[t].hash} /\ UNCHANGED links
  /\ UNCHANGED <<dial, healthVars, walkVars, now>>

\* The slot of the operation is given back, last.
Leaves(t) ==
  /\ At(t, "last") \/ (At(t, "busy") /\ ~OnConn(t))
  /\ Release /\ Ends(t)
  /\ UNCHANGED <<dial, idle, healthVars, walkVars, now, links, stored>>

-----------------------------------------------------------------------------
(* Connections of the HTTP client. *)

Dialling(t, k, stage) == dial[t][k] = stage
DialGoes(t, k, stage) == dial' = [dial EXCEPT ![t][k] = stage]

\* DoWithContext of the dialer.
DialSlot(t, k) ==
  /\ dial[t][k] \in {"waiting", "bound"} /\ Acquire
  /\ DialGoes(t, k, "dialing")
  /\ UNCHANGED <<idle, healthVars, walkVars, now, job, links, stored>>

\* The context has ended before there was a slot.
DialDropped(t, k) ==
  /\ Dialling(t, k, "bound") /\ At(t, "idle")
  /\ DialGoes(t, k, "no")
  /\ UNCHANGED <<used, idle, healthVars, walkVars, now, job, links, stored>>

\* The goroutine may have got another connection in the meantime.
ConnDialled(t, k) ==
  /\ Dialling(t, k, "dialing") /\ DialGoes(t, k, "no")
  /\ IF At(t, k) THEN Goes(t, Connected(k)) /\ UNCHANGED <<used, idle>> ELSE Frees(job)
  /\ UNCHANGED <<healthVars, walkVars, now, links, stored>>

\* The error goes to the goroutine if it still waits.
DialFails(t, k) ==
  /\ Dialling(t, k, "dialing") /\ DialGoes(t, k, "no") /\ Release
  /\ IF ~At(t, k) THEN UNCHANGED <<working, job>>
     ELSE IF k = "putConn" THEN NoMeasure(t)
     ELSE (IF OwnsSlot(t) THEN Goes(t, "last") ELSE Ends(t)) /\ UNCHANGED working
  /\ UNCHANGED <<idle, lastCheck, measured, walkVars, now, links, stored>>

\* The server closes an idle connection.
IdleClosed ==
  /\ idle > 0 /\ idle' = idle - 1 /\ Release
  /\ UNCHANGED <<dial, healthVars, walkVars, now, job, links, stored>>

-----------------------------------------------------------------------------
(* WalkDir.  done is a channel with room for one entry per directory: it is filled   *)
(* when the goroutines are started, each takes one entry out when it has listed its   *)
(* directory, and the walk ends when it has put as many in again.                     *)

others == <<healthVars, now, job, links>>

Lists(w, d, l) == lister' = [lister EXCEPT ![w][d] = l]
Lister(w, d, stage) == lister[w][d].stage = stage
Step(w, d, stage) == Lists(w, d, [lister[w][d] EXCEPT !.stage = stage])

WalkDir(w) ==
  /\ walk[w].stage = "none"
  /\ walk' = [walk EXCEPT ![w].stage = "walking", ![w].count = Cardinality(Dirs),
                          ![w].done = Cardinality(Dirs), ![w].kept = stored]
  /\ lister' = [lister EXCEPT ![w] = [d \in Dirs |-> [@[d] EXCEPT !.stage = "slot"]]]
  /\ UNCHANGED <<slotVars, others, stored>>

ListerSlot(w, d) ==
  /\ Lister(w, d, "slot") /\ Acquire /\ Step(w, d, "list")
  /\ UNCHANGED <<dial, idle, walk, others, stored>>

\* ReadDir.  Its error is not told to anyone.
List(w, d) ==
  /\ Lister(w, d, "list")
  /\ \/ Lists(w, d, [stage |-> "send", files |-> {h \in stored : DirOf[h] = d}, skipped |-> FALSE])
     \/ Lists(w, d, [stage |-> "send", files |-> {}, skipped |-> TRUE])
  /\ UNCHANGED <<slotVars, walk, others, stored>>

\* The walk receives a file and calls the walker, whose error ends it.
Receive(w, d, h) ==
  /\ walk[w].stage = "walking" /\ Lister(w, d, "send") /\ h \in lister[w][d].files
  /\ Lists(w, d, [lister[w][d] EXCEPT !.files = @ \ {h}])
  /\ \/ walk' = [walk EXCEPT ![w].seen = @ \cup {h}]
     \/ w \in Unsteady /\ walk' = [walk EXCEPT ![w].stage = "givenUp"]
  /\ UNCHANGED <<slotVars, others, stored>>

\* Mutant of Listed: the entry is taken out when the directory is read.
ListedEarly(w, d) ==
  /\ Lister(w, d, "send")
  /\ walk[w].done > 0 /\ walk' = [walk EXCEPT ![w].done = @ - 1]
  /\ Step(w, d, "last")
  /\ UNCHANGED <<slotVars, others, stored>>

\* A goroutine has sent its files, and takes its entry out of done.
Listed(w, d) ==
  /\ Lister(w, d, "send") /\ lister[w][d].files = {}
  /\ walk[w].done > 0 /\ walk' = [walk EXCEPT ![w].done = @ - 1]
  /\ Step(w, d, "last")
  /\ UNCHANGED <<slotVars, others, stored>>

\* It gives its slot back after that.
ListerLeaves(w, d) ==
  /\ Lister(w, d, "last") /\ Release /\ Step(w, d, "none")
  /\ UNCHANGED <<dial, idle, walk, others, stored>>

\* The walk puts an entry in.
Count(w) ==
  /\ walk[w].stage = "walking" /\ walk[w].done < Cardinality(Dirs)
  /\ walk' = [walk EXCEPT ![w].done = @ + 1, ![w].count = @ - 1,
                          ![w].stage = IF walk[w].count = 1 THEN "ended" ELSE @]
  /\ UNCHANGED <<slotVars, lister, others, stored>>

-----------------------------------------------------------------------------
Remove(h) ==
  /\ h \in stored /\ stored' = stored \ {h}
  /\ walk' = [w \in Walks |-> [walk[w] EXCEPT !.kept = @ \ {h}]]
  /\ UNCHANGED <<slotVars, others, lister>>

LinkExpires(h) ==
  /\ h \in links /\ links' = links \ {h}
  /\ UNCHANGED <<slotVars, healthVars, walkVars, now, job, stored>>

Tick ==
  /\ now < MaxTime /\ now' = now + 1
  /\ UNCHANGED <<slotVars, healthVars, walkVars, job, links, stored>>

CheckSteps(t) == Look(t) \/ Peek(t) \/ Renew(t) \/ Lock(t) \/ Stat(t) \/ Put(t) \/ Get(t)
CallSteps(t) == ServeDownload(t) \/ Ask(t) \/ GiveUp(t) \/ Answered(t) \/ Leaves(t)
DialSteps(t, k) == DialDropped(t, k) \/ ConnDialled(t, k) \/ DialFails(t, k)
WalkSteps(w) ==
  \/ Count(w)
  \/ \E d \in Dirs : \/ List(w, d) \/ Listed(w, d) \/ ListerLeaves(w, d)
                     \/ \E h \in Hashes : Receive(w, d, h)

Next ==
  \/ \E t \in Threads :
       \/ \E h \in Hashes : Serve(t, h) \/ \E op \in Ops \ {"serve"} : Call(t, op, h)
       \/ CheckSteps(t) \/ CallSteps(t) \/ TakeSlot(t)
       \/ \E k \in Waits : DialSlot(t, k) \/ DialSteps(t, k)
  \/ \E w \in Walks : WalkDir(w) \/ WalkSteps(w) \/ \E d \in Dirs : ListerSlot(w, d)
  \/ \E h \in Hashes : Remove(h) \/ LinkExpires(h)
  \/ IdleClosed \/ Tick

Spec == Init /\ [][Next]_vars

-----------------------------------------------------------------------------
TypeOK ==
  /\ used \in 0 .. MaxConn /\ idle \in 0 .. MaxIdle
  /\ now \in Nat /\ working \in 0 .. 2 /\ lastCheck \in Nat /\ measured \in BOOLEAN
  /\ dial \in [Threads -> [Waits -> {"no", "waiting", "bound", "dialing"}]]
  /\ links \subseteq Hashes /\ stored \subseteq Hashes
  /\ job \in [Threads -> [op : Ops \cup {"none", "check"}, stage : Stages,
                         hash : Hashes \cup {"none"}, at : Nat, saw : Nat]]
  /\ walk \in [Walks -> [stage : {"none", "walking", "givenUp", "ended"}, count : Nat,
                        done : 0 .. Cardinality(Dirs), seen : SUBSET Hashes, kept : SUBSET Hashes]]
  /\ lister \in [Walks -> [Dirs -> [stage : {"none", "slot", "list", "send", "last"},
                                  files : SUBSET Hashes, skipped : BOOLEAN]]]

\* Every entry of the semaphore has one owner: an operation, a connection of the HTTP
\* client (in use, idle or being dialled) or a goroutine of a walk.  None is lost when a
\* client goes away between the two slots it needs (storage_webdav.go:429).
SlotsOwned ==
  MaxConn > 0 =>
    used = Cardinality({t \in Threads : OwnsSlot(t)}) + Cardinality({t \in Threads : OnConn(t)})
           + idle + Cardinality({p \in Threads \X Waits : dial[p[1]][p[2]] = "dialing"})
           + Cardinality({p \in Walks \X Dirs : lister[p[1]][p[2]].stage \in {"list", "send", "last"}})

\* A walk that returns nil has given its walker every file that was there all along, but
\* for directories that could not be listed, whichever goroutine came last, and no
\* goroutine of it keeps its slot (storage_webdav.go:309).
WalkIsComplete ==
  \A w \in Walks : walk[w].stage = "ended" =>
    /\ \A h \in walk[w].kept : h \in walk[w].seen \/ lister[w][DirOf[h]].skipped
    /\ \A d \in Dirs : lister[w][d].stage \in {"last", "none"}

\* The flag is left at "being checked" by no request: one of them is about to set it,
\* also when a late check sets it in between (storage_webdav.go:334).
BusyIsChecked ==
  working = 2 => \E t \in Requests :
    job[t].op = "serve" /\ job[t].stage \in {"renew", "stat", "putConn", "put", "get"}

\* However many requests find the last check old, the next begins a whole interval after
\* it (storage_webdav.go:360).
ChecksSpaced == [][lastCheck' # lastCheck => lastCheck' - lastCheck > Interval]_vars
=============================================================================
