# Verification of go-openbmclapi

TLA+ models of the cluster node of OpenBMCLAPI (the Go edition), their model-checking
instances for TLC, and proofs checked by TLAPS. The reference is the code under `src/`;
`PROJECT.json` names, for each definition, the lines it stands for.

Contents: [the system](#the-system), [the modules](#the-modules), [runs](#runs),
[bounds](#bounds), [fairness](#fairness), [proofs](#proofs), [findings](#findings),
[left out](#what-is-left-out), [plan](#plan).

## The system

A node connects to the central server over socket.io, synchronises the server's file list
into its storages, announces that it is on line, keeps that alive, and serves files over
HTTP until it is told to stop. Everything runs in one process; the goroutines are started
by `main.go`, by callbacks of the socket, by requests and by timers.

| component (source) | state | operations | hard behaviours | what makes it correct |
|---|---|---|---|---|
| Life cycle (`cluster.go`, `main.go`, `util.go`) | `mux`, `enabled`, `shouldEnable`, the channel `disabled`, `waitEnable`, `socket`, `reconnectCount`, `cancelKeepalive` | `Connect`, `Enable`, `Disable`, `disable`, `disconnected`, `KeepAlive`, `WaitForEnable`, `Disabled` | callbacks and atomics beside the lock; drops during a call; late `disconnected`; shutdown during anything | an enabled cluster is kept alive; a channel is closed once; no wake-up lost; a shutdown ends; it comes back or exits |
| Download on demand (`sync.go`, `handler.go`) | `downloading`, `bufSlots`, `fileset`, an item with `done` and `err` for each flight | `DownloadFile`, `lockDownloading`, `fetchFileWithBuf` | double-checked lock, waiters, cancellation by the cluster's end, deferred calls in order | one fetch per hash; everybody answered; the index only names what is stored; no buffer lost |
| Synchronizer (`sync.go`, `main.go`) | `issync`, `fileset`, `lastMod`, `checkCount`, slots and results of a round | `InitSynchronizer`, `SyncFiles`, `CheckFiles`, `syncFiles`, `fetchFile`, `SetFilesetByExists`, `Gc` | goroutines that outlive a round, retries, storages that fail one by one, a collector beside the next round | what a sync reports as done is stored; slots and temporary files come back; a sync ends |
| API rate limit (`limited/api_rate.go`) | counters of each client by minute and hour, `cleanCount` | `try`, `release`, `clean`, `ServeMiddle` | counters found under a lock and added to without it; a window ends in between; giving back late | no more than the limit in a window; the counters are exact |
| Slots, semaphores (`limited/util.go`) | a channel of tokens | `Alloc`, `Acquire`, `Release`, `Wait` | tokens lost on error paths | conserved |
| Rate control (`limited/limited_conn.go`) | budgets of reads and writes in the current second, deadlines, a semaphore | `preRead`, `afterRead`, `preWrite`, `Read`, `Write`, `readFrom`, `DoWithContext`, `Close` | many connections on one budget; integer division; unread bytes given back; close during acquire | the rate is kept; permits conserved |
| Handlers (`handler.go`, `utils/http.go`) | record aggregator | `handleDownload`, `handleMeasure`, middlewares | records dropped when the channel is full; a table that others clear | accesses belong to their month |
| Statistics (`notify/stat.go`) | counters by hour, day, month, year, with the previous period; files with an old copy | `update`, `AddHits`, `Save`, `Load` | roll-over across skipped periods; crash while writing; two saves at once | no hit lost or counted twice; some copy always parses |
| Notifications (`notify/`) | plugins, time of the next report, what each plugin sends | `OnEnabled`, `OnReportStatus`, `sendMessageIf` | sending takes long and writes back what was read before; a keep-alive each minute asks again | reports keep their distance; a subscription is its client's |
| Storages (`storage/`) | health of mount and WebDAV storages, a dialer's slots, cached links | `Create`, `Remove`, `WalkDir`, `ServeDownload`, `ServeMeasure`, `preServe`, `checkAlive` | checks that overlap, a walk that is given up, two slots for one request | checks are spaced and never stranded; slots come back; a walk is complete |
| Token (`token.go`) | `authToken` with its expiry | `GetAuthToken`, `fetchToken`, `refreshToken` | double-checked fetch and a refresh in the background | a live token is not replaced |
| TLS and HTTP on one port (`http_listener.go`) | `accepting`, two channels of one | `Accept`, `accepter`, `Close` | accepters that start each other | one in `Accept`; every connection delivered |
| Hijacker (`hijacker.go`) | `cache`, `saveTimer`, the files and `__cache.json` | `ServeHTTP`, `setCache`, `getCache`, `saveCache`, `loadCache` | timer against setter; crash while saving | the last change is saved |
| Database (`database/`) | tokens, subscriptions, mails, webhooks, file records | by key and `ForEach*` | two implementations of one interface; a transaction of several commands that may fail | both are the same map |
| Caches (`cache/`) | keys with an expiry | `Get`, `Set`, `Delete` | expiry | plain map |
| Dashboard API (`api.go`, `api_token.go`, `dashboard.go`) | challenges, tokens, the database | log in, log out, subscriptions, mails, webhooks | a request authenticated before a log out; an error not looked at; restarts | a log out is final |

The remaining parts (configuration, logging, commands, update checker, utilities, front end
and packaging) keep no state that another component depends on; `PROJECT.json` lists them
with the reason.

How they meet: `main.go` connects the cluster and starts the synchronizer; the first end of
the synchronizer enables the cluster. The synchronizer and the downloads share the storages
and the file set. A download takes its end from the cluster's presence (`Disabled`,
`WaitForEnable`), and a download that finds every storage down disables the cluster and ends
the process. The keep-alive reports the statistics, saves them, and asks the notifications for the daily
report; these read and write subscriptions in the database, as the requests of the dashboard do. Requests pass
through the rate limit first. Everything the node asks of the central server carries the cluster's token.

## The modules

### Presence

What the rest of the program may assume of `Enabled`, `Disabled()` and `WaitForEnable()`:
`on` is the flag, `generation` the channel `cr.disabled` made by the latest `Enable`,
`ended` the channels closed. A generation may *lapse*: `disconnected` clears the flag and
closes nothing. `ClusterLifecycle` implements it (`ImplementsPresence`, checked and proved);
`Download` uses it as its environment, so the two are composed through it.

### ClusterLifecycle

Threads are goroutines with a program counter `pc`: the start-up of `main.go`, the shutdown
that `DoSignals` starts, a request that found all storages down, one keep-alive job for each
successful `Enable`, one `OnConnect` callback for each socket. `mux` is `cr.mux` and names
its holder. A method is one step when it does not wait for the network with the lock held,
otherwise one before and one after each wait (`EnableEmit` and `EnableAcked` or `EnableRefused`, `DisableEmit` and
`DisableDone`; for `Connect`, `ConnectAsk` up to `GetAuthToken`, `ConnectTurn` when `authTokenMux` is had, `ConnectNoToken` or
`ConnectDial` when the center has answered, `ConnectDone`); what the callbacks do without the lock
(`Lost`, `Redial`, `NamespaceOpen`, and `NamespaceNoToken` when the socket's own request for a token fails) interleaves with all of it. `go cr.disconnected()` is a count
of `pending` calls. `Exit` is `osExit`: it unlocks on the way (the deferred calls run) and
ends the process unless a shutdown is waiting. `Crash` is a nil socket. The socket.io
library is external; where its behaviour is not known from `src/` (does a lost engine also
call the socket's callback, does `Close` call it) both are explored
(`NamespaceCallback`, `CloseCallback`).

### Download

`Lookup`, `Peek`, `LockJoin`, `LockLead`, `EnterSelect` are the steps of a request in
`handleDownload`, `lockDownloading` and the final select of `DownloadFile`. A request comes once, for the file that
`Asked` says, and leaves; `Rest` is the end of all. `Start` to `Forget` are
those of the goroutine that fetches: a buffer, the token (`TokenTurn` is its turn at `authTokenMux`, a wait that the context does not end), the fetch, the
copies, up to its deferred calls in their order (`Publish`
gives the buffer back and closes `item.done`; `Forget` deletes it from `cr.downloading`
later, as in the code). `Look`, `Subscribe` and `Cancel` are the second goroutine, which
cancels the context. Writing an object is two steps: `Create` truncates before it
writes. `Gc` looks an object up and removes it in another step. `NewItem` takes any item that nobody
holds any more, as Go's allocator and collector would, so the number of items bounds nothing but
simultaneous ones.

### LimitSet

A counter object is identified by the window it was made in and its client: `min[r]` and
`hour[r]` are the pointers a request has found, `tagMin`, `tagHour` its `cleanId`.
`Look` and `LockHour`, `LockMin` are the parts of `try` under the lock, `AddHour`, `AddMin`,
`UndoHour`, `UndoMinHour`, `UndoMin` the atomic additions outside it, `Release` is `release`, `Clean` a tick
of `clean`. `keptMin`, `keptHour` are history: requests of the current window that were admitted and not
given back. `limit` is what the configuration says: both limits, one or none (`Limits` are those a run looks at).

### Sync

`pc` is the synchronizer's goroutine (`InitSynchronizer`, and in it `SyncFiles`,
`CheckFiles`, `syncFiles`). Each file of a round has two goroutines, `fetch` (`fetchFile`, with
its retries) and `copy` (the one that gives the result), which may outlive the round.
`content` is what each storage holds of each file, `missing` the `missingMap`, `verifying`
the heavy checks nobody waits for. `SkipFirstSync` is a set, so that one instance has both ways to start. A storage that the temporary file cannot
be rewound for is passed over in silence (`CopySkips`). `Gc` runs beside. `excused` is history: the pairs the code
reported as failed, or could not learn of. A panic ends everything (`pc = "panic"`): division by a zero
interval, and a map read while a heavy check writes it.

### StatsFile

`path` and `old` are the two copies of each file, as the number of hits in them, `Torn` or
`Absent`; `mem` is `Stats` in memory. A call of `Save` goes through `Remove`, `Rename`, `Open`
(which truncates), `Write`, `OpenOld`, `WriteOld` for one file after the other
(`writeFileWithOld`), and may fail at any of them (`SaveFails`). `Crash` may come between any two;
then `Load` (`ReadFirst`, `ReadOld`, `PutBack`, `ReadNothing`, `LoadFails`) reads what is left, and may be
interrupted too. Several calls of `Save` may run (they share a read lock): `fd` is the name an open file has by now.
`failed` is history: the files a write of whose first copy failed.

### HitReport

Extends StatsFile: `hits`, `lastHits`, `statOnlyHits` are the counters of `Stats` and `Cluster`;
a request is `AddHits`, `CountHit`, `AddStatOnly`, a call of `KeepAlive` is `ReadHits` to `SettleOnly` with the
packet, the save and the answer in the middle. `served` and `acked` are history.

### ServeListener

Goroutines running `accepter` that have no connection are alike and are counted by where they are (`trying`,
`acquiring`, `inAccept`, `failed`, `failing`); one that has a connection is the place of that connection
(`conn`), up to the channel (`queued`) and the server (`served`); in `spins` it is one whose head has filled the buffer
(`HeadFills`), which reads nothing for ever. `CallAccept`, `Block`, `TakeConn` and
`TakeError` are `Accept`: a server blocked in its select gets what is sent past the channel, so
only before that can `Close` drain it. `permits` is the semaphore of the `LimitedListener` below, `limited` says which connection has not given
its permit back. `Close` has four steps, and is called by the server's shutdown and by the `defer` of `main.go`.

### StatPeriods

`update` of the statistics: the tables of hours, days, months and years, and those of the day, month and year
before. `Update(t)` is the first hit at `t` after the last one, `AtNewYear`, `AtNewMonth`, `AtNewDay` the branches
of `update` in their order, which move a finished period up as a sum and clear what was skipped. `log` is history: every hit by its date,
against which `HoursExact` to `YearsExact` define what each table should hold. The calendar is a parameter.
`AddAccesses` is the ticker of `getRecordMiddleWare`, which fills the table `update` clears.

### Semaphore, RateController

`Semaphore` is `limited.Semaphore`: the number of entries in a channel (`SlotsTaken` is its `Len`). `RateController` is the
budget of a limited dialer or listener. `reads` and `writes` are the counters of the current second; a call of a stream is a
record in `reader` or `writer` with its stage: `PreRead` takes a share (rate over open connections), the read itself returns at
most that, `AfterRead` gives the rest back and says how long to sleep; `PreWrite` grants a part and the time to wait
before it. `Copies` are the ways `ReadFrom` can go, chunk by chunk or around the limit. `SetDeadline` wakes
who sleeps. `got` and `sent` are history: bytes since the window began.

### WebdavStorage

One semaphore (`used`) serves operations, the connections of the HTTP client and the goroutines of a walk.
`job[t]` is where the goroutine of a request or of a check is: `Look`, `Peek`, `Renew`, `Lock` are `preServe` up to each
access to the flag or under the lock, `Stat`, `Put`, `Get` are `createMeasureFile` and `checkAlive`,
`TakeSlot` to `Leaves` the operations. `dial` is what the HTTP client dials on behalf of whom: the connection goes to any who wait, and
the dial outlives a request that leaves, so request and dial are separate. `WalkDir`, `ListerSlot`, `List`, `Receive`,
`Listed`, `Count` are a walk and its goroutines with the channels `done` and `fileCh`. The
HTTP transport is external, modelled from how the storage depends on it.

### Records, MemoryDB, SqlDB, RecordMap, Database

`Records` are the tables. `MemoryDB` and `SqlDB` give for each call of the interface `DB` the set of its outcomes: tables
after it, error, and whether it was a fault of the database. `SqlDB` is written from its statements: an `UPDATE` of no row, a conflict of an `INSERT`, the
transaction of `SetSubscribe` whose commands may fail one by one. `Database` picks the driver. `RecordMap` is
the abstract map that `db.go` promises: an operation touches the row it names, and what it answers is what the table says; a
set without an error has made or replaced its row. A set of a subscription without an endpoint is an update, as both databases take it. `Dashboard`
implements the map with either driver (`ImplementsRecordMap`), but for one operation: `FileRecordLost` names the step in
which an SQL database answers a new file record and does not make it (`sql.go:424`).

### Reports, Dashboard

`Reports` is `Manager.OnReportStatus` with the Web Push and e-mail plugins: `OnReportStatus` takes the subscriptions
that are ready, `EndSends` has the answers of the push service, `RemoveOutdated` and `WriteSent` change the rows afterwards, one
at a time. `ReadySince` is the schedule's rule. `Dashboard` adds the API: a request is let in (`Authenticate`) in
one step and handled in another, with a step for each handler that reads or writes the database; `Login` from
a challenge, `Logout`; the update of the file records in its goroutines; `Restart` anywhere. `pushed`,
`mailed`, `ended` are history: the last report to whom, and the tokens a log out removed.

### HjProxy, ClusterToken

`HjProxy` is `ServeHTTP` with its local cache: the look-up, the answer of the server, the copy to a file that others may truncate or remove, `setCache`, and
the timers: `armed` is the timer in `h.saveTimer`, `strays` those that will fire and are in no variable any more, `called` the
functions that wait for the lock, `saving` those that write. `ClusterToken` is `GetAuthToken` with the fetch under the lock and the refresh beside it.


### Statistics

Puts HitReport beside an instance of StatPeriods (`Periods!`), with the assumption on the calendar: at least one hour,
month and day of each month, and no year 0. `MCHitReport` runs them and `HitReportProofs` proves them.

### Services

Puts LimitSet beside instances of HjProxy, ClusterToken and RateController (`Hijack!`, `Token!`, `Rates!`), which
have no state in common, with the assumptions on their constants. `MCServices` runs them and
`ServicesProofs` proves them, so both speak of the same definitions.

### Compositions for TLC

Some `MC` modules put modules that have no state in common into one state machine as scenarios, one of which is chosen at the
start, so that their state spaces add up: `MCServices` (the modules of Services) and `MCHitReport` (HitReport and StatPeriods, put together in Statistics). Scenarios of `MCDashboard` and `MCWebdav`
also leave out steps of other components' tables: `sessions` keeps the clock, `reports` allows one
session, `slots` and `walks` keep the clock still, and so on; each definition is one line there.

## Runs

| run | question | instance | distinct states |
|---|---|---|---|
| `lifecycle_faults` | is an enabled cluster kept alive, is `disable` safe, is no wake-up lost, is Presence implemented | one fault of any kind, every behaviour of the library, one user of `WaitForEnable` | 2.1 million |
| `lifecycle_calm` | no connection is lost: ends are announced, one interval lives, a shutdown ends, a bad keep-alive leads back or out once the token is there | one fault, a center that may owe the token for ever, fairness | 37 thousand |
| `download_flight` | single flight, index before serving, index against storages, the pool of buffers | three requests, one hash, two items, two storages, one buffer, the collector | 5.4 million |
| `download_end` | who joined a download is released unless nothing has to end; the end of a generation stops the fetch, whatever has begun since | two requests for one or two files, two items, one buffer, generations that end and begin, fairness | 0.5 million |
| `services` | no more than the minute's limit is served, with a limit of the hour or none; the counters of minute and hour are exact; a window of the byte limit is kept; every change of the hijacker's index gets to its file; live tokens are not replaced | three requests and two cleans under limits of 1 and 2, or of 2 and none; two streams that read, write or have deadlines; two requests of one path and a restart; two callers and two refreshers | 0.9 million |
| `sync_stored` | what a successful sync has stored; a skipped first sync indexes what some storage has, and no more; temporary files are removed | two files, two storages that fail, two slots, both ways to start, heavy checks | 3.8 million |
| `sync_ends` | a sync ends if its fetches do, which a slot kept would prevent | two files, one storage, one slot, two tries, `Gc` beside, fairness | 0.2 million |
| `hit_report` | hits are reported once; the totals on disk survive crashes and failed writes; the parts stay below the totals; the tables by period are those of the log | one request, one keep-alive, one storage; four hits in two years of three months | 2.3 million |
| `serve_listener` | permits conserved, nobody held up by a silent client, each client answered unless first bytes that never end hold all permits | three clients on two permits, one error, fairness | 0.6 million |
| `dashboard` | both databases are the abstract map, but for the file records that are lost; a log out is final; reports keep their distance; a report leaves scopes alone | two requests at a time and three in all, two tokens, one client, a restart, a failing call | 0.4 million |
| `webdav` | slots have owners; a finished walk is complete; the flag is not stranded; checks are an interval apart | two requests, two checks, two walks, two slots | 1.1 million |

The run that expects a violation is under [Findings](#findings). Each property of a passing
run has a mutant of the code's model that it refutes (`PROJECT.json`, "mutants"; the mutated
operators stand before their originals and say what they break). They are plausible slips:
the second look of a double check dropped, an early free, a flag not cleared.
Type invariants are proved (see [Proofs](#proofs)) where there is a proof and stated in the other modules.

`CHECK_DEADLOCK FALSE` is set where the program may stop: the life cycle ends when the process exits,
Sync when it stops, panics or has listed all files, `serve_listener` when the listener is closed, `dashboard` at the
last time and request, and `webdav` because the storage really can stop: all slots held by those who wait for
another, or by the goroutines of a walk that was given up (see Findings). `Download` (whose requests rest when all have left), `services` and `hit_report` are checked for deadlock;
scenarios with a bound on calls may rest.

## Bounds

- Life cycle (`MaxEpoch`, `MaxSocket`, `MaxFaults`): two successful enables and two sockets give one full cycle of going off and
  coming back, with everything of the first generation (interval, callbacks, `disconnected`
  calls, channel) late for the second. A fault is a lost connection, a failed dial or a bad keep-alive; one
  lost connection may give two `disconnected` calls, the library's own and that of the socket's
  callback, which do different things, and the close of a socket may give another.
- Download (`Requests`, `Items`, `Stores`, `MaxConn`, `MaxBegun`, `Asked`): two requests are the least for a race, the third joins or follows; two items since a flight may start while
  the item of the last is still held; one buffer makes the pool contended, in `download_end` also by flights of two hashes. `MaxBegun` bounds the generations and the files
  asked for together: in `download_end` two generations with one file, so that a flight of the first outlives an enable, or one, which has both of
  its ends, with two files; one in `download_flight`. Two storages matter only to what is stored, and the collector only to the index.
- LimitSet: with limits 1 and 2, three requests reach the limit and exceed it from both sides; two
  cleans put a request two windows back; `TicksPerHour` 2 instead of 61 makes an hour end among them.
  `MinTags` and `HourTags` stand for 2^16 and 2^8; `TagsAssumption` says that no request lasts
  until the numbers repeat.
- Sync: a round has at most two files, each listed once (the server is asked for later times only), with
  two slots or one; one slot is what the code has with concurrency 0, and the tightest case for
  goroutines that need two at different times. Two tries stand for ten; `sync_stored` has one, as a try that fails and is repeated leaves
  nothing in a storage. Two storages are the least of which one fails to list what the other has. `HeavyInterval` 1
  makes every round heavy, 2 alternates.
- StatsFile and HitReport (`MaxCount`): two hits tell an old copy from a new one, and from none. There is one keep-alive, as there is
  while no connection was lost (`SingleKeepalive`), and one file beside the totals, since the others are written by
  the same steps. One request already comes between any two steps of the keep-alive.
- ServeListener (`Conns`, `MaxConn`, `MaxErrors`): two permits are the least of which one may be lost to a head that never ends while a client
  waits for the other; three clients then compete for it; an error comes between any two.
- StatPeriods (`Years`, `DaysOf`, `MaxHits`): the branches of `update` compare two dates, and what a table holds comes from at most the
  date before: four hits give each pair of branches one after the other. Three months, one of three days, let hours, days and months be next, skipped or last.
- WebdavStorage (`MaxConn`, `MaxTime`, `Interval`): two slots are the least for a request that needs two; two requests and two checks let one start from an
  old look while the other finishes; five ticks hold two checks an interval apart and a late verdict. Two directories of one file each are listed by two goroutines; two walks compete.
- RateController (`ReadRate`, `MaxClock`, `ReadSizes`): a rate of four among two streams leaves shares that do not divide evenly with a third, closing, stream; sizes below and at the share; a window is two ticks.
- Dashboard (`Times`, `Tokens`, `MaxRequests`, `MaxFailures`): one minute past the schedule, before and after half past (the mails' window) and the next evening;
  two requests at a time are the least for one that is let in while another logs out, three in all let the second log in again. One row per table shows each error, as the two databases
  treat rows apart; a second client or address only repeats.
- HjProxy (`MaxTimers`, `MaxClock`): two timers or functions of timers on the way besides the one in the variable, two requests of one path; an answer that may be kept for a tick, or not.
- ClusterToken (`Lifetimes`, `Soon`): a token that is soon to expire from the start, and one that lives for a tick before that; three tokens let a refresh and a fetch race twice.

## Fairness

- Goroutines that can run do run (weak fairness of their steps); `sync.RWMutex` does not
  starve; receivers of a Go channel queue in order, hence the strong fairness of `CopyBegins`.
- Life cycle: the waits for the server's ack end: six minutes for enable and for the dial,
  `keepalive-timeout` for disable, half an interval for keep-alive. The wait for a token, with `cr.mux` held, has no timeout (`cluster.go:160`, `cluster.go:299`), so
  nothing ends it but the answer or, if the goroutine asks the center itself, the end of the program's context. `ComesBackOrExits` has as its premise that
  nobody waits for a token for ever (`TokenAnswered`); `ShutdownCompletes`, that nobody stands for ever behind another goroutine that asks (`QueueEnds`). Nor
  has the first sync to end. Nothing obliges the network to
  deliver, a signal to come, a tick to fail.
- Download: a fetch need not end, unless it was cancelled (the request carries the context); the turn at `authTokenMux`, the lock of the life
  cycle that `EnterSelect` and the second goroutine take, and a storage's `Create` need not come to an end either: `Hangs` lists these waits. Buffers are
  handed out in the order of the channel (strong fairness of `Alloc`). Clients need not leave.
- Sync: a fetch need not end (`http.Client` has no timeout, `cluster.go:160`), so
  `SyncEnds` has the end of every fetch as its premise.
- ServeListener: the wait for the first bytes ends (five seconds, `http_listener.go:142`) or, when they fill the buffer, never
  does (`spins`); a plain HTTP connection is answered and
  closed (fifteen and ten seconds). Nothing ends a slow download, so `EachIsAnswered` has the end of every served connection as its
  premise, and the server's going on.

## Proofs

Theorems hold for every value of the constants that satisfy the assumptions in the modules (finite
sets of requests and items, naturals for counts). All are machine-checked; nothing is assumed without proof.

- `ClusterLifecycleProofs`: `IInv` is `TypeOK`, `LockInv` (who is in the middle of a method
  holds the lock, so at most one thread is; in the middle of `disable` the cluster is still what the
  emit found or was taken off by no one else) and `ChannelInv` (closed channels are of
  earlier epochs, or of the current one when the cluster is off; nobody is registered while it is
  enabled; enabled implies a socket). `DisableIsSafe` alone is not inductive: the step that closes the channel
  runs after the one that tested the flag, and only the lock keeps others out. From `IInv` follow `TypeCorrect`, `DisableSafety`, `NoWakeupIsLost`
  and `PresenceRefined`, the refinement, where each action is a Presence step or a stutter.
  `EnabledKeepsAlive` needs `KeepInv` (with the lock free, an enabled cluster's `cancelKeepalive` is its epoch and
  not cancelled; no loop ends before the process). Under the assumption `Calm`, that no connection is lost, `CalmInv` gives
  `DisabledIsSignalled` and `SingleKeepalive`: a disable that waits for its ack has cancelled the interval, and
  `disconnected` never runs.
- `DownloadProofs`: `IInv` adds to types and the buffers' balance `FlightInv` (an item that is
  running is the one `downloading` has for its target), `PublishInv` (done exactly when past the running steps; a success is in the file set) and
  `RequestInv` (what a joined item is to its request). `SingleFlight` needs `FlightInv`: two
  running items with one target would both be that entry. `IndexedIsStored` needs `StoreInv`: a file is settled in
  every storage its goroutine has passed, and a recorded one in every storage but the one writing it; an error
  never leaves `writing` without a verdict of that storage. The buffers are a count of a set of items, with the cardinality
  lemmas of the library.
- `ServicesProofs`, four parts.
  Limits: `IInv` adds `PointerInv` (a request's pointers are of windows that have been; a tag
  equals the pointer's window once it is used to give back a minute), `FutureInv` (counters of windows to come are 0)
  `CountInv` (the balance, for the requests kept and those over) and `HourInv` (until an hour ends, a request that
  has found a counter has found this hour's, its client has one, and the hour balances). `MinuteLimitKept`,
  `MinuteCountExact` and `HourCountExact` follow, for any limits of both kinds.
  `TagsAssumption` is used where `Release` compares numbers modulo.
  Token: `HolderInv` says that who asks the server holds the lock, alone, and that the token is still as it was at the second
  look; so a fetch replaces an expired token only (`TokensAreKept`). Without the lock in it the second look proves nothing, which is the mutant.
  Index: `NothingUnsaved` is inductive with the types, as a timer that was overwritten is still among the `strays` (`IndexIsSaved`).
  Budget: `ReadBudget` is about the streams that are *done* for the window, asleep past its end, of which each has read a share at
  most beside the bytes that were counted; the bytes counted leave something of the budget as long as a stream is not done.
  `RateKept` has the number of all streams in its place and says nothing of who may go on, so it is not inductive. `WriteBudget` is
  the same for writes, where a stream is done after a smallest chunk. They need no relation of the minimums to the
  rates, nor of the sizes of calls to either (`RatesAreKept`).
- `HitReportProofs`: of `StatsFile` first, for one call of `Save` at a time (`OneSaver`): `IInv` is the types, `SaverInv` (what the step of a call
  says of its file), `CopiesInv` (an old copy that parses has a first copy that parses, but while the
  first is being written; a file of a storage is written when the totals have been), `MemoryInv` (memory has no less
  than Load would find) and `PartInv`, all but the first two as long as no write of the totals failed. `TotalsNeverGoBack` is an action property: each step
  of the lemmas is shown not to lower what Load would find; `NoMoreThanTotal` follows from `PartInv`.
  `ReportImplementsStats` shows that a step of the report is a step of StatsFile or leaves it alone, and
  carries both over (`ReportKeepsTotals`, `ReportKeepsParts`). `HitsReportedOnce` rests on `Balance`, which is `EachHitOnce` with what is
  owed between the answer and the two steps that settle it, and on `LastSeen` (what was read of `lastHits` is what it is until it is stored).
  Then the tables of the periods, for any calendar, years and number of hits (`PeriodsAreExact`). Three layers of lemmas. Sums:
  the library folds a set by a recursive function that `CHOOSE` finds, so `WalkExists` shows there is one, by induction on sizes (`Induction`
  and `SubsetInduction`, which come from a least number instead of a rule with an operator for a parameter), and `SumOfSums` that the
  sum of a table of sums is one sum. Dates: the numbers of days and months keep their order (`DayOrder`, `MonthOrder`). Tables:
  one lemma for each table and each distance between two hits. In `PeriodsInv`, `HitsBefore` says that no hit is later than the last, so that what
  was skipped is empty and what is cleared after it lost nothing; `TablesExact` is the property by years, months and days instead of their numbers;
  `HeldOnce` that all four tables hold no more than there were hits, whatever was skipped: each move adds no more to one table than it clears
  in the others. `NothingTwice` alone, which looks at each table up to the last hit, is not inductive.
- `DashboardProofs`: `RecordMapRefined` goes call by call through both databases: each outcome is an operation of RecordMap on one row
  with an answer that fits, or the file record that is lost, once the tables have their types (`TablesInv`), and the rows a report writes back are whole rows, also those it
  has held since before (`RoundsInv`). `LogoutKept` needs `RequestsInv` and `LoggedOutInv`: what a logout removed is in no table, and stays among
  the issued, so that its id is not drawn again. `ReportsAreSpaced` needs `PushedInv` (a client's last report is in its row,
  or a round that has it is under way) and `MailedInv` (the round after one that mailed is out of its half hour, by arithmetic on
  minutes and days). `ScopesKept` follows from the statements: the report's `UPDATE` names one column.
- `ServeListenerProofs`: `FlagInv` counts those who have set `accepting` and not cleared it: one or none, connections just accepted
  included. `PermitInv` says which connections have a permit. Without `FlagInv`, `OneAccepter` and `NobodyHeldUp` are not inductive.
- `WebdavProofs`: `IInv` is the types and `JobInv` (the operations that come through each stage; a goroutine about to begin a check
  found the last one old), `DialInv` (what a goroutine has not asked for is not being dialled), `BalanceInv` (`SlotsOwned` over one table of
  weights, so that a step is weighed by the goroutine that makes it), `BusyIsChecked` itself, and for walks `CountInv` (`done` is what
  its goroutines owe and what the loop has not counted), `EndInv`, `KeptInv` and `SeenInv` (a file that was there all along is seen,
  skipped, or still with a goroutine that owes its entry). Without `CountInv` a walk could end while a goroutine is sending; without `DialInv` a
  request could dial over a dial that holds a slot. The lemma `Freed` is the core: a connection handed to a waiter is a slot less here and one more there.
- `SyncProofs`: `SyncedIsStored` looks only at the moment a sync succeeds, when all that is known is a number of results. So `IInv` follows
  each file. `FreshInv`: a file belongs to one round and is untouched when it begins. `PathInv`: what the copying goroutine has seen of the fetching one.
  `StoreInv`: what a storage lacks of a file of the round is in `missing`, then in the targets of the copy, then stored or excused, whatever the heavy checks
  nobody waits for do. `DueInv`: the results to come are at least the files that wait for one or are not stored, so none is left at 0. The last two speak of a program that
  does not collect (`Clean`), hence the premise `NoGC` of `SuccessIsStored`; `ExistInv` is the start without a first sync. `SlotsConserved` counts the goroutines of a round by the library's cardinality facts,
  and gives the bound of `slots` in `TypesKept`.

The type invariants, `SlotsConserved`, `WaitersHaveLeader` (a request waits for a download that runs or has published) and `OneAccepter`
are proved and have no run of their own; TLC checked each before it was proved, as it did each of the inductive invariants.

Model-checked only: what needs fairness (`ShutdownCompletes`, `ComesBackOrExits`, `JoinedAreReleased`, `EndStopsFetch`, `SyncEnds`,
`EachIsAnswered`), since liveness is beyond the prover.

## Findings

One run ends with a counterexample; `PROJECT.json` quotes the line of the repository it disagrees with.

| run | what |
|---|---|
| `sync_all` (`AllSynchronized`) | a file whose fetches all failed counts as synchronized |

Other statements of the repository are written as properties in the modules, and TLC refutes each within the
bounds above; they have no run of their own:

| property | module | what TLC shows |
|---|---|---|
| `GivesUpOnlyAfterRetries` | ClusterLifecycle | the process gives up at the first failed dial of `Connect`, also with unlimited retries (`cluster.go:407`; README.MD:157) |
| `FirstNoticeIsOnline` | ClusterLifecycle | a connection lost before the first enable sends an off-line notification (`cluster.go:646`; README.MD:28) |
| `R!Spec`, which is `ImplementsRecordMap` without `FileRecordLost` | Dashboard | in an SQL database the record of a new file is answered without an error and not made (`database/sql.go:424`; `main.go:398` logs "All file records are updated") |
| `GcRemovesOnlyUnused` | Download | the collector removes a file a download has just recorded (`sync.go:656`) |
| `HourLimit` | LimitSet | a request that spans the end of an hour gives back one of the new hour, whose counter never had it (`limited/api_rate.go:114`; README.MD:205). `HourExact` therefore speaks of the first hour only |
| `UnlimitedHourWorks` | LimitSet | with `per-hour` 0 a request over the minute's limit panics (`limited/api_rate.go:123`; README.MD:205) |
| `EnabledAfterSync` | Sync | the cluster is enabled after a first sync that failed (`main.go:218`) |
| `HeavySpacing` | Sync | one simple check less than configured between two heavy ones (`main.go:460`; README.MD:358) |
| `LastDayIsKept` | StatPeriods | the days of the month before never have its last day with hits, nor the months of the year before their last (`notify/stat.go:136`); the dashboard draws them (`dashboard/src/sw.ts:119`) |
| `AccessesOfMonth` | StatPeriods | the user agents counted are cleared at a new month but not at a new year (`notify/stat.go:151`) |
| `CachedIsWhole` | HjProxy | a file is served from the cache while another request has truncated it to write it anew (`hijacker.go:185`) |
| `SyncedIsStored` with `NoGC` FALSE | Sync | a collector started before a sync removes what the sync has found or written (`sync.go:656`) |

Also met, without a line of the repository that says otherwise: the crash on a nil socket when a keep-alive
meets a `disable` in progress (`Crash`), two live intervals after a drop and a reconnect
(`SingleKeepalive` holds only without drops), `disabled` channels of a dropped generation that
nobody closes, the sync that waits for a goroutine whose temporary file was gone (`CopyLosesFile`), and the
temporary file left when a round is cancelled as it arrives (`CopyStops`), a storage that a sync passes over without a word when the file cannot be
rewound (`CopySkips`), and a shutdown that the waits for a token hold up: a center that does not answer leaves a cluster that should come back off, with `cr.mux` held, and as the
second to ask waits for `authTokenMux` without a context, a download's request can keep `Connect`, and with it `Disable`, waiting. A waiter whose generation lapsed with a lost connection waits as long as the fetch does.

Of the statistics: with two intervals alive (after a drop) two calls of `Save` and of `KeepAlive` overlap, and TLC refutes
`TotalsNeverGoBack` and `EachHitOnce` with two `Savers`; hits whose answer is lost are sent again; a packet can carry -1 hits, when a
hit for the statistics only falls between the reads of two counters; a crash between `Rename` and `Open` leaves a storage's file with its
old copy only, which `Load` does not list; a failed write of the totals followed by another save loses both copies.

Of the listener: `ServeReturns` (a shutdown makes `Serve` return) is refuted. `Close` may drain the error of the last accepter while
the server has started one and not yet blocked (`http_listener.go:74`); nobody accepts any more and `Accept` waits for ever. A connection whose
first bytes arrive after `Close` has drained the channel stays in it, and is never closed. A head of 4096 printable bytes without the end of a line
is read for ever (`http_listener.go:96`: the rest of the buffer is empty, so neither deadline nor close is seen), and keeps its permit.

Of the periods: a month that goes by without a hit leaves the hours, and a year the days, of the old one in the tables; no hit is counted
twice for it (`NothingTwice`).

Of the WebDAV storage and the limits: a request holds a slot while its connection waits for one of the same semaphore
(`storage_webdav.go:429` and the dialer), so that requests can hold them all and wait for ever, but for their clients' patience; a walk whose walker returns an error
leaves its goroutines blocked with their slots (`storage_webdav.go:301`; `gcFor` does so when it is cancelled, `sync.go:655`). The check of an old look can set the flag
to 0 after a newer one found the storage alive. `Init`'s measure file counts as known only after it was put, so one of the right size is looked up each time. `WalkDir` tells nobody the errors of `ReadDir`.
In a window the streams can read more than the rate, by less than a share for each of them, and a share may be the whole rate; they can write up to twice the rate and the
minimum of each (`RateKept` has both bounds); the shares are 0 when there are more connections than bytes; a copy whose connection has no `ReadFrom` goes around the limit.

Of the dashboard: `ScopesAreTheClients` is false for the memory database, where the report writes back the scopes it read before; a subscription made anew
while its predecessor's 403 is on the way is removed. A log out answers 204 also when the row could not be removed. A request let in before
a log out is handled after it. With a start just before ten in the evening the half hour of the mails can fall between two reports, and with a restart in it the mail is sent twice.
A subscription posted without an endpoint to an SQL database that has none is answered as made.
In SQL `AddWebhook` always fails (seven values for six marks).

Of the hijacker: with `require-auth` every request ends at the check, also one with a right password
(`hijacker.go:123`). An index that could not be written is not written again until the next change. Of the token: calls in its last ten minutes
start a goroutine each, which wait for the lock one after the other, and while they ask the server, callers with a live token wait too.

## What is left out

- Life cycle: the second `GetAuthToken` of a connect, within the dial, which finds the token just got; the counters `KeepAlive` sends, the data of enable, certificates.
- Download: how the file is sent and the choice of a storage for it; the sizes.
- Statistics: bytes, which are counted like hits, and leap years.
- Storages: what is sent to the client, ranges, `CheckUpload`, and the mount storage, whose `preServe` is that of WebDAV line by line over a check that only reads.
- RateController: the setters, which are called at the start, and the locks of a connection, as one goroutine reads and one writes.
- Dashboard: status, statistics, pprof and log files, which only show; the stream of the log; users other than the configured one; announcements of a release; messages and keys.
- Database: what no caller uses (`ForEachFileRecord`, `ForEachWebhook`, `ForEachEnabledWebhook`, `ForEachEmailSubscription`, `UpdateEnableEmailSubscription`, `UpdateEnableWebhook`), the statements
  with dollar marks, and the cleaner of expired tokens, whose context ends before its first tick.
- HjProxy: headers and redirects; bytes, of which only their number is kept.
- ServeListener: the first bytes and the redirect, the rates of a connection.
- LimitSet: the `cleanId` 0 that a wrap of the minute's number would give.
- Sync: a change of the file set between the collector's look at `issync` and its look at the set, which is one step here: while it can run, the set
  only grows; empty files, hashes of unknown length, mirrors of a retried request, the buffer of `done`, a second `Gc`
  while one runs, file records and progress bars.
- The components of the plan below, and those with nothing to check.

## Plan

Done: the life cycle and its Presence, downloads, the synchronizer, limits, the listener, the statistics with their report and
periods, the WebDAV storage with its rates, the database with the dashboard and the notifications, the hijacker's cache and the token. What is left, in order:

1. Composition of Download, Sync and WebdavStorage over one file set, in place of a storage that may refuse.
2. The mount storage, and the aggregator of records that stops after an hour off line (`handler.go:243`).
