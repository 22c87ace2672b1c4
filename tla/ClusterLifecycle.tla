-------------------------- MODULE ClusterLifecycle --------------------------
(***************************************************************************)
(* The life of a Cluster (cluster.go): Connect, Enable, disable, Disable,   *)
(* disconnected, WaitForEnable, Disabled and the keep-alive intervals, run  *)
(* by the start-up goroutine of main.go, the socket's callbacks, the        *)
(* keep-alive goroutines, the signal handler and a failing download.        *)
(*                                                                         *)
(* A method holds cr.mux from its first line to its return; it is one step  *)
(* except where it waits for the network with the lock held, where it is    *)
(* two.  The callbacks and the atomics run beside the lock.  The socket.io  *)
(* client and the master server are external: their answers are chosen.     *)
(***************************************************************************)
EXTENDS Integers, FiniteSets

CONSTANTS
  MaxReconnectCount,  \* config.MaxReconnectCount; -1 is "unlimited"
  MaxEpoch,           \* bound: successful enables
  MaxSocket,          \* bound: sockets made by Connect
  MaxFaults,          \* bound: drops, failed dials and bad keep-alives
  Faults,             \* the faults that may happen
  NamespaceCallback,  \* does a lost connection also call socket.OnDisconnect?
  CloseCallback,      \* does Close count as a lost connection?
  Watchers            \* goroutines that use WaitForEnable and Disabled

ASSUME LifecycleAssumption ==
  /\ MaxReconnectCount \in Int /\ MaxReconnectCount >= -1
  /\ MaxEpoch \in Nat /\ MaxSocket \in Nat \ {0} /\ MaxFaults \in Nat
  /\ Faults \subseteq {"drop", "dial", "keepalive"}
  /\ NamespaceCallback \subseteq BOOLEAN /\ CloseCallback \subseteq BOOLEAN

Epoch == 1 .. MaxEpoch
SocketId == 1 .. MaxSocket

Main == <<"main", 0>>           \* main's start-up goroutine
Shut == <<"shutdown", 0>>       \* the goroutine DoSignals starts
Failing == <<"handler", 0>>     \* a download that found every storage down
Loop(e) == <<"keepalive", e>>   \* the interval made by the e-th enable
OnConn(s) == <<"onconnect", s>> \* the OnConnect callback of socket s
Nobody == <<"nobody", 0>>

Loops == {Loop(e) : e \in Epoch}
Callbacks == {OnConn(s) : s \in SocketId}
Threads == {Main, Shut, Failing} \union Loops \union Callbacks

VARIABLES
  mux,             \* the thread inside a method of the cluster, or Nobody
  pc,              \* what each thread is about to do or waits for
  enabled,         \* cr.enabled
  shouldEnable,    \* cr.shouldEnable
  epoch,           \* which channel cr.disabled is: the epoch-th one made
  closed,          \* the disabled channels that were closed
  waitEnable,      \* the watchers whose channel is in cr.waitEnable
  wpc,             \* what each watcher does
  watch,           \* the disabled channel each watcher took
  socket,          \* cr.socket: 0 is nil
  made,            \* sockets made so far
  link,            \* each socket: down, dialing, up (engine) or open (namespace)
  closing,         \* sockets whose `go Close()` has not run
  reconnectCount,  \* cr.reconnectCount
  cancelKeepalive, \* cr.cancelKeepalive: the interval it cancels, 0 is nil
  cancelled,       \* intervals whose context was cancelled by it
  tick,            \* intervals with a tick in their ticker's channel
  failed,          \* failedCount of each interval
  pending,         \* `go cr.disconnected()` goroutines that have not run
  ctxDone,         \* the program's context was cancelled
  exit,            \* why the process ended, or "no"
  notice,          \* the last notification: none, online or offline
  faults           \* faults so far

lockVars == <<mux, pc>>
chanVars == <<enabled, epoch, closed, waitEnable>>
watchVars == <<wpc, watch>>
netVars == <<socket, made, link, closing, reconnectCount>>
loopVars == <<cancelKeepalive, cancelled, tick, failed>>
endVars == <<ctxDone, exit>>
vars == <<lockVars, chanVars, watchVars, netVars, loopVars, endVars,
          shouldEnable, pending, notice, faults>>

Init ==
  /\ mux = Nobody
  /\ pc = [t \in Threads |-> IF t = Main THEN "connect" ELSE "idle"]
  /\ enabled = FALSE /\ shouldEnable = FALSE
  /\ epoch = 0 /\ closed = {0} /\ waitEnable = {}
  /\ wpc = [w \in Watchers |-> "idle"]
  /\ watch = [w \in Watchers |-> 0]
  /\ socket = 0 /\ made = 0 /\ reconnectCount = 0
  /\ link = [s \in SocketId |-> "down"] /\ closing = {}
  /\ cancelKeepalive = 0 /\ cancelled = {} /\ tick = {}
  /\ failed = [e \in Epoch |-> 0]
  /\ pending = 0
  /\ ctxDone = FALSE /\ exit = "no"
  /\ notice = "none" /\ faults = 0

-----------------------------------------------------------------------------
\* Mutant of Exit: the code is lost when nobody is receiving from exitCh.
ExitUnheard(t, why) ==
  /\ pc' = [pc EXCEPT ![t] = "gone"]
  /\ UNCHANGED exit

\* osExit: the goroutine ends (running its deferred unlock), and the process
\* with it unless DoSignals is already waiting for the shutdown to finish.
Exit(t, why) ==
  /\ pc' = [pc EXCEPT ![t] = "gone"]
  /\ exit' = IF ctxDone THEN exit ELSE why

\* A nil socket is dereferenced: log.RecordPanic panics again.
Crash(t) ==
  /\ pc' = [pc EXCEPT ![t] = "gone"]
  /\ exit' = "crash"

Goto(t, where) ==
  /\ pc' = [pc EXCEPT ![t] = where]
  /\ UNCHANGED exit

\* What the caller does with the result of each method.
AfterConnect(t, ok) ==
  IF ok THEN Goto(t, IF t = Main THEN "sync" ELSE "enable")
  ELSE IF t \in Loops /\ ctxDone THEN Goto(t, "drain") ELSE Exit(t, "connect")

\* Mutant of AfterEnable: the error is logged and forgotten.
AfterEnableLogged(t, ok) ==
  Goto(t, IF t = Main THEN "gone" ELSE IF t \in Loops THEN "drain" ELSE "idle")

AfterEnable(t, ok) ==
  IF ok \/ (ctxDone /\ t \notin Callbacks)
    THEN Goto(t, IF t = Main THEN "gone"
                 ELSE IF t \in Loops THEN "drain" ELSE "idle")
    ELSE Exit(t, "enable")

AfterDisable(t) ==
  IF t = Failing THEN Exit(t, "storage")
  ELSE Goto(t, IF t = Shut THEN "gone" ELSE "connect")

\* Mutant of Release: a return path that does not unlock.
ReturnLocked(t) == mux = t /\ UNCHANGED mux

Acquire(t) == mux = Nobody /\ mux' = t
Release(t) == mux = t /\ mux' = Nobody
Brief == mux = Nobody /\ UNCHANGED mux  \* lock and unlock in one step

Connected(s) == link[s] \in {"up", "open"}
Alive(e) == e \notin cancelled /\ ~ctxDone  \* keepaliveCtx.Err() == nil

-----------------------------------------------------------------------------
\* Connect
ExtraConnect(t) ==
  /\ pc[t] = "connect" /\ Brief
  /\ socket # 0
  /\ AfterConnect(t, TRUE)
  /\ UNCHANGED <<chanVars, watchVars, netVars, loopVars, ctxDone,
                 shouldEnable, pending, notice, faults>>

\* GetAuthToken, with cr.mux held: first the wait for authTokenMux, which another
\* goroutine may hold while it asks the center, then for the center itself.
ConnectAsk(t) ==
  /\ pc[t] = "connect" /\ Acquire(t)
  /\ socket = 0
  /\ Goto(t, "queue")
  /\ UNCHANGED <<chanVars, watchVars, netVars, loopVars, ctxDone,
                 shouldEnable, pending, notice, faults>>

ConnectTurn(t) ==
  /\ pc[t] = "queue"
  /\ Goto(t, "token")
  /\ UNCHANGED <<mux, chanVars, watchVars, netVars, loopVars, ctxDone,
                 shouldEnable, pending, notice, faults>>

ConnectNoToken(t) ==
  /\ pc[t] = "token" /\ Release(t)
  /\ Exit(t, "auth")
  /\ UNCHANGED <<chanVars, watchVars, netVars, loopVars, ctxDone,
                 shouldEnable, pending, notice, faults>>

ConnectDial(t) ==
  /\ pc[t] = "token" /\ UNCHANGED mux
  /\ made < MaxSocket
  /\ Goto(t, "dial")
  /\ made' = made + 1
  /\ socket' = made + 1
  /\ link' = [link EXCEPT ![made + 1] = "dialing"]
  /\ reconnectCount' = 0
  /\ UNCHANGED <<chanVars, watchVars, closing, loopVars, ctxDone,
                 shouldEnable, pending, notice, faults>>

\* engio.Dial and socket.Connect: a failure leaves cr.socket set.
ConnectDone(t) ==
  /\ pc[t] = "dial" /\ Release(t)
  /\ \E ok \in BOOLEAN :
       /\ link' = [link EXCEPT ![socket] = IF ok THEN "up" ELSE "down"]
       /\ AfterConnect(t, ok)
  /\ UNCHANGED <<chanVars, watchVars, socket, made, closing, reconnectCount,
                 loopVars, ctxDone, shouldEnable, pending, notice, faults>>

-----------------------------------------------------------------------------
\* Enable
\* Mutant of MayEnable: Enable does not look whether it is enabled already.
MayAlwaysEnable == TRUE

MayEnable == ~enabled

ExtraEnable(t) ==
  /\ pc[t] = "enable" /\ Brief
  /\ enabled
  /\ AfterEnable(t, TRUE)
  /\ UNCHANGED <<chanVars, watchVars, netVars, loopVars, ctxDone,
                 shouldEnable, pending, notice, faults>>

EnableDisconnected(t) ==
  /\ pc[t] = "enable" /\ Brief
  /\ ~enabled
  /\ socket # 0 /\ ~Connected(socket) /\ MaxReconnectCount = 0
  /\ Exit(t, "disconnected")
  /\ UNCHANGED <<chanVars, watchVars, netVars, loopVars, ctxDone,
                 shouldEnable, pending, notice, faults>>

\* shouldEnable is set before the packet is sent, whatever becomes of it.
EnableEmit(t) ==
  /\ pc[t] = "enable" /\ mux = Nobody
  /\ MayEnable
  /\ socket # 0 => Connected(socket) \/ MaxReconnectCount # 0
  /\ shouldEnable' = TRUE
  /\ IF socket = 0 THEN Crash(t) /\ UNCHANGED mux
     ELSE \/ Connected(socket) /\ Goto(t, "enableAck") /\ mux' = t
          \/ link[socket] # "open" /\ AfterEnable(t, FALSE) /\ UNCHANGED mux
  /\ UNCHANGED <<chanVars, watchVars, netVars, loopVars, ctxDone,
                 pending, notice, faults>>

EnableRefused(t) ==  \* an error ack, a false ack, or six minutes without one
  /\ pc[t] = "enableAck" /\ Release(t)
  /\ AfterEnable(t, FALSE)
  /\ UNCHANGED <<chanVars, watchVars, netVars, loopVars, ctxDone,
                 shouldEnable, pending, notice, faults>>

EnableAcked(t) ==  \* the connection may have been lost since the ack came
  /\ pc[t] = "enableAck" /\ Release(t)
  /\ epoch < MaxEpoch
  /\ reconnectCount' = 0
  /\ epoch' = epoch + 1
  /\ enabled' = TRUE
  /\ waitEnable' = {}
  /\ notice' = "online"
  /\ cancelKeepalive' = epoch + 1
  /\ AfterEnable(t, TRUE)
  /\ UNCHANGED <<closed, watchVars, socket, made, link, closing, cancelled,
                 tick, failed, ctxDone, shouldEnable, pending, faults>>

-----------------------------------------------------------------------------
\* disable, disconnected
\* Mutant of CancelKeepalive: the pointer is cleared, the context lives on.
ForgetKeepalive == cancelKeepalive' = 0 /\ UNCHANGED cancelled

CancelKeepalive ==
  /\ cancelled' = IF cancelKeepalive # 0 THEN cancelled \union {cancelKeepalive}
                                         ELSE cancelled
  /\ cancelKeepalive' = 0

ExtraDisable(t) ==
  /\ pc[t] = "disable" /\ Brief
  /\ ~enabled
  /\ AfterDisable(t)
  /\ UNCHANGED <<chanVars, watchVars, netVars, loopVars, ctxDone,
                 shouldEnable, pending, notice, faults>>

DisableEmit(t) ==
  /\ pc[t] = "disable" /\ mux = Nobody
  /\ enabled
  /\ CancelKeepalive
  /\ IF socket = 0 THEN AfterDisable(t) /\ UNCHANGED mux /\ notice' = "offline"
                   ELSE Goto(t, "disableAck") /\ mux' = t /\ UNCHANGED notice
  /\ UNCHANGED <<chanVars, watchVars, netVars, tick, failed, ctxDone,
                 shouldEnable, pending, faults>>

\* Mutant of TurnOff: cr.enabled is not cleared.
StayOn == UNCHANGED enabled

TurnOff == enabled' = FALSE

\* Mutant of AnnounceEnd: cr.disabled is not closed.
EndSilently == UNCHANGED closed

AnnounceEnd == closed' = closed \union {epoch}

DropSocket == closing' = closing \union {socket} /\ socket' = 0

\* Acked, refused, timed out or never sent: the outcome is the same.
DisableDone(t) ==
  /\ pc[t] = "disableAck" /\ Release(t)
  /\ TurnOff
  /\ DropSocket
  /\ AnnounceEnd
  /\ notice' = "offline"
  /\ AfterDisable(t)
  /\ UNCHANGED <<epoch, waitEnable, watchVars, made, link, reconnectCount,
                 loopVars, ctxDone, shouldEnable, pending, faults>>

\* CompareAndSwap(true, false): the call that finds the cluster enabled only
\* clears the flag; a call that finds it cleared cancels and notifies.
Disconnected ==
  /\ pending > 0 /\ pending' = pending - 1
  /\ Brief
  /\ IF enabled
       THEN /\ enabled' = FALSE
            /\ UNCHANGED <<cancelKeepalive, cancelled, notice>>
       ELSE /\ CancelKeepalive
            /\ notice' = "offline"
            /\ UNCHANGED enabled
  /\ UNCHANGED <<pc, epoch, closed, waitEnable, watchVars, netVars, tick,
                 failed, endVars, shouldEnable, faults>>

-----------------------------------------------------------------------------
\* The keep-alive interval: createInterval and its job
Tick(e) ==
  /\ e <= epoch /\ Alive(e) /\ e \notin tick
  /\ pc[Loop(e)] # "gone"
  /\ tick' = tick \union {e}
  /\ UNCHANGED <<lockVars, chanVars, watchVars, netVars, cancelKeepalive,
                 cancelled, failed, endVars, shouldEnable, pending, notice,
                 faults>>

KeepAliveSend(e) ==  \* cr.socket is read without the lock
  /\ pc[Loop(e)] = "idle" /\ e \in tick
  /\ tick' = tick \ {e}
  /\ IF socket = 0 THEN Crash(Loop(e)) ELSE Goto(Loop(e), "keepalive")
  /\ UNCHANGED <<mux, chanVars, watchVars, netVars, cancelKeepalive, cancelled,
                 failed, ctxDone, shouldEnable, pending, notice, faults>>

\* The job has returned: a tick that came meanwhile is dropped.
DropTick(e) ==
  /\ pc[Loop(e)] = "drain"
  /\ Goto(Loop(e), "idle")
  /\ tick' = tick \ {e}
  /\ UNCHANGED <<mux, chanVars, watchVars, netVars, cancelKeepalive, cancelled,
                 failed, ctxDone, shouldEnable, pending, notice, faults>>

KeepAliveOk(e) ==
  /\ pc[Loop(e)] = "keepalive"
  /\ Goto(Loop(e), "drain")
  /\ failed' = [failed EXCEPT ![e] = 0]
  /\ UNCHANGED <<mux, chanVars, watchVars, netVars, cancelKeepalive, cancelled,
                 tick, ctxDone, shouldEnable, pending, notice, faults>>

KeepAliveKicked(e) ==
  /\ pc[Loop(e)] = "keepalive"
  /\ "keepalive" \in Faults
  /\ Exit(Loop(e), "kicked")
  /\ UNCHANGED <<mux, chanVars, watchVars, netVars, loopVars,
                 ctxDone, shouldEnable, pending, notice, faults>>

KeepAliveAbandoned(e) ==  \* its own context was cancelled meanwhile
  /\ pc[Loop(e)] = "keepalive"
  /\ ~Alive(e)
  /\ Goto(Loop(e), "drain")
  /\ UNCHANGED <<mux, chanVars, watchVars, netVars, loopVars, ctxDone,
                 shouldEnable, pending, notice, faults>>

\* No answer in time is tolerated twice; any other failure reconnects at once.
KeepAliveFailed(e) ==
  /\ pc[Loop(e)] = "keepalive"
  /\ Alive(e)
  /\ "keepalive" \in Faults /\ faults < MaxFaults
  /\ faults' = faults + 1
  /\ \E timedOut \in BOOLEAN :
       /\ failed' = IF timedOut THEN [failed EXCEPT ![e] = @ + 1] ELSE failed
       /\ Goto(Loop(e), IF timedOut /\ failed[e] + 1 < 3 THEN "drain"
                                                        ELSE "disable")
  /\ UNCHANGED <<mux, chanVars, watchVars, netVars, cancelKeepalive, cancelled,
                 tick, ctxDone, shouldEnable, pending, notice>>

-----------------------------------------------------------------------------
\* The start-up goroutine, the signal handler, the failing download
FirstSyncDone ==
  /\ pc[Main] = "sync"
  /\ \/ Goto(Main, "enable")
     \/ ctxDone /\ Goto(Main, "gone")
  /\ UNCHANGED <<mux, chanVars, watchVars, netVars, loopVars, ctxDone,
                 shouldEnable, pending, notice, faults>>

Signal ==  \* cancel(), then Disable begins
  /\ pc[Shut] = "idle"
  /\ ctxDone' = TRUE
  /\ Goto(Shut, "clear")
  /\ UNCHANGED <<mux, chanVars, watchVars, netVars, loopVars,
                 shouldEnable, pending, notice, faults>>

StoragesDown ==
  /\ pc[Failing] = "idle" /\ shouldEnable
  /\ Goto(Failing, "clear")
  /\ UNCHANGED <<mux, chanVars, watchVars, netVars, loopVars, ctxDone,
                 shouldEnable, pending, notice, faults>>

DisableBegin(t) ==  \* Disable stores the flag before disable takes the lock
  /\ pc[t] = "clear"
  /\ shouldEnable' = FALSE
  /\ Goto(t, "disable")
  /\ UNCHANGED <<mux, chanVars, watchVars, netVars, loopVars, ctxDone,
                 pending, notice, faults>>

-----------------------------------------------------------------------------
\* The socket: what the library does, and the callbacks of Connect
NamespaceOpen(s) ==  \* socket.OnConnect
  /\ link[s] = "up" /\ pc[OnConn(s)] = "idle"
  /\ link' = [link EXCEPT ![s] = "open"]
  /\ IF shouldEnable THEN Goto(OnConn(s), "enable")
                     ELSE UNCHANGED <<pc, exit>>
  /\ UNCHANGED <<mux, chanVars, watchVars, socket, made, closing,
                 reconnectCount, loopVars, ctxDone, shouldEnable, pending,
                 notice, faults>>

\* The namespace asks for the token again (WithAuthTokenFn): none is to be had.
NamespaceNoToken(s) ==
  /\ link[s] = "up"
  /\ exit' = IF ctxDone THEN exit ELSE "auth"
  /\ UNCHANGED <<lockVars, chanVars, watchVars, netVars, loopVars, ctxDone,
                 shouldEnable, pending, notice, faults>>

GivesUp(open, count) ==
  /\ shouldEnable
  /\ \/ MaxReconnectCount = 0
     \/ ~open /\ MaxReconnectCount > 0 /\ count >= MaxReconnectCount

\* engio.OnDisconnect, and socket.OnDisconnect when ns holds.  `connected` in
\* the code is link[s] = "open" here.
Lost(s, ns) ==
  LET open == link[s] = "open"
      count == reconnectCount + (IF open THEN 0 ELSE 1)
  IN /\ link' = [link EXCEPT ![s] = "down"]
     /\ reconnectCount' = IF ctxDone THEN reconnectCount ELSE count
     /\ exit' = IF GivesUp(open, count) /\ ~ctxDone THEN "toomuch" ELSE exit
     /\ pending' = pending + (IF ctxDone THEN 0 ELSE 1) + (IF ns THEN 1 ELSE 0)

Drop(s) ==
  /\ Connected(s)
  /\ "drop" \in Faults /\ faults < MaxFaults
  /\ faults' = faults + 1
  /\ \E ns \in NamespaceCallback : Lost(s, ns)
  /\ UNCHANGED <<lockVars, chanVars, watchVars, socket, made, closing, loopVars,
                 ctxDone, shouldEnable, notice>>

Close(s) ==  \* the `go cr.socket.Close()` of disable
  /\ s \in closing /\ closing' = closing \ {s}
  /\ \/ /\ Connected(s) /\ TRUE \in CloseCallback
        /\ \E ns \in NamespaceCallback : Lost(s, ns)
     \/ /\ Connected(s) => FALSE \in CloseCallback
        /\ link' = [link EXCEPT ![s] = "down"]
        /\ UNCHANGED <<reconnectCount, exit, pending>>
  /\ UNCHANGED <<lockVars, chanVars, watchVars, socket, made, loopVars,
                 ctxDone, shouldEnable, notice, faults>>

Redial(s) ==  \* the engine reconnects by itself
  /\ s = socket /\ link[s] = "down"
  /\ \/ /\ link' = [link EXCEPT ![s] = "up"]
        /\ UNCHANGED <<reconnectCount, exit, faults>>
     \/ /\ "dial" \in Faults /\ faults < MaxFaults  \* engio.OnDialError
        /\ faults' = faults + 1
        /\ reconnectCount' = reconnectCount + 1
        /\ exit' = IF /\ MaxReconnectCount >= 0
                      /\ reconnectCount + 1 >= MaxReconnectCount
                      /\ shouldEnable /\ ~ctxDone
                     THEN "toomuch" ELSE exit
        /\ UNCHANGED link
  /\ UNCHANGED <<lockVars, chanVars, watchVars, socket, made, closing, loopVars,
                 ctxDone, shouldEnable, pending, notice>>

-----------------------------------------------------------------------------
\* Users of WaitForEnable and Disabled: the access recorder of handler.go
WaitFast(w) ==
  /\ wpc[w] = "idle"
  /\ wpc' = [wpc EXCEPT ![w] = IF enabled THEN "online" ELSE "wait"]
  /\ UNCHANGED <<lockVars, chanVars, watch, netVars, loopVars, endVars,
                 shouldEnable, pending, notice, faults>>

\* Mutant of SeenUnderLock: the flag is not looked at again.
SeenBeforeLock == FALSE

SeenUnderLock == enabled

WaitLocked(w) ==  \* checked again under the lock
  /\ wpc[w] = "wait" /\ Brief
  /\ IF SeenUnderLock
       THEN wpc' = [wpc EXCEPT ![w] = "online"] /\ UNCHANGED waitEnable
       ELSE /\ wpc' = [wpc EXCEPT ![w] = "waiting"]
            /\ waitEnable' = waitEnable \union {w}
  /\ UNCHANGED <<pc, enabled, epoch, closed, watch, netVars, loopVars, endVars,
                 shouldEnable, pending, notice, faults>>

Woken(w) ==
  /\ wpc[w] = "waiting" /\ w \notin waitEnable
  /\ wpc' = [wpc EXCEPT ![w] = "online"]
  /\ UNCHANGED <<lockVars, chanVars, watch, netVars, loopVars, endVars,
                 shouldEnable, pending, notice, faults>>

TakeDisabled(w) ==  \* Disabled(), under the read lock
  /\ wpc[w] = "online" /\ Brief
  /\ wpc' = [wpc EXCEPT ![w] = "watching"]
  /\ watch' = [watch EXCEPT ![w] = epoch]
  /\ UNCHANGED <<pc, chanVars, netVars, loopVars, endVars,
                 shouldEnable, pending, notice, faults>>

SeeDisabled(w) ==
  /\ wpc[w] = "watching" /\ watch[w] \in closed
  /\ wpc' = [wpc EXCEPT ![w] = "idle"]
  /\ UNCHANGED <<lockVars, chanVars, watch, netVars, loopVars, endVars,
                 shouldEnable, pending, notice, faults>>

-----------------------------------------------------------------------------
Step(t) ==
  \/ ExtraConnect(t) \/ ConnectAsk(t) \/ ConnectTurn(t) \/ ConnectNoToken(t)
  \/ ConnectDial(t) \/ ConnectDone(t)
  \/ ExtraEnable(t) \/ EnableDisconnected(t) \/ EnableEmit(t)
  \/ EnableRefused(t) \/ EnableAcked(t)
  \/ ExtraDisable(t) \/ DisableEmit(t) \/ DisableDone(t) \/ DisableBegin(t)

Job(e) ==
  \/ Tick(e) \/ KeepAliveSend(e) \/ KeepAliveOk(e) \/ KeepAliveKicked(e)
  \/ KeepAliveAbandoned(e) \/ KeepAliveFailed(e) \/ DropTick(e)

Environment ==
  \/ FirstSyncDone \/ Signal \/ StoragesDown
  \/ \E s \in SocketId :
       NamespaceOpen(s) \/ NamespaceNoToken(s) \/ Drop(s) \/ Close(s) \/ Redial(s)

Watch(w) ==
  WaitFast(w) \/ WaitLocked(w) \/ Woken(w) \/ TakeDisabled(w) \/ SeeDisabled(w)

Next ==
  /\ exit = "no"
  /\ \/ \E t \in Threads : Step(t)
     \/ \E e \in Epoch : Job(e)
     \/ Disconnected
     \/ Environment
     \/ \E w \in Watchers : Watch(w)

Spec == Init /\ [][Next]_vars

-----------------------------------------------------------------------------
\* Fairness: the runtime runs every goroutine that can run, sync.RWMutex
\* starves nobody, and the waits for an ack, a keep-alive and a dial have a
\* timeout (six minutes for enable, keepalive-timeout for disable, the dial
\* timeout for Connect).  The wait for the token has none: what ends it is an
\* answer, or the end of the program's context if the request is its own.
\* Nothing obliges the network to deliver, a signal to come or a tick to fail.
WaitsForToken(t) == pc[t] \in {"queue", "token"}

MethodsProgress ==
  /\ \A t \in Threads :
       /\ WF_vars(exit = "no" /\ ~WaitsForToken(t) /\ Step(t))
       /\ WF_vars(exit = "no" /\ ctxDone /\ (ConnectNoToken(t) \/ ConnectDial(t)))
  /\ \A e \in Epoch : WF_vars(exit = "no" /\ (KeepAliveOk(e) \/ DropTick(e)))

FairSpec == Spec /\ MethodsProgress

-----------------------------------------------------------------------------
PcValues == {"idle", "connect", "queue", "token", "dial", "sync", "enable",
             "enableAck", "clear", "disable", "disableAck", "keepalive", "drain", "gone"}

ExitValues == {"no", "auth", "connect", "disconnected", "enable", "toomuch",
               "storage", "kicked", "crash"}

TypeOK ==
  /\ mux \in Threads \union {Nobody}
  /\ pc \in [Threads -> PcValues]
  /\ enabled \in BOOLEAN /\ shouldEnable \in BOOLEAN
  /\ epoch \in 0 .. MaxEpoch
  /\ closed \in SUBSET (0 .. MaxEpoch)
  /\ waitEnable \in SUBSET Watchers
  /\ wpc \in [Watchers -> {"idle", "wait", "waiting", "online", "watching"}]
  /\ watch \in [Watchers -> 0 .. MaxEpoch]
  /\ made \in 0 .. MaxSocket /\ socket \in 0 .. made
  /\ link \in [SocketId -> {"down", "dialing", "up", "open"}]
  /\ closing \in SUBSET SocketId
  /\ reconnectCount \in Nat
  /\ cancelKeepalive \in 0 .. MaxEpoch
  /\ cancelled \in SUBSET Epoch /\ tick \in SUBSET Epoch
  /\ failed \in [Epoch -> Nat]
  /\ pending \in Nat
  /\ ctxDone \in BOOLEAN
  /\ exit \in ExitValues
  /\ notice \in {"none", "online", "offline"}
  /\ faults \in 0 .. MaxFaults

\* disable closes cr.disabled, and closing a closed channel panics: whatever
\* mixture of drops, reconnects and shutdowns came before, a cluster that is
\* enabled, the only one disable closes for, has a channel still open, and a
\* socket to say goodbye on.
DisableIsSafe == enabled => epoch \notin closed /\ socket # 0

\* WaitForEnable looks at the flag, then looks again under the lock: nobody is
\* left in cr.waitEnable while the cluster is enabled.
NoLostWakeup == enabled => waitEnable = {}

\* An enabled cluster is kept alive: cancelKeepalive belongs to the interval of
\* the latest Enable, whose context is live, even when a `disconnected` of an
\* earlier connection ran late.
EnabledKeepsAlive ==
  enabled /\ mux = Nobody /\ exit = "no" /\ ~ctxDone =>
    /\ cancelKeepalive = epoch /\ Alive(epoch)
    /\ pc[Loop(epoch)] # "gone"

\* While no connection is lost, every disabled channel but the current one is
\* closed, and the current one too once the cluster is off: nobody who took
\* one from Disabled() sleeps through the end it waits for.
DisabledIsSignalled ==
  /\ \A e \in 0 .. epoch - 1 : e \in closed
  /\ ~enabled => epoch \in closed

\* While no connection is lost, there is at most one live keep-alive interval.
SingleKeepalive == \A e \in 1 .. epoch : e \notin cancelled => e = epoch

\* Enable and disable, as the users of WaitForEnable and Disabled see them.
Seen == INSTANCE Presence
          WITH on <- enabled, generation <- epoch, ended <- closed
ImplementsPresence == Seen!PresenceSpec

\* A shutdown finishes: no path through Connect, Enable or disable keeps the lock
\* for ever, so Disable gets it and returns.  The end of the context ends a Connect
\* that asks for the token itself, but not one that stands behind another goroutine
\* that asks for it: those must end.
QueueEnds == \A t \in Threads : []<>(pc[t] # "queue")

ShutdownCompletes ==
  QueueEnds => (pc[Shut] # "idle" ~> pc[Shut] = "gone" \/ exit # "no")

\* While no connection is lost, a cluster that should be enabled becomes
\* enabled, or the process gives up or is told to stop: a failed keep-alive
\* leaves it off only as long as the center owes the answer to a request for
\* a token, for which nobody has set a time.
TokenAnswered == \A t \in Threads : []<>~WaitsForToken(t)

ComesBackOrExits ==
  TokenAnswered =>
    (shouldEnable /\ ~enabled ~> enabled \/ exit # "no" \/ ~shouldEnable \/ ctxDone)

\* README.MD:157, max-reconnect-count: the number of retries, -1 unlimited.
\* The process gives up connecting only after that many retries.
GivesUpOnlyAfterRetries ==
  exit \in {"connect", "toomuch"} =>
    MaxReconnectCount # -1 /\ reconnectCount >= MaxReconnectCount

\* README.MD:28: notifications are sent when the node goes on or off line.  A
\* node that was never on line cannot go off line.
FirstNoticeIsOnline == [][notice = "none" => notice' # "offline"]_notice
=============================================================================
