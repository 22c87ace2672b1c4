----------------------- MODULE ClusterLifecycleProofs -----------------------
(***************************************************************************)
(* What holds of ClusterLifecycle for every bound, every retry setting and  *)
(* every behaviour of the socket library: the types, the safety of disable, *)
(* the absence of lost wake-ups, the keep-alive of an enabled cluster, and   *)
(* the refinement of Presence; and, while no connection is lost (Calm), that *)
(* every end is announced and that no keep-alive interval is left over.      *)
(***************************************************************************)
EXTENDS ClusterLifecycle, TLAPS

\* The program points at which a thread waits with cr.mux held: those of Connect,
\* and the others.
Connecting == {"queue", "token", "dial"}
Held == Connecting \union {"enableAck", "disableAck"}

\* The lock and the program counters agree, and what a holder saw when it took
\* the lock is still so.
LockInv ==
  /\ \A t \in Threads : pc[t] \in Held => mux = t
  /\ \A t \in Threads : pc[t] = "enableAck" => ~enabled /\ socket # 0
  /\ \A t \in Threads : pc[t] = "disableAck" => enabled
  /\ \A t \in Threads : pc[t] \in Connecting => ~enabled

\* No channel is closed before it is made.
ChannelInv ==
  /\ closed \subseteq 0 .. epoch
  /\ DisableIsSafe
  /\ NoLostWakeup

IInv == TypeOK /\ LockInv /\ ChannelInv

LEMMA NobodyIsNoThread == Nobody \notin Threads
  BY DEF Nobody, Threads, Main, Shut, Failing, Loops, Callbacks, Loop, OnConn

LEMMA NamedThreads ==
  /\ Main \in Threads /\ Shut \in Threads /\ Failing \in Threads
  /\ \A e \in Epoch : Loop(e) \in Threads
  /\ \A s \in SocketId : OnConn(s) \in Threads
  BY DEF Threads, Loops, Callbacks

LEMMA InitInv == Init => IInv
  <1> SUFFICES ASSUME Init PROVE IInv
    OBVIOUS
  <1> USE LifecycleAssumption DEF Init
  <1>1. TypeOK
    <2>1. pc \in [Threads -> PcValues]
      BY DEF PcValues
    <2>2. /\ epoch \in 0 .. MaxEpoch /\ closed \in SUBSET (0 .. MaxEpoch)
          /\ watch \in [Watchers -> 0 .. MaxEpoch]
          /\ made \in 0 .. MaxSocket /\ socket \in 0 .. made
          /\ cancelKeepalive \in 0 .. MaxEpoch /\ faults \in 0 .. MaxFaults
      OBVIOUS
    <2>3. /\ failed \in [Epoch -> Nat]
          /\ link \in [SocketId -> {"down", "dialing", "up", "open"}]
          /\ wpc \in [Watchers -> {"idle", "wait", "waiting", "online", "watching"}]
      OBVIOUS
    <2> QED BY <2>1, <2>2, <2>3 DEF TypeOK, ExitValues
  <1>2. LockInv
    BY DEF LockInv, Held, Connecting
  <1>3. ChannelInv
    BY DEF ChannelInv, DisableIsSafe, NoLostWakeup
  <1> QED BY <1>1, <1>2, <1>3 DEF IInv

-----------------------------------------------------------------------------
\* Thread t goes on to a point where it does not hold the lock.
Moves(t) ==
  /\ exit' \in ExitValues
  /\ \E p \in PcValues \ Held : pc' = [pc EXCEPT ![t] = p]

LEMMA ExitMoves ==
  ASSUME TypeOK, NEW t,
         NEW why \in ExitValues, Exit(t, why) \/ Crash(t)
  PROVE  Moves(t)
  BY DEF TypeOK, Exit, Crash, Moves, ExitValues, PcValues, Held, Connecting

LEMMA GotoMoves ==
  ASSUME TypeOK, NEW t, NEW p \in PcValues \ Held, Goto(t, p)
  PROVE  Moves(t)
  BY DEF TypeOK, Goto, Moves

LEMMA AfterMoves ==
  ASSUME TypeOK, NEW t,
         \/ AfterConnect(t, TRUE) \/ AfterConnect(t, FALSE)
         \/ AfterEnable(t, TRUE) \/ AfterEnable(t, FALSE)
         \/ AfterDisable(t)
  PROVE  Moves(t)
  <1>1. ASSUME NEW ok \in BOOLEAN, AfterConnect(t, ok)
        PROVE  Moves(t)
    <2>1. CASE ok
      BY <1>1, <2>1, GotoMoves DEF AfterConnect, PcValues, Held, Connecting
    <2>2. CASE ~ok
      BY <1>1, <2>2, GotoMoves, ExitMoves DEF AfterConnect, PcValues, Held, Connecting,
         ExitValues
    <2> QED BY <2>1, <2>2
  <1>2. ASSUME NEW ok \in BOOLEAN, AfterEnable(t, ok)
        PROVE  Moves(t)
    <2>1. CASE ok \/ (ctxDone /\ t \notin Callbacks)
      BY <1>2, <2>1, GotoMoves DEF AfterEnable, PcValues, Held, Connecting
    <2>2. CASE ~(ok \/ (ctxDone /\ t \notin Callbacks))
      BY <1>2, <2>2, ExitMoves DEF AfterEnable, ExitValues
    <2> QED BY <2>1, <2>2
  <1>3. ASSUME AfterDisable(t)
        PROVE  Moves(t)
    <2>1. CASE t = Failing
      BY <1>3, <2>1, ExitMoves DEF AfterDisable, ExitValues
    <2>2. CASE t # Failing
      BY <1>3, <2>2, GotoMoves DEF AfterDisable, PcValues, Held, Connecting
    <2> QED BY <2>1, <2>2
  <1> QED BY <1>1, <1>2, <1>3

\* A step of a thread outside the lock, which touches nothing the lock guards.
LEMMA OutsideStep ==
  ASSUME IInv, NEW t \in Threads, pc[t] \notin Held, Moves(t),
         UNCHANGED <<mux, chanVars, socket>>
  PROVE  LockInv' /\ ChannelInv'
  <1> PICK p \in PcValues \ Held : pc' = [pc EXCEPT ![t] = p]
    BY DEF Moves
  <1>0. \A u \in Threads : pc'[u] \in Held => u # t /\ pc'[u] = pc[u]
    BY DEF IInv, TypeOK
  <1>1. LockInv'
    BY <1>0 DEF IInv, LockInv, chanVars, Held, Connecting
  <1>2. ChannelInv'
    BY DEF IInv, ChannelInv, DisableIsSafe, NoLostWakeup, chanVars
  <1> QED BY <1>1, <1>2


\* The types survive when a thread moves and nothing else but shouldEnable does.
LEMMA MoveKeepsTypes ==
  ASSUME IInv, NEW t \in Threads, Moves(t),
         UNCHANGED <<mux, chanVars, watchVars, netVars, loopVars, ctxDone,
                     pending, notice, faults>>,
         shouldEnable' \in BOOLEAN
  PROVE  TypeOK'
  <1>1. pc' \in [Threads -> PcValues]
    BY DEF Moves, IInv, TypeOK
  <1> QED
    BY <1>1 DEF Moves, IInv, TypeOK, chanVars, watchVars, netVars, loopVars

LEMMA OutsideMethods ==
  ASSUME IInv, NEW t \in Threads,
         \/ ExtraConnect(t)
         \/ ExtraEnable(t) \/ EnableDisconnected(t)
         \/ ExtraDisable(t) \/ DisableBegin(t)
  PROVE  IInv'
  <1> USE DEF Brief, Held, Connecting
  <1>0. TypeOK /\ shouldEnable \in BOOLEAN
    BY DEF IInv, TypeOK
  <1>1. /\ pc[t] \notin Held /\ Moves(t)
        /\ UNCHANGED <<mux, chanVars, watchVars, netVars, loopVars, ctxDone,
                       pending, notice, faults>>
        /\ shouldEnable' \in BOOLEAN
    <2>1. CASE ExtraConnect(t)
      BY <1>0, <2>1, AfterMoves DEF ExtraConnect
    <2>3. CASE ExtraEnable(t)
      BY <1>0, <2>3, AfterMoves DEF ExtraEnable
    <2>4. CASE EnableDisconnected(t)
      BY <1>0, <2>4, ExitMoves DEF EnableDisconnected, ExitValues
    <2>5. CASE ExtraDisable(t)
      BY <1>0, <2>5, AfterMoves DEF ExtraDisable
    <2>6. CASE DisableBegin(t)
      BY <1>0, <2>6, GotoMoves DEF DisableBegin, PcValues
    <2> QED BY <2>1, <2>3, <2>4, <2>5, <2>6
  <1>2. UNCHANGED socket
    BY <1>1 DEF netVars
  <1> QED BY <1>1, <1>2, MoveKeepsTypes, OutsideStep DEF IInv

\* A thread that takes the lock or goes on with it, and one that leaves it.
LEMMA Taking ==
  ASSUME IInv, NEW t \in Threads, mux \in {Nobody, t}, mux' = t,
         NEW p \in Held, pc' = [pc EXCEPT ![t] = p],
         p = "enableAck" => ~enabled' /\ socket' # 0,
         p = "disableAck" => enabled',
         p \in Connecting => ~enabled'
  PROVE  LockInv'
  <1>1. \A u \in Threads : pc[u] \in Held => u = t
    BY NobodyIsNoThread DEF IInv, LockInv
  <1>2. \A u \in Threads : pc'[u] \in Held => u = t /\ pc'[u] = p
    BY <1>1 DEF IInv, TypeOK
  <1> QED BY <1>2 DEF LockInv, Held, Connecting

LEMMA Leaving ==
  ASSUME IInv, NEW t \in Threads, mux = t, Moves(t)
  PROVE  \A u \in Threads : pc'[u] \notin Held
  BY NobodyIsNoThread DEF Moves, IInv, LockInv, TypeOK


LEMMA ConnectStep ==
  ASSUME IInv, NEW t \in Threads,
         \/ ConnectAsk(t) \/ ConnectTurn(t) \/ ConnectNoToken(t)
         \/ ConnectDial(t) \/ ConnectDone(t)
  PROVE  IInv'
  <1> USE LifecycleAssumption
  <1>0. TypeOK
    BY DEF IInv
  <1>1. CASE ConnectDial(t)
    <2> USE <1>1 DEF ConnectDial
    <2>1. /\ made' = made + 1 /\ socket' = made + 1 /\ made + 1 \in 1 .. MaxSocket
          /\ ~enabled /\ mux = t
      BY DEF IInv, TypeOK, LockInv, Held, Connecting
    <2>2. pc' = [pc EXCEPT ![t] = "dial"] /\ exit' = exit
      BY DEF Goto
    <2>3. pc' \in [Threads -> PcValues]
      BY <2>2 DEF IInv, TypeOK, PcValues
    <2>4. link' \in [SocketId -> {"down", "dialing", "up", "open"}]
      BY DEF IInv, TypeOK
    <2>5. TypeOK'
      BY <2>1, <2>2, <2>3, <2>4 DEF IInv, TypeOK, chanVars, watchVars, loopVars
    <2>6. LockInv'
      <3>1. "dial" \in Held /\ ~enabled' /\ mux' = t
        BY <2>1 DEF Held, Connecting, chanVars
      <3> QED BY <2>1, <2>2, <3>1, Taking
    <2>7. ChannelInv'
      BY <2>1 DEF IInv, ChannelInv, DisableIsSafe, NoLostWakeup, chanVars
    <2> QED BY <2>5, <2>6, <2>7 DEF IInv
  <1>3. CASE ConnectAsk(t) \/ ConnectTurn(t)
    <2>1. PICK p \in {"queue", "token"} : pc' = [pc EXCEPT ![t] = p] /\ exit' = exit
      BY <1>3 DEF ConnectAsk, ConnectTurn, Goto
    <2>2. /\ mux \in {Nobody, t} /\ mux' = t /\ ~enabled
          /\ UNCHANGED <<chanVars, watchVars, netVars, loopVars, ctxDone,
                         shouldEnable, pending, notice, faults>>
      BY <1>3 DEF ConnectAsk, ConnectTurn, Acquire, IInv, LockInv, Held, Connecting,
                  ChannelInv, DisableIsSafe
    <2>3. TypeOK'
      <3>1. pc' \in [Threads -> PcValues]
        BY <1>0, <2>1 DEF TypeOK, PcValues
      <3> QED BY <1>0, <2>1, <2>2, <3>1
              DEF TypeOK, chanVars, watchVars, netVars, loopVars
    <2>4. LockInv'
      BY <2>1, <2>2, Taking DEF Held, Connecting, chanVars
    <2>5. ChannelInv'
      BY <2>2 DEF IInv, ChannelInv, DisableIsSafe, NoLostWakeup, chanVars, netVars
    <2> QED BY <2>3, <2>4, <2>5 DEF IInv
  <1>4. CASE ConnectNoToken(t)
    <2> USE <1>4 DEF ConnectNoToken, Release
    <2>1. Moves(t)
      BY <1>0, ExitMoves DEF ExitValues
    <2>2. pc' \in [Threads -> PcValues]
      BY <2>1 DEF Moves, IInv, TypeOK
    <2>3. TypeOK'
      BY <2>1, <2>2 DEF Moves, IInv, TypeOK, chanVars, watchVars, netVars, loopVars
    <2>4. LockInv'
      BY <2>1, Leaving DEF LockInv, Held, Connecting
    <2>5. ChannelInv'
      BY DEF IInv, ChannelInv, DisableIsSafe, NoLostWakeup, chanVars, netVars
    <2> QED BY <2>3, <2>4, <2>5 DEF IInv
  <1>2. CASE ConnectDone(t)
    <2> USE <1>2 DEF ConnectDone, Release
    <2>1. Moves(t)
      BY AfterMoves DEF IInv
    <2>2. pc' \in [Threads -> PcValues]
      BY <2>1 DEF Moves, IInv, TypeOK
    <2>3. link' \in [SocketId -> {"down", "dialing", "up", "open"}]
      BY DEF IInv, TypeOK
    <2>4. TypeOK'
      BY <2>1, <2>2, <2>3 DEF Moves, IInv, TypeOK, chanVars, watchVars, loopVars
    <2>5. LockInv'
      BY <2>1, Leaving DEF LockInv, Held, Connecting
    <2>6. ChannelInv'
      BY DEF IInv, ChannelInv, DisableIsSafe, NoLostWakeup, chanVars
    <2> QED BY <2>4, <2>5, <2>6 DEF IInv
  <1> QED BY <1>1, <1>2, <1>3, <1>4

LEMMA EnableStep ==
  ASSUME IInv, NEW t \in Threads,
         EnableEmit(t) \/ EnableRefused(t) \/ EnableAcked(t)
  PROVE  IInv'
  <1> USE LifecycleAssumption
  <1>0. TypeOK
    BY DEF IInv
  <1>1. CASE EnableEmit(t)
    <2> USE <1>1 DEF EnableEmit, MayEnable
    <2>1. CASE UNCHANGED mux
      <3>1. Moves(t)
        <4>1. CASE socket = 0
          BY <1>0, <4>1, ExitMoves DEF ExitValues
        <4>2. CASE socket # 0
          BY <1>0, <2>1, <4>2, AfterMoves, NobodyIsNoThread
        <4> QED BY <4>1, <4>2
      <3>2. pc[t] \notin Held /\ UNCHANGED socket
        BY DEF Held, Connecting, netVars
      <3> QED BY <2>1, <3>1, <3>2, MoveKeepsTypes, OutsideStep DEF IInv
    <2>2. CASE mux' # mux
      <3>1. /\ mux' = t /\ socket # 0 /\ ~enabled
            /\ pc' = [pc EXCEPT ![t] = "enableAck"] /\ exit' = exit
        BY <2>2 DEF Goto
      <3>2. pc' \in [Threads -> PcValues]
        BY <3>1 DEF IInv, TypeOK, PcValues
      <3>3. TypeOK'
        BY <3>1, <3>2 DEF IInv, TypeOK, chanVars, watchVars, netVars, loopVars
      <3>4. LockInv'
        <4>1. "enableAck" \in Held /\ ~enabled' /\ socket' # 0 /\ mux \in {Nobody, t}
          BY <3>1 DEF Held, chanVars, netVars
        <4>2. "enableAck" \notin Connecting
          BY DEF Connecting
        <4> QED BY <3>1, <4>1, <4>2, Taking
      <3>5. ChannelInv'
        BY DEF IInv, ChannelInv, DisableIsSafe, NoLostWakeup, chanVars, netVars
      <3> QED BY <3>3, <3>4, <3>5 DEF IInv
    <2> QED BY <2>1, <2>2
  <1>2. CASE EnableRefused(t)
    <2> USE <1>2 DEF EnableRefused, Release
    <2>1. Moves(t)
      BY <1>0, AfterMoves
    <2>2. pc' \in [Threads -> PcValues]
      BY <2>1 DEF Moves, IInv, TypeOK
    <2>3. TypeOK'
      BY <2>1, <2>2 DEF Moves, IInv, TypeOK, chanVars, watchVars, netVars, loopVars
    <2>4. LockInv'
      BY <2>1, Leaving DEF LockInv, Held, Connecting
    <2>5. ChannelInv'
      BY DEF IInv, ChannelInv, DisableIsSafe, NoLostWakeup, chanVars, netVars
    <2> QED BY <2>3, <2>4, <2>5 DEF IInv
  <1>3. CASE EnableAcked(t)
    <2> USE <1>3 DEF EnableAcked, Release
    <2>1. Moves(t)
      BY <1>0, AfterMoves
    <2>2. pc' \in [Threads -> PcValues]
      BY <2>1 DEF Moves, IInv, TypeOK
    <2>3. epoch' = epoch + 1 /\ epoch + 1 \in 1 .. MaxEpoch
      BY DEF IInv, TypeOK
    <2>4. TypeOK'
      BY <2>1, <2>2, <2>3 DEF Moves, IInv, TypeOK, watchVars
    <2>5. LockInv'
      BY <2>1, Leaving DEF LockInv, Held, Connecting
    <2>6. socket # 0
      BY DEF IInv, LockInv
    <2>7. ChannelInv'
      BY <2>3, <2>6 DEF IInv, TypeOK, ChannelInv, DisableIsSafe, NoLostWakeup
    <2> QED BY <2>4, <2>5, <2>7 DEF IInv
  <1> QED BY <1>1, <1>2, <1>3


LEMMA CancelTypes ==
  ASSUME TypeOK, CancelKeepalive
  PROVE  cancelled' \in SUBSET Epoch /\ cancelKeepalive' \in 0 .. MaxEpoch
  BY LifecycleAssumption DEF TypeOK, CancelKeepalive, Epoch

LEMMA DisableStep ==
  ASSUME IInv, NEW t \in Threads, DisableEmit(t) \/ DisableDone(t)
  PROVE  IInv'
  <1> USE LifecycleAssumption
  <1>0. TypeOK
    BY DEF IInv
  <1>1. CASE DisableEmit(t)
    <2> USE <1>1 DEF DisableEmit
    <2>1. /\ socket # 0 /\ mux' = t /\ UNCHANGED notice
          /\ pc' = [pc EXCEPT ![t] = "disableAck"] /\ exit' = exit
      BY DEF IInv, ChannelInv, DisableIsSafe, Goto
    <2>2. pc' \in [Threads -> PcValues]
      BY <2>1 DEF IInv, TypeOK, PcValues
    <2>3. TypeOK'
      BY <1>0, <2>1, <2>2, CancelTypes DEF TypeOK, chanVars, watchVars, netVars
    <2>4. LockInv'
      BY <2>1, Taking DEF Held, Connecting, chanVars
    <2>5. ChannelInv'
      BY DEF IInv, ChannelInv, DisableIsSafe, NoLostWakeup, chanVars, netVars
    <2> QED BY <2>3, <2>4, <2>5 DEF IInv
  <1>2. CASE DisableDone(t)
    <2> USE <1>2 DEF DisableDone, Release, TurnOff, DropSocket, AnnounceEnd
    <2>1. Moves(t)
      BY <1>0, AfterMoves
    <2>2. pc' \in [Threads -> PcValues]
      BY <2>1 DEF Moves, IInv, TypeOK
    <2>3. socket \in SocketId /\ epoch \in 0 .. MaxEpoch
      BY DEF IInv, TypeOK, LockInv, ChannelInv, DisableIsSafe, SocketId
    <2>4. closing' \in SUBSET SocketId /\ closed' \in SUBSET (0 .. MaxEpoch)
      BY <2>3 DEF IInv, TypeOK
    <2>5. TypeOK'
      <3>1. socket' \in 0 .. made'
        BY DEF IInv, TypeOK
      <3>2. /\ mux' \in Threads \union {Nobody} /\ enabled' \in BOOLEAN
            /\ notice' \in {"none", "online", "offline"}
        OBVIOUS
      <3> QED
        BY <2>1, <2>2, <2>4, <3>1, <3>2
           DEF Moves, IInv, TypeOK, watchVars, loopVars
    <2>6. LockInv'
      BY <2>1, Leaving DEF LockInv, Held, Connecting
    <2>7. ChannelInv'
      BY <2>3 DEF IInv, ChannelInv, DisableIsSafe, NoLostWakeup
    <2> QED BY <2>5, <2>6, <2>7 DEF IInv
  <1> QED BY <1>1, <1>2

LEMMA DisconnectedStep ==
  ASSUME IInv, Disconnected
  PROVE  IInv'
  <1> USE DEF Disconnected, Brief
  <1>1. TypeOK'
    <2>1. cancelled' \in SUBSET Epoch /\ cancelKeepalive' \in 0 .. MaxEpoch
      BY CancelTypes DEF IInv, TypeOK
    <2>2. pending' \in Nat /\ enabled' \in BOOLEAN
          /\ notice' \in {"none", "online", "offline"}
      <3>1. pending' \in Nat
        BY DEF IInv, TypeOK
      <3>2. enabled' \in BOOLEAN /\ notice' \in {"none", "online", "offline"}
        BY Zenon DEF IInv, TypeOK
      <3> QED BY <3>1, <3>2
    <2> QED BY <2>1, <2>2 DEF IInv, TypeOK, watchVars, netVars, endVars
  <1>2. LockInv'
    BY NobodyIsNoThread DEF IInv, LockInv, Held, Connecting, netVars
  <1>3. ChannelInv'
    BY DEF IInv, ChannelInv, DisableIsSafe, NoLostWakeup, netVars
  <1> QED BY <1>1, <1>2, <1>3 DEF IInv

LEMMA JobStep ==
  ASSUME IInv, NEW e \in Epoch, Job(e)
  PROVE  IInv'
  <1> USE LifecycleAssumption, NamedThreads
  <1>0. TypeOK
    BY DEF IInv
  <1>1. CASE Tick(e)
    <2>0. tick' \in SUBSET Epoch
      BY <1>0, <1>1 DEF Tick, TypeOK
    <2>1. TypeOK'
      BY <1>1, <2>0 DEF Tick, IInv, TypeOK, lockVars, chanVars, watchVars, netVars,
         endVars
    <2>2. LockInv'
      BY <1>1 DEF Tick, IInv, LockInv, Held, Connecting, lockVars, chanVars, netVars
    <2>3. ChannelInv'
      BY <1>1 DEF Tick, IInv, ChannelInv, DisableIsSafe, NoLostWakeup, chanVars, netVars
    <2> QED BY <2>1, <2>2, <2>3 DEF IInv
  <1>2. CASE ~Tick(e)
    <2>1. /\ pc[Loop(e)] \notin Held /\ Moves(Loop(e))
          /\ UNCHANGED <<mux, chanVars, watchVars, netVars, cancelKeepalive,
                         cancelled, ctxDone, shouldEnable, pending, notice>>
          /\ tick' \in SUBSET Epoch /\ failed' \in [Epoch -> Nat]
          /\ faults' \in 0 .. MaxFaults
      <3> USE <1>0 DEF Held, Connecting
      <3>1. CASE KeepAliveSend(e)
        BY <3>1, ExitMoves, GotoMoves DEF KeepAliveSend, TypeOK, PcValues
      <3>2. CASE KeepAliveOk(e)
        BY <3>2, GotoMoves DEF KeepAliveOk, TypeOK, PcValues
      <3>3. CASE KeepAliveKicked(e)
        BY <3>3, ExitMoves DEF KeepAliveKicked, TypeOK, ExitValues, loopVars
      <3>4. CASE KeepAliveAbandoned(e)
        BY <3>4, GotoMoves DEF KeepAliveAbandoned, TypeOK, PcValues, loopVars
      <3>5. CASE KeepAliveFailed(e)
        <4>1. PICK timedOut \in BOOLEAN :
                /\ failed' = IF timedOut THEN [failed EXCEPT ![e] = @ + 1] ELSE failed
                /\ Goto(Loop(e), IF timedOut /\ failed[e] + 1 < 3 THEN "drain"
                                                                 ELSE "disable")
          BY <3>5 DEF KeepAliveFailed
        <4>2. Moves(Loop(e))
          BY <4>1, GotoMoves DEF PcValues
        <4>3. failed' \in [Epoch -> Nat]
          BY <4>1 DEF TypeOK
        <4> QED BY <3>5, <4>2, <4>3 DEF KeepAliveFailed, TypeOK
      <3>6. CASE DropTick(e)
        BY <3>6, GotoMoves DEF DropTick, TypeOK, PcValues
      <3> QED BY <1>2, <3>1, <3>2, <3>3, <3>4, <3>5, <3>6 DEF Job
    <2>2. pc' \in [Threads -> PcValues]
      BY <2>1 DEF Moves, IInv, TypeOK
    <2>3. TypeOK'
      BY <2>1, <2>2 DEF Moves, IInv, TypeOK, chanVars, watchVars, netVars
    <2>4. UNCHANGED socket
      BY <2>1 DEF netVars
    <2> QED BY <2>1, <2>3, <2>4, OutsideStep DEF IInv
  <1> QED BY <1>1, <1>2


LEMMA EnvironmentStep ==
  ASSUME IInv, Environment
  PROVE  IInv'
  <1> USE LifecycleAssumption, NamedThreads
  <1>0. TypeOK
    BY DEF IInv
  <1>1. CASE FirstSyncDone \/ Signal \/ StoragesDown
    <2>1. PICK t \in Threads :
            /\ pc[t] \notin Held /\ Moves(t)
            /\ UNCHANGED <<mux, chanVars, watchVars, netVars, loopVars,
                           shouldEnable, pending, notice, faults>>
            /\ ctxDone' \in BOOLEAN
      <3> USE <1>0 DEF Held, Connecting
      <3>1. CASE FirstSyncDone
        BY <3>1, GotoMoves DEF FirstSyncDone, PcValues, TypeOK
      <3>2. CASE Signal
        BY <3>2, GotoMoves DEF Signal, PcValues, TypeOK
      <3>3. CASE StoragesDown
        BY <3>3, GotoMoves DEF StoragesDown, PcValues, TypeOK
      <3> QED BY <1>1, <3>1, <3>2, <3>3
    <2>2. pc' \in [Threads -> PcValues]
      BY <2>1 DEF Moves, IInv, TypeOK
    <2>3. TypeOK'
      BY <1>0, <2>1, <2>2 DEF Moves, TypeOK, chanVars, watchVars, netVars, loopVars
    <2>4. UNCHANGED socket
      BY <2>1 DEF netVars
    <2> QED BY <2>1, <2>3, <2>4, OutsideStep DEF IInv
  <1>2. ASSUME NEW s \in SocketId, NamespaceOpen(s)
        PROVE  IInv'
    <2> USE <1>2 DEF NamespaceOpen
    <2>1. link' \in [SocketId -> {"down", "dialing", "up", "open"}]
      BY DEF IInv, TypeOK
    <2>2. CASE shouldEnable
      <3>1. Moves(OnConn(s)) /\ pc[OnConn(s)] \notin Held
        BY <1>0, <2>2, GotoMoves DEF PcValues, Held, Connecting
      <3>2. pc' \in [Threads -> PcValues]
        BY <3>1 DEF Moves, IInv, TypeOK
      <3>3. TypeOK'
        BY <1>0, <2>1, <3>1, <3>2 DEF Moves, TypeOK, chanVars, watchVars, loopVars
      <3> QED BY <3>1, <3>3, OutsideStep DEF IInv
    <2>3. CASE ~shouldEnable
      <3>1. TypeOK'
        BY <1>0, <2>1, <2>3 DEF TypeOK, chanVars, watchVars, loopVars
      <3>2. LockInv' /\ ChannelInv'
        BY <2>3 DEF IInv, LockInv, Held, Connecting, ChannelInv, DisableIsSafe,
           NoLostWakeup, chanVars
      <3> QED BY <3>1, <3>2 DEF IInv
    <2> QED BY <2>2, <2>3
  <1>3. ASSUME NEW s \in SocketId,
               Drop(s) \/ Close(s) \/ Redial(s) \/ NamespaceNoToken(s)
        PROVE  IInv'
    <2>1. /\ link' \in [SocketId -> {"down", "dialing", "up", "open"}]
          /\ reconnectCount' \in Nat /\ exit' \in ExitValues /\ pending' \in Nat
          /\ closing' \in SUBSET SocketId /\ faults' \in 0 .. MaxFaults
      <3>1. ASSUME NEW ns \in BOOLEAN, Lost(s, ns)
            PROVE  /\ link' \in [SocketId -> {"down", "dialing", "up", "open"}]
                   /\ reconnectCount' \in Nat /\ exit' \in ExitValues
                   /\ pending' \in Nat
        BY <1>0, <3>1 DEF Lost, TypeOK, ExitValues
      <3>2. CASE Drop(s)
        BY <1>0, <3>1, <3>2 DEF Drop, TypeOK
      <3>3. CASE Close(s)
        BY <1>0, <3>1, <3>3 DEF Close, TypeOK
      <3>4. CASE Redial(s)
        BY <1>0, <3>4 DEF Redial, TypeOK, ExitValues
      <3>5. CASE NamespaceNoToken(s)
        BY <1>0, <3>5 DEF NamespaceNoToken, TypeOK, ExitValues, netVars
      <3> QED BY <1>3, <3>2, <3>3, <3>4, <3>5
    <2>2. UNCHANGED <<lockVars, chanVars, watchVars, socket, made, loopVars,
                      ctxDone, shouldEnable, notice>>
      BY <1>3 DEF Drop, Close, Redial, NamespaceNoToken, netVars
    <2>3. TypeOK'
      BY <1>0, <2>1, <2>2 DEF TypeOK, lockVars, chanVars, watchVars, loopVars
    <2>4. LockInv' /\ ChannelInv'
      BY <2>2 DEF IInv, LockInv, Held, Connecting, ChannelInv, DisableIsSafe,
         NoLostWakeup,
                  lockVars, chanVars
    <2> QED BY <2>3, <2>4 DEF IInv
  <1> QED BY <1>1, <1>2, <1>3 DEF Environment

LEMMA WatchStep ==
  ASSUME IInv, NEW w \in Watchers, Watch(w)
  PROVE  IInv'
  <1>0. TypeOK
    BY DEF IInv
  <1>1. /\ wpc' \in [Watchers -> {"idle", "wait", "waiting", "online", "watching"}]
        /\ watch' \in [Watchers -> 0 .. MaxEpoch]
        /\ waitEnable' \in SUBSET Watchers
    <2>1. CASE WaitFast(w)
      BY <1>0, <2>1 DEF WaitFast, TypeOK, chanVars
    <2>2. CASE WaitLocked(w)
      BY <1>0, <2>2 DEF WaitLocked, TypeOK
    <2>3. CASE Woken(w)
      BY <1>0, <2>3 DEF Woken, TypeOK, chanVars
    <2>4. CASE TakeDisabled(w)
      BY <1>0, <2>4 DEF TakeDisabled, TypeOK, chanVars
    <2>5. CASE SeeDisabled(w)
      BY <1>0, <2>5 DEF SeeDisabled, TypeOK, chanVars
    <2> QED BY <2>1, <2>2, <2>3, <2>4, <2>5 DEF Watch
  <1>2. /\ UNCHANGED <<lockVars, enabled, epoch, closed, netVars, loopVars,
                       endVars, shouldEnable, pending, notice, faults>>
        /\ enabled => UNCHANGED waitEnable
    BY DEF Watch, WaitFast, WaitLocked, SeenUnderLock, Woken, TakeDisabled,
           SeeDisabled, chanVars, lockVars, Brief
  <1>3. TypeOK'
    BY <1>0, <1>1, <1>2 DEF TypeOK, lockVars, netVars, loopVars, endVars
  <1>4. LockInv' /\ ChannelInv'
    BY <1>2 DEF IInv, LockInv, Held, Connecting, ChannelInv, DisableIsSafe, NoLostWakeup,
                lockVars, netVars
  <1> QED BY <1>3, <1>4 DEF IInv

LEMMA StepInv == IInv /\ [Next]_vars => IInv'
  <1> SUFFICES ASSUME IInv, [Next]_vars PROVE IInv'
    OBVIOUS
  <1>1. ASSUME NEW t \in Threads, Step(t) PROVE IInv'
    BY <1>1, OutsideMethods, ConnectStep, EnableStep, DisableStep DEF Step
  <1>2. CASE UNCHANGED vars
    <2> USE <1>2 DEF vars, lockVars, chanVars, watchVars, netVars, loopVars, endVars
    <2>1. TypeOK'
      BY DEF IInv, TypeOK
    <2>2. LockInv' /\ ChannelInv'
      BY DEF IInv, LockInv, Held, Connecting, ChannelInv, DisableIsSafe, NoLostWakeup
    <2> QED BY <2>1, <2>2 DEF IInv
  <1> QED
    BY <1>1, <1>2, JobStep, DisconnectedStep, EnvironmentStep, WatchStep DEF Next

-----------------------------------------------------------------------------
LEMMA Invariance == Spec => []IInv
  BY InitInv, StepInv, PTL DEF Spec

\* Every variable keeps its type (cluster.go:86-93 and the control state).
THEOREM TypeCorrect == Spec => []TypeOK
  <1>1. IInv => TypeOK
    BY DEF IInv
  <1> QED BY <1>1, Invariance, PTL

\* However drops, reconnects, keep-alive failures and shutdowns interleave,
\* disable never closes a closed channel and never lacks a socket
\* (cluster.go:662-710).
THEOREM DisableSafety == Spec => []DisableIsSafe
  <1>1. IInv => DisableIsSafe
    BY DEF IInv, ChannelInv
  <1> QED BY <1>1, Invariance, PTL

\* No caller of WaitForEnable is left waiting while the cluster is enabled
\* (cluster.go:419-433, 531-535).
THEOREM NoWakeupIsLost == Spec => []NoLostWakeup
  <1>1. IInv => NoLostWakeup
    BY DEF IInv, ChannelInv
  <1> QED BY <1>1, Invariance, PTL

-----------------------------------------------------------------------------
\* What EnabledKeepsAlive needs: with the lock free, an enabled cluster has the
\* interval of its latest Enable; no interval ends before the process does.
KeepInv ==
  /\ cancelled \subseteq 0 .. epoch /\ cancelKeepalive \in 0 .. epoch
  /\ enabled => epoch # 0
  /\ enabled /\ mux = Nobody => cancelKeepalive = epoch /\ epoch \notin cancelled
  /\ exit = "no" /\ ~ctxDone => \A e \in Epoch : pc[Loop(e)] # "gone"

\* Lemma: a keep-alive loop ends only when the process does.
LEMMA LoopsStay ==
  ASSUME IInv, KeepInv, Next, exit' = "no", ~ctxDone', NEW e \in Epoch
  PROVE  pc'[Loop(e)] # "gone"
  <1>a. /\ pc[Loop(e)] # "gone" \/ ctxDone
        /\ pc \in [Threads -> PcValues] /\ Loop(e) \in Threads
        /\ Loop(e) # Main /\ Loop(e) # Shut /\ Loop(e) # Failing
    BY NamedThreads DEF KeepInv, Next, IInv, TypeOK, Loop, Main, Shut, Failing
  <1> USE DEF ExitValues
  <1>0. ctxDone' = FALSE => ctxDone = FALSE
    BY DEF Next, Step, ExtraConnect, ConnectAsk, ConnectTurn, ConnectNoToken,
       ConnectDial, ConnectDone,
           ExtraEnable, EnableDisconnected, EnableEmit, EnableRefused, EnableAcked,
           ExtraDisable, DisableEmit, DisableDone, DisableBegin, Job, Tick,
           KeepAliveSend, KeepAliveOk, KeepAliveKicked, KeepAliveAbandoned,
           KeepAliveFailed, DropTick, Environment, FirstSyncDone, Signal,
           StoragesDown, NamespaceOpen, NamespaceNoToken, Drop, Close, Redial, Watch,
           WaitFast,
           WaitLocked, Woken, TakeDisabled, SeeDisabled, Disconnected, endVars
  <1>1. ~ctxDone /\ pc[Loop(e)] # "gone"
    <2>1. ctxDone' \in BOOLEAN /\ ctxDone \in BOOLEAN
      BY StepInv DEF IInv, TypeOK
    <2> QED BY <1>0, <1>a, <2>1
  \* No call of osExit lets the process go on.
  <1>2. \A t, why : Exit(t, why) => why = "no"
    BY <1>1 DEF Exit
  <1>3. \A t : ~Crash(t)
    BY DEF Crash
  <1>4. \A t, where : Goto(t, where) /\ (where # "gone" \/ t # Loop(e))
          => pc'[Loop(e)] # "gone"
    BY <1>1, <1>a DEF Goto
  <1>5. ASSUME NEW t \in Threads, NEW ok \in BOOLEAN, AfterConnect(t, ok)
        PROVE  pc'[Loop(e)] # "gone"
    BY <1>2, <1>4, <1>5 DEF AfterConnect
  <1>6. ASSUME NEW t \in Threads, NEW ok \in BOOLEAN, AfterEnable(t, ok)
        PROVE  pc'[Loop(e)] # "gone"
    BY <1>2, <1>4, <1>6, <1>a DEF AfterEnable
  <1>7. ASSUME NEW t \in Threads, AfterDisable(t)
        PROVE  pc'[Loop(e)] # "gone"
    BY <1>2, <1>4, <1>7, <1>a DEF AfterDisable
  <1>8. ASSUME NEW t \in Threads, Step(t) PROVE pc'[Loop(e)] # "gone"
    <2>1. CASE ExtraConnect(t) \/ ConnectAsk(t) \/ ConnectTurn(t) \/ ConnectNoToken(t)
               \/ ConnectDial(t) \/ ConnectDone(t)
      BY <2>1, <1>2, <1>4, <1>5 DEF ExtraConnect, ConnectAsk, ConnectTurn,
         ConnectNoToken, ConnectDial, ConnectDone
    <2>2. CASE ExtraEnable(t) \/ EnableDisconnected(t) \/ EnableEmit(t)
               \/ EnableRefused(t) \/ EnableAcked(t)
      BY <2>2, <1>2, <1>3, <1>4, <1>6 DEF ExtraEnable, EnableDisconnected, EnableEmit,
         EnableRefused, EnableAcked
    <2>3. CASE ExtraDisable(t) \/ DisableEmit(t) \/ DisableDone(t) \/ DisableBegin(t)
      BY <2>3, <1>4, <1>7 DEF ExtraDisable, DisableEmit, DisableDone, DisableBegin
    <2> QED BY <1>8, <2>1, <2>2, <2>3 DEF Step
  <1>9. ASSUME NEW f \in Epoch, Job(f) PROVE pc'[Loop(e)] # "gone"
    BY <1>9, <1>1, <1>2, <1>3, <1>4 DEF Job, Tick, KeepAliveSend, KeepAliveOk,
       KeepAliveKicked, KeepAliveAbandoned, KeepAliveFailed, DropTick, lockVars
  <1>10. ASSUME Environment PROVE pc'[Loop(e)] # "gone"
    BY <1>10, <1>1, <1>4, <1>a DEF Environment, FirstSyncDone, Signal, StoragesDown,
       NamespaceOpen, NamespaceNoToken, Drop, Close, Redial, lockVars
  <1>11. ASSUME NEW w \in Watchers, Watch(w) PROVE pc'[Loop(e)] # "gone"
    BY <1>11, <1>1 DEF Watch, WaitFast, WaitLocked, Woken, TakeDisabled, SeeDisabled,
       lockVars
  <1>12. CASE Disconnected
    BY <1>12, <1>1 DEF Disconnected
  <1> QED BY <1>8, <1>9, <1>10, <1>11, <1>12 DEF Next

\* Lemma: steps that neither enable nor disable leave the interval alone.  Who
\* frees the lock otherwise finds the cluster off.
LEMMA IntervalKept ==
  ASSUME IInv, Next,
         \A t \in Threads : ~EnableAcked(t) /\ ~DisableEmit(t) /\ ~DisableDone(t),
         ~Disconnected
  PROVE  /\ UNCHANGED <<enabled, epoch, closed, cancelKeepalive, cancelled>>
         /\ enabled /\ mux' = Nobody => mux = Nobody
         /\ \A t \in Threads : pc'[t] = "disableAck" => pc[t] = "disableAck"
  <1>a. pc \in [Threads -> PcValues] /\ Nobody \notin Threads
    BY NobodyIsNoThread DEF IInv, TypeOK
  <1>g. ASSUME NEW u, NEW where, NEW t \in Threads, where # "disableAck",
               pc' = [pc EXCEPT ![u] = where], pc'[t] = "disableAck"
        PROVE  pc[t] = "disableAck"
    BY <1>g, <1>a
  <1> DEFINE Kept ==
        /\ UNCHANGED <<enabled, epoch, closed, cancelKeepalive, cancelled>>
        /\ enabled /\ mux' = Nobody => mux = Nobody
        /\ \A t \in Threads : pc'[t] = "disableAck" => pc[t] = "disableAck"
  <1>1. ASSUME NEW t \in Threads, Step(t) PROVE Kept
    <2>1. UNCHANGED <<enabled, epoch, closed, cancelKeepalive, cancelled>>
      BY <1>1 DEF Step, ExtraConnect, ConnectAsk, ConnectTurn, ConnectNoToken,
         ConnectDial, ConnectDone,
         ExtraEnable, EnableDisconnected, EnableEmit, EnableRefused, ExtraDisable,
         DisableBegin, chanVars, loopVars
    <2>2. enabled /\ mux' = Nobody => mux = Nobody
      <3>1. pc[t] \in Connecting \union {"enableAck"} => ~enabled
        BY DEF IInv, LockInv
      <3>2. CASE ConnectNoToken(t) \/ ConnectDone(t) \/ EnableRefused(t)
        BY <3>1, <3>2 DEF ConnectNoToken, ConnectDone, EnableRefused, Connecting
      <3>3. CASE ~ConnectNoToken(t) /\ ~ConnectDone(t) /\ ~EnableRefused(t)
        <4>1. UNCHANGED mux \/ mux' = t
          BY <1>1, <3>3 DEF Step, ExtraConnect, ConnectAsk, ConnectTurn, ConnectDial,
             ExtraEnable, EnableDisconnected, EnableEmit, ExtraDisable, DisableBegin,
             Brief, Acquire
        <4> QED BY <4>1, <1>a
      <3> QED BY <3>2, <3>3
    <2>3. \E where : where # "disableAck" /\ pc' = [pc EXCEPT ![t] = where]
      <3>1. CASE ExtraConnect(t) \/ ConnectAsk(t) \/ ConnectTurn(t) \/ ConnectNoToken(t)
                 \/ ConnectDial(t) \/ ConnectDone(t)
        BY <3>1 DEF ExtraConnect, ConnectAsk, ConnectTurn, ConnectNoToken, ConnectDial,
           ConnectDone,
           AfterConnect, Exit, Goto
      <3>2. CASE ExtraEnable(t) \/ EnableDisconnected(t) \/ EnableRefused(t)
        BY <3>2 DEF ExtraEnable, EnableDisconnected, EnableRefused, AfterEnable, Exit,
           Goto
      <3>3. CASE EnableEmit(t)
        BY <3>3 DEF EnableEmit, AfterEnable, Exit, Goto, Crash
      <3>4. CASE ExtraDisable(t) \/ DisableBegin(t)
        BY <3>4 DEF ExtraDisable, DisableBegin, AfterDisable, Exit, Goto
      <3> QED BY <1>1, <3>1, <3>2, <3>3, <3>4 DEF Step
    <2> QED BY <2>1, <2>2, <2>3, <1>g
  <1>2. ASSUME NEW f \in Epoch, Job(f) PROVE Kept
    <2>1. UNCHANGED <<enabled, epoch, closed, cancelKeepalive, cancelled, mux>>
      BY <1>2 DEF Job, Tick, KeepAliveSend, KeepAliveOk, KeepAliveKicked,
         KeepAliveAbandoned, KeepAliveFailed, DropTick, lockVars, chanVars, loopVars
    <2>2. \/ UNCHANGED pc
          \/ \E where : where # "disableAck" /\ pc' = [pc EXCEPT ![Loop(f)] = where]
      BY <1>2 DEF Job, Tick, KeepAliveSend, KeepAliveOk, KeepAliveKicked,
         KeepAliveAbandoned, KeepAliveFailed, DropTick, lockVars, Goto, Exit, Crash
    <2> QED BY <2>1, <2>2, <1>g
  <1>3. ASSUME Environment PROVE Kept
    <2>1. UNCHANGED <<enabled, epoch, closed, cancelKeepalive, cancelled, mux>>
      BY <1>3 DEF Environment, FirstSyncDone, Signal, StoragesDown, NamespaceOpen,
         NamespaceNoToken,
         Drop, Close, Redial, lockVars, chanVars, loopVars
    <2>2. \/ UNCHANGED pc
          \/ \E u, where : where # "disableAck" /\ pc' = [pc EXCEPT ![u] = where]
      BY <1>3 DEF Environment, FirstSyncDone, Signal, StoragesDown, NamespaceOpen,
         NamespaceNoToken,
         Drop, Close, Redial, lockVars, Goto
    <2> QED BY <2>1, <2>2, <1>g
  <1>4. ASSUME NEW w \in Watchers, Watch(w) PROVE Kept
    BY <1>4 DEF Watch, WaitFast, WaitLocked, Woken, TakeDisabled, SeeDisabled, lockVars,
       chanVars, loopVars, Brief
  <1> QED BY <1>1, <1>2, <1>3, <1>4 DEF Next

\* Lemma: KeepInv is inductive.
LEMMA KeepStep ==
  ASSUME IInv, KeepInv, [Next]_vars
  PROVE  KeepInv'
  <1>a. epoch \in Nat /\ Nobody \notin Threads
    BY NobodyIsNoThread, LifecycleAssumption DEF IInv, TypeOK
  <1>b. exit' = "no" /\ ~ctxDone' => \A e \in Epoch : pc'[Loop(e)] # "gone"
    <2>1. CASE Next
      BY <2>1, LoopsStay
    <2>2. CASE UNCHANGED vars
      BY <2>2 DEF vars, lockVars, endVars, KeepInv
    <2> QED BY <2>1, <2>2
  <1>1. ASSUME NEW t \in Threads, EnableAcked(t) PROVE KeepInv'
    <2>1. epoch' = epoch + 1 /\ cancelKeepalive' = epoch + 1 /\ UNCHANGED cancelled
      BY <1>1 DEF EnableAcked
    <2> QED BY <1>a, <1>b, <2>1 DEF KeepInv
  <1>2. ASSUME NEW t \in Threads, DisableEmit(t) PROVE KeepInv'
    <2>1. /\ mux' = t /\ UNCHANGED epoch /\ CancelKeepalive
      BY <1>2 DEF DisableEmit, IInv, ChannelInv, DisableIsSafe, chanVars
    <2>2. /\ cancelled' \subseteq cancelled \union {cancelKeepalive}
          /\ cancelKeepalive' = 0
      BY <2>1 DEF CancelKeepalive
    <2>3. cancelled' \subseteq 0 .. epoch /\ cancelKeepalive' \in 0 .. epoch
      BY <1>a, <2>2 DEF KeepInv
    <2>4. enabled' => epoch # 0
      BY <1>2 DEF DisableEmit, KeepInv
    <2> QED BY <1>a, <1>b, <2>1, <2>3, <2>4 DEF KeepInv
  <1>3. ASSUME NEW t \in Threads, DisableDone(t) PROVE KeepInv'
    <2>1. enabled' = FALSE /\ UNCHANGED <<epoch, cancelled, cancelKeepalive>>
      BY <1>3 DEF DisableDone, TurnOff, loopVars
    <2> QED BY <1>b, <2>1 DEF KeepInv
  <1>4. ASSUME Disconnected PROVE KeepInv'
    <2>1. /\ enabled' = FALSE /\ UNCHANGED epoch
          /\ CancelKeepalive \/ UNCHANGED <<cancelKeepalive, cancelled>>
      BY <1>4 DEF Disconnected, IInv, TypeOK
    <2>2. /\ cancelled' \subseteq cancelled \union {cancelKeepalive}
          /\ cancelKeepalive' \in {0, cancelKeepalive}
      BY <2>1 DEF CancelKeepalive
    <2>3. cancelled' \subseteq 0 .. epoch /\ cancelKeepalive' \in 0 .. epoch
      BY <1>a, <2>2 DEF KeepInv
    <2> QED BY <1>b, <2>1, <2>3 DEF KeepInv
  <1>5. CASE /\ Next /\ ~Disconnected
             /\ \A t \in Threads : ~EnableAcked(t) /\ ~DisableEmit(t) /\ ~DisableDone(t)
    <2>1. /\ UNCHANGED <<enabled, epoch, cancelKeepalive, cancelled>>
          /\ enabled /\ mux' = Nobody => mux = Nobody
      BY <1>5, IntervalKept
    <2> QED BY <1>b, <2>1 DEF KeepInv
  <1>6. CASE UNCHANGED vars
    BY <1>6, <1>b DEF vars, lockVars, chanVars, loopVars, KeepInv
  <1> QED BY <1>1, <1>2, <1>3, <1>4, <1>5, <1>6

\* Lemma: it holds throughout.
LEMMA Kept == Spec => [](IInv /\ KeepInv)
  <1>1. Init => KeepInv
    BY NamedThreads DEF Init, KeepInv, Epoch, Loop, Main
  <1> QED BY <1>1, InitInv, StepInv, KeepStep, PTL DEF Spec

\* An enabled cluster always has the keep-alive interval of its latest Enable,
\* live and with a goroutine (cluster.go:526-606), also when a `disconnected` of
\* an earlier connection runs late.
THEOREM EnabledIsKeptAlive == Spec => []EnabledKeepsAlive
  <1>1. IInv /\ KeepInv => EnabledKeepsAlive
    <2> SUFFICES ASSUME IInv, KeepInv, enabled, mux = Nobody, exit = "no", ~ctxDone
                 PROVE  /\ cancelKeepalive = epoch /\ Alive(epoch)
                        /\ pc[Loop(epoch)] # "gone"
      BY DEF EnabledKeepsAlive
    <2>1. cancelKeepalive = epoch /\ epoch \notin cancelled
      BY DEF KeepInv
    <2>2. pc[Loop(epoch)] # "gone"
      <3>1. CASE epoch = 0
        BY <3>1 DEF KeepInv
      <3>2. CASE epoch \in Epoch
        BY <3>2 DEF KeepInv
      <3> QED BY <3>1, <3>2, LifecycleAssumption DEF IInv, TypeOK, Epoch
    <2> QED BY <2>1, <2>2 DEF Alive
  <1> QED BY <1>1, Kept, PTL

-----------------------------------------------------------------------------
\* No connection is lost: none drops, and none is lost by closing it.
Calm == "drop" \notin Faults /\ TRUE \notin CloseCallback

\* Every end is announced and every interval but the last is over; a disable that
\* waits for its ack has cancelled the interval.
CalmInv ==
  /\ pending = 0
  /\ DisabledIsSignalled
  /\ \A e \in 1 .. epoch - 1 : e \in cancelled
  /\ ~enabled /\ epoch # 0 => epoch \in cancelled
  /\ \A t \in Threads : pc[t] = "disableAck" => epoch \in cancelled

\* Lemma: CalmInv is inductive while no connection is lost.
LEMMA CalmStep ==
  ASSUME Calm, IInv, KeepInv, CalmInv, [Next]_vars
  PROVE  CalmInv'
  <1>a. epoch \in Nat /\ pc \in [Threads -> PcValues] /\ enabled \in BOOLEAN
    BY LifecycleAssumption DEF IInv, TypeOK
  <1>p. pending' = 0
    <2>1. ASSUME NEW t \in Threads, Step(t) PROVE UNCHANGED pending
      BY <2>1 DEF Step, ExtraConnect, ConnectAsk, ConnectTurn, ConnectNoToken,
         ConnectDial, ConnectDone,
         ExtraEnable, EnableDisconnected, EnableEmit, EnableRefused, EnableAcked,
         ExtraDisable, DisableEmit, DisableDone, DisableBegin
    <2>2. ASSUME NEW e \in Epoch, Job(e) PROVE UNCHANGED pending
      BY <2>2 DEF Job, Tick, KeepAliveSend, KeepAliveOk, KeepAliveKicked,
         KeepAliveAbandoned, KeepAliveFailed, DropTick
    <2>3. ASSUME Environment PROVE UNCHANGED pending
      BY <2>3 DEF Calm, Environment, FirstSyncDone, Signal, StoragesDown,
         NamespaceOpen, NamespaceNoToken, Drop, Close, Redial
    <2>4. ASSUME NEW w \in Watchers, Watch(w) PROVE UNCHANGED pending
      BY <2>4 DEF Watch, WaitFast, WaitLocked, Woken, TakeDisabled, SeeDisabled
    <2>5. ~Disconnected
      BY DEF CalmInv, Disconnected
    <2>6. CASE UNCHANGED vars
      BY <2>6 DEF vars, CalmInv
    <2> QED BY <2>1, <2>2, <2>3, <2>4, <2>5, <2>6 DEF Next, CalmInv
  <1>1. ASSUME NEW t \in Threads, EnableAcked(t) PROVE CalmInv'
    <2>1. /\ epoch' = epoch + 1 /\ enabled' = TRUE /\ UNCHANGED <<closed, cancelled>>
          /\ ~enabled /\ pc[t] = "enableAck"
      BY <1>1 DEF EnableAcked, IInv, LockInv
    <2>2. \A u \in Threads : pc'[u] # "disableAck"
      <3>1. \A u \in Threads : pc[u] # "disableAck"
        BY <2>1 DEF IInv, LockInv
      <3>2. \E where : where # "disableAck" /\ pc' = [pc EXCEPT ![t] = where]
        BY <1>1 DEF EnableAcked, AfterEnable, Goto, Exit
      <3> QED BY <1>a, <3>1, <3>2
    <2> QED BY <1>a, <1>p, <2>1, <2>2 DEF CalmInv, DisabledIsSignalled
  <1>2. ASSUME NEW t \in Threads, DisableEmit(t) PROVE CalmInv'
    <2>1. /\ UNCHANGED <<epoch, closed, enabled>> /\ enabled
          /\ cancelled' = cancelled \union {epoch}
      <3>1. enabled /\ mux = Nobody /\ epoch # 0
        BY <1>2 DEF DisableEmit, KeepInv
      <3>2. cancelKeepalive = epoch
        BY <3>1 DEF KeepInv
      <3> QED BY <1>2, <3>1, <3>2 DEF DisableEmit, CancelKeepalive, chanVars
    <2> QED BY <1>p, <2>1 DEF CalmInv, DisabledIsSignalled
  <1>3. ASSUME NEW t \in Threads, DisableDone(t) PROVE CalmInv'
    <2>1. /\ closed' = closed \union {epoch} /\ enabled' = FALSE
          /\ UNCHANGED <<epoch, cancelled>> /\ pc[t] = "disableAck"
      BY <1>3 DEF DisableDone, AnnounceEnd, TurnOff, loopVars
    <2> QED BY <1>p, <2>1 DEF CalmInv, DisabledIsSignalled
  <1>4. ~Disconnected
    BY DEF CalmInv, Disconnected
  <1>5. CASE /\ Next
             /\ \A t \in Threads : ~EnableAcked(t) /\ ~DisableEmit(t) /\ ~DisableDone(t)
    BY <1>4, <1>5, <1>p, IntervalKept DEF CalmInv, DisabledIsSignalled
  <1>6. CASE UNCHANGED vars
    BY <1>6, <1>p DEF vars, lockVars, chanVars, loopVars, CalmInv, DisabledIsSignalled
  <1> QED BY <1>1, <1>2, <1>3, <1>4, <1>5, <1>6

\* Lemma: it holds throughout.
LEMMA StaysCalm == ASSUME Calm PROVE Spec => []CalmInv
  <1>1. Init => CalmInv
    BY DEF Init, CalmInv, DisabledIsSignalled
  <1>2. IInv /\ KeepInv /\ CalmInv /\ [Next]_vars => CalmInv'
    BY CalmStep
  <1> QED BY <1>1, <1>2, Kept, PTL DEF Spec

\* While no connection is lost, whoever took a channel from Disabled() sees the
\* end of it (cluster.go:650-720).
THEOREM EndsAreSignalled == ASSUME Calm PROVE Spec => []DisabledIsSignalled
  <1>1. CalmInv => DisabledIsSignalled
    BY DEF CalmInv
  <1> QED BY <1>1, StaysCalm, PTL

\* While no connection is lost, all keep-alive intervals but the latest have been
\* cancelled (cluster.go:539-546, 668-671).
THEOREM OneKeepalive == ASSUME Calm PROVE Spec => []SingleKeepalive
  <1>1. IInv /\ KeepInv /\ CalmInv => SingleKeepalive
    <2> SUFFICES ASSUME IInv, CalmInv, NEW e \in 1 .. epoch, e \notin cancelled
                 PROVE  e = epoch
      BY DEF SingleKeepalive
    <2>1. epoch \in Nat
      BY LifecycleAssumption DEF IInv, TypeOK
    <2>2. e \notin 1 .. epoch - 1
      BY DEF CalmInv
    <2> QED BY <2>1, <2>2
  <1> QED BY <1>1, Kept, StaysCalm, PTL

-----------------------------------------------------------------------------
LEMMA PresenceStep ==
  IInv /\ [Next]_vars => [Seen!PresenceNext]_(Seen!presenceVars)
  <1> SUFFICES ASSUME IInv, [Next]_vars
               PROVE  Seen!PresenceNext \/ UNCHANGED <<enabled, epoch, closed>>
    BY DEF Seen!presenceVars
  <1>1. ASSUME NEW t \in Threads, EnableAcked(t) PROVE Seen!ComeOn
    BY <1>1 DEF EnableAcked, IInv, LockInv, Seen!ComeOn
  <1>2. ASSUME NEW t \in Threads, DisableDone(t) PROVE Seen!GoOff
    BY <1>2 DEF DisableDone, TurnOff, AnnounceEnd, IInv, LockInv, ChannelInv,
                DisableIsSafe, Seen!GoOff
  <1>3. ASSUME Disconnected PROVE Seen!Lapse \/ UNCHANGED <<enabled, epoch, closed>>
    BY <1>3 DEF Disconnected, Seen!Lapse
  <1>4. ASSUME NEW t \in Threads, Step(t), ~EnableAcked(t), ~DisableDone(t)
        PROVE  UNCHANGED <<enabled, epoch, closed>>
    BY <1>4 DEF Step, ExtraConnect, ConnectAsk, ConnectTurn, ConnectNoToken,
       ConnectDial, ConnectDone,
                ExtraEnable, EnableDisconnected, EnableEmit, EnableRefused,
                ExtraDisable, DisableEmit, DisableBegin, chanVars
  <1>5. ASSUME NEW e \in Epoch, Job(e)
        PROVE  UNCHANGED <<enabled, epoch, closed>>
    BY <1>5 DEF Job, Tick, KeepAliveSend, KeepAliveOk, KeepAliveKicked,
                KeepAliveAbandoned, KeepAliveFailed, DropTick, chanVars
  <1>6. ASSUME Environment
        PROVE  UNCHANGED <<enabled, epoch, closed>>
    BY <1>6 DEF Environment, FirstSyncDone, Signal, StoragesDown, NamespaceOpen,
       NamespaceNoToken,
                Drop, Close, Redial, chanVars
  <1>7. ASSUME NEW w \in Watchers, Watch(w)
        PROVE  UNCHANGED <<enabled, epoch, closed>>
    BY <1>7 DEF Watch, WaitFast, WaitLocked, Woken, TakeDisabled, SeeDisabled, chanVars
  <1>8. CASE UNCHANGED vars
    BY <1>8 DEF vars, chanVars
  <1> QED
    BY <1>1, <1>2, <1>3, <1>4, <1>5, <1>6, <1>7, <1>8 DEF Next, Seen!PresenceNext

\* Seen through Enabled, WaitForEnable and Disabled, the cluster is a Presence:
\* it comes on only when off, in a new generation, and announces the end of a
\* generation only while it is the current one, once (cluster.go:419-720).
THEOREM PresenceRefined == Spec => ImplementsPresence
  <1>1. Init => Seen!PresenceInit
    BY DEF Init, Seen!PresenceInit
  <1> QED
    BY <1>1, Invariance, PresenceStep, PTL
       DEF Spec, ImplementsPresence, Seen!PresenceSpec

=============================================================================
