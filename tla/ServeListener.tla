---------------------------- MODULE ServeListener ----------------------------
(***************************************************************************)
(* The listener of the HTTP server, http_listener.go over                    *)
(* limited/limited_conn.go: TLS and plain HTTP on one port, with a limit on  *)
(* the connections that are open.                                            *)
(*                                                                          *)
(* Accept starts a goroutine, accepter, and waits for what one of them       *)
(* sends.  An accepter that has a connection starts the next one before it   *)
(* looks at the first bytes, for which a client may take its time; the flag  *)
(* accepting keeps all but one out of the Accept of the listener below.      *)
(* Accepters that have no connection yet are all alike, and are counted.     *)
(***************************************************************************)
EXTENDS Integers, FiniteSets

CONSTANTS
  Conns,      \* connections that clients make
  MaxConn,    \* config.ServeLimit.MaxConn: 0 is no limit
  MaxErrors   \* bound on the errors of the TCP listener before it is closed

ASSUME ConnsAssumption == IsFiniteSet(Conns)
ASSUME LimitAssumption == MaxConn \in Nat /\ MaxErrors \in Nat

VARIABLES
  conn,       \* where each connection is
  limited,    \* ~c.closed of its LimitedConn: it has a permit
  accepting,  \* s.accepting
  trying,     \* accepters at the test of s.accepting
  acquiring,  \* accepters that wait for a permit
  inAccept,   \* accepters in the Accept of the TCP listener
  failed,     \* accepters with an error that have not cleared s.accepting, by error
  failing,    \* accepters that send an error to s.errCh, by error
  errCh,      \* the content of s.errCh
  permits,    \* permits taken from the semaphore
  server,     \* http.Server.Serve and its call of Accept
  stopping,   \* Shutdown has begun
  closer,     \* the step each call of Close is at
  closed,     \* the TCP listener is closed
  closeCh,    \* the RateController is closed
  errors      \* errors of the TCP listener so far

accepters == <<accepting, trying, acquiring, inAccept, failed, failing>>
closing   == <<stopping, closer, closed, closeCh, errors>>
serving   == <<server, closing>>
vars      == <<conn, limited, accepters, errCh, permits, serving>>

Errors  == {"temporary", "permanent"}
Closers == {"shutdown", "deferred"}   \* Shutdown, and the defer of the goroutine in main

Init ==
  /\ conn = [c \in Conns |-> "away"] /\ limited = [c \in Conns |-> FALSE]
  /\ accepting = FALSE
  /\ trying = 0 /\ acquiring = 0 /\ inAccept = 0
  /\ failed = [e \in Errors |-> 0] /\ failing = [e \in Errors |-> 0]
  /\ errCh = "empty"
  /\ permits = 0
  /\ server = "call" /\ stopping = FALSE
  /\ closer = [k \in Closers |-> "idle"] /\ closed = FALSE /\ closeCh = FALSE
  /\ errors = 0

Move(c, to) == conn' = [conn EXCEPT ![c] = to]
Queued == {c \in Conns : conn[c] = "queued"}   \* the content of s.acceptedCh
-----------------------------------------------------------------------------
(* The server's loop: Accept, and what it does with the result *)

Nothing == Queued = {} /\ errCh = "empty"

\* Neither channel has anything: an accepter is started.
CallAccept ==
  /\ server = "call" /\ Nothing
  /\ server' = "started"
  /\ trying' = trying + 1
  /\ UNCHANGED <<conn, limited, accepting, acquiring, inAccept, failed, failing, errCh,
                 permits, closing>>

\* Still nothing: what is sent from now on goes to the server, past the channel.
Block ==
  /\ server = "started" /\ Nothing
  /\ server' = "wait"
  /\ UNCHANGED <<conn, limited, accepters, errCh, permits, closing>>

TakeConn(c) ==
  /\ server \in {"call", "started"}
  /\ conn[c] = "queued"
  /\ Move(c, "served")
  /\ server' = "call"
  /\ UNCHANGED <<limited, accepters, errCh, permits, closing>>

\* Serve returns if it is shut down or the error is not a temporary one.
AfterError(e) == IF stopping \/ e = "permanent" THEN "done" ELSE "sleep"

TakeError ==
  /\ server \in {"call", "started"}
  /\ errCh # "empty"
  /\ errCh' = "empty"
  /\ server' = AfterError(errCh)
  /\ UNCHANGED <<conn, limited, accepters, permits, closing>>

WakeUp ==
  /\ server = "sleep"
  /\ server' = "call"
  /\ UNCHANGED <<conn, limited, accepters, errCh, permits, closing>>

Server == CallAccept \/ Block \/ TakeError \/ WakeUp \/ \E c \in Conns : TakeConn(c)
-----------------------------------------------------------------------------
(* accepter, up to the Accept of the listener below *)

TryFlag ==
  /\ trying > 0
  /\ trying' = trying - 1
  /\ accepting' = TRUE
  /\ acquiring' = IF accepting THEN acquiring ELSE acquiring + 1
  /\ UNCHANGED <<conn, limited, inAccept, failed, failing, errCh, permits, serving>>

Acquire ==
  /\ acquiring > 0
  /\ MaxConn = 0 \/ permits < MaxConn
  /\ acquiring' = acquiring - 1
  /\ inAccept' = inAccept + 1
  /\ permits' = permits + 1
  /\ UNCHANGED <<conn, limited, accepting, trying, failed, failing, errCh, serving>>

\* The select of Do finds the controller closed: net.ErrClosed.
AcquireClosed ==
  /\ acquiring > 0
  /\ closeCh /\ MaxConn > 0
  /\ acquiring' = acquiring - 1
  /\ failed' = [failed EXCEPT !["permanent"] = @ + 1]
  /\ UNCHANGED <<conn, limited, accepting, trying, inAccept, failing, errCh, permits, serving>>

AcceptConn(c) ==
  /\ inAccept > 0 /\ ~closed
  /\ conn[c] = "backlog"
  /\ inAccept' = inAccept - 1
  /\ Move(c, "accepted")
  /\ limited' = [limited EXCEPT ![c] = TRUE]
  /\ UNCHANGED <<accepting, trying, acquiring, failed, failing, errCh, permits, serving>>

Fail(e) ==
  /\ inAccept > 0
  /\ inAccept' = inAccept - 1
  /\ failed' = [failed EXCEPT ![e] = @ + 1]

\* Mutant of AcceptError: the permit is not given back.
AcceptErrorKeeps ==
  /\ \/ closed /\ Fail("permanent") /\ UNCHANGED errors
     \/ ~closed /\ errors < MaxErrors /\ errors' = errors + 1 /\ \E e \in Errors : Fail(e)
  /\ UNCHANGED <<conn, limited, accepting, trying, acquiring, failing, errCh, permits, server,
                 stopping, closer, closed, closeCh>>

\* Do gives the permit back.
AcceptError ==
  /\ \/ closed /\ Fail("permanent") /\ UNCHANGED errors
     \/ ~closed /\ errors < MaxErrors /\ errors' = errors + 1 /\ \E e \in Errors : Fail(e)
  /\ permits' = permits - 1
  /\ UNCHANGED <<conn, limited, accepting, trying, acquiring, failing, errCh, server,
                 stopping, closer, closed, closeCh>>
-----------------------------------------------------------------------------
(* accepter, from there on *)

ClearAfterError(e) ==
  /\ failed[e] > 0
  /\ accepting' = FALSE
  /\ failed' = [failed EXCEPT ![e] = @ - 1]
  /\ failing' = [failing EXCEPT ![e] = @ + 1]
  /\ UNCHANGED <<conn, limited, trying, acquiring, inAccept, errCh, permits, serving>>

\* The goroutine ends.
SendError(e) ==
  /\ failing[e] > 0 /\ errCh = "empty"
  /\ failing' = [failing EXCEPT ![e] = @ - 1]
  /\ IF server = "wait"
       THEN server' = AfterError(e) /\ UNCHANGED errCh
       ELSE errCh' = e /\ UNCHANGED server
  /\ UNCHANGED <<conn, limited, accepting, trying, acquiring, inAccept, failed, permits, closing>>

ClearFlag(c) ==
  /\ conn[c] = "accepted"
  /\ accepting' = FALSE
  /\ Move(c, "handOver")
  /\ UNCHANGED <<limited, trying, acquiring, inAccept, failed, failing, errCh, permits, serving>>

\* Mutant of StartNext: no other accepter is started.
StartNone(c) ==
  /\ conn[c] = "handOver"
  /\ Move(c, "head")
  /\ UNCHANGED <<limited, accepters, errCh, permits, serving>>

StartNext(c) ==
  /\ conn[c] = "handOver"
  /\ trying' = trying + 1
  /\ Move(c, "head")
  /\ UNCHANGED <<limited, accepting, acquiring, inAccept, failed, failing, errCh, permits, serving>>

\* maybeHTTPConn: an end of the first line, another byte or five seconds without
\* either.  A TLS connection, or whatever is not HTTP.
LooksTLS(c) ==
  /\ conn[c] = "head"
  /\ Move(c, "send")
  /\ UNCHANGED <<limited, accepters, errCh, permits, serving>>

\* A plain HTTP connection has a goroutine to answer it, and the loop goes on.
LooksHTTP(c) ==
  /\ conn[c] = "head"
  /\ Move(c, "redirect")
  /\ trying' = trying + 1
  /\ UNCHANGED <<limited, accepting, acquiring, inAccept, failed, failing, errCh, permits, serving>>

\* The buffer is full of printable bytes without the end of a line: what is left of
\* it is empty, a Read into it returns at once, and neither the deadline nor the
\* client's leaving is ever seen.
HeadFills(c) ==
  /\ conn[c] = "head"
  /\ Move(c, "spins")
  /\ UNCHANGED <<limited, accepters, errCh, permits, serving>>

SendConn(c) ==
  /\ conn[c] = "send" /\ Queued = {}
  /\ IF server = "wait"
       THEN Move(c, "served") /\ server' = "call"
       ELSE Move(c, "queued") /\ UNCHANGED server
  /\ UNCHANGED <<limited, accepters, errCh, permits, closing>>

Accepter ==
  \/ TryFlag \/ Acquire \/ AcquireClosed \/ AcceptError
  \/ \E e \in Errors : ClearAfterError(e) \/ SendError(e)
  \/ \E c \in Conns : \/ AcceptConn(c) \/ ClearFlag(c) \/ StartNext(c)
                      \/ LooksTLS(c) \/ LooksHTTP(c) \/ HeadFills(c)
                      \/ SendConn(c)
-----------------------------------------------------------------------------
(* The connections *)

Arrive(c) ==
  /\ conn[c] = "away" /\ ~closed
  /\ Move(c, "backlog")
  /\ UNCHANGED <<limited, accepters, errCh, permits, serving>>

\* Mutant of CloseConn: the connection that has been redirected stays open.
CloseServed(c) ==
  /\ conn[c] \in {"served", "closed"}
  /\ Move(c, "closed")
  /\ limited' = [limited EXCEPT ![c] = FALSE]
  /\ permits' = IF limited[c] THEN permits - 1 ELSE permits
  /\ UNCHANGED <<accepters, errCh, serving>>

\* The server and the handshake may each close it.
CloseConn(c) ==
  /\ conn[c] \in {"served", "redirect", "closed"}
  /\ Move(c, "closed")
  /\ limited' = [limited EXCEPT ![c] = FALSE]
  /\ permits' = IF limited[c] THEN permits - 1 ELSE permits
  /\ UNCHANGED <<accepters, errCh, serving>>
-----------------------------------------------------------------------------
(* Shutdown and Close *)

CloserAt(k, from, to) == closer[k] = from /\ closer' = [closer EXCEPT ![k] = to]

Shutdown ==
  /\ ~stopping /\ server # "done"
  /\ stopping' = TRUE
  /\ CloserAt("shutdown", "idle", "rate")
  /\ UNCHANGED <<conn, limited, accepters, errCh, permits, server, closed, closeCh, errors>>

\* Serve has returned.
Deferred ==
  /\ server = "done"
  /\ CloserAt("deferred", "idle", "rate")
  /\ UNCHANGED <<conn, limited, accepters, errCh, permits, server, stopping, closed, closeCh, errors>>

CloseRate(k) ==
  /\ CloserAt(k, "rate", "listener")
  /\ closeCh' = TRUE
  /\ UNCHANGED <<conn, limited, accepters, errCh, permits, server, stopping, closed, errors>>

\* The kernel resets what is in the backlog.
CloseListener(k) ==
  /\ CloserAt(k, "listener", "drainConn")
  /\ closed' = TRUE
  /\ conn' = [c \in Conns |-> IF conn[c] = "backlog" THEN "reset" ELSE conn[c]]
  /\ UNCHANGED <<limited, accepters, errCh, permits, server, stopping, closeCh, errors>>

DrainConn(k) ==
  /\ CloserAt(k, "drainConn", "drainError")
  /\ IF Queued = {}
       THEN UNCHANGED <<conn, limited, permits>>
       ELSE \E c \in Queued :
              /\ Move(c, "closed")
              /\ limited' = [limited EXCEPT ![c] = FALSE]
              /\ permits' = permits - 1
  /\ UNCHANGED <<accepters, errCh, server, stopping, closed, closeCh, errors>>

DrainError(k) ==
  /\ CloserAt(k, "drainError", "closed")
  /\ errCh' = "empty"
  /\ UNCHANGED <<conn, limited, accepters, permits, server, stopping, closed, closeCh, errors>>

Close(k) == CloseRate(k) \/ CloseListener(k) \/ DrainConn(k) \/ DrainError(k)

Next ==
  \/ Server \/ Accepter
  \/ \E c \in Conns : Arrive(c) \/ CloseConn(c)
  \/ Shutdown \/ Deferred
  \/ \E k \in Closers : Close(k)

Spec == Init /\ [][Next]_vars

\* The goroutines run, the wait for the first bytes ends (five seconds) unless they
\* fill the buffer, which is the client's choice, and a plain connection is answered
\* (fifteen and ten seconds).
Fairness ==
  /\ WF_vars(Server)
  /\ WF_vars(TryFlag) /\ WF_vars(Acquire \/ AcquireClosed)
  /\ WF_vars(AcceptError \/ \E c \in Conns : AcceptConn(c))
  /\ \A e \in Errors : WF_vars(ClearAfterError(e)) /\ WF_vars(SendError(e))
  /\ \A c \in Conns :
       /\ WF_vars(ClearFlag(c)) /\ WF_vars(StartNext(c))
       /\ WF_vars(LooksTLS(c) \/ LooksHTTP(c) \/ HeadFills(c)) /\ WF_vars(SendConn(c))
       /\ WF_vars(conn[c] = "redirect" /\ CloseConn(c))
  /\ WF_vars(Deferred) /\ \A k \in Closers : WF_vars(Close(k))

FairSpec == Spec /\ Fairness
-----------------------------------------------------------------------------
(* Properties *)

Places == {"away", "backlog", "accepted", "handOver", "head", "spins", "send", "queued",
           "served", "redirect", "closed", "reset"}

TypeOK ==
  /\ conn \in [Conns -> Places] /\ limited \in [Conns -> BOOLEAN]
  /\ accepting \in BOOLEAN
  /\ trying \in Nat /\ acquiring \in Nat /\ inAccept \in Nat
  /\ failed \in [Errors -> Nat] /\ failing \in [Errors -> Nat]
  /\ errCh \in Errors \union {"empty"}
  /\ permits \in Nat
  /\ server \in {"call", "started", "wait", "sleep", "done"} /\ stopping \in BOOLEAN
  /\ closer \in [Closers -> {"idle", "rate", "listener", "drainConn", "drainError", "closed"}]
  /\ closed \in BOOLEAN /\ closeCh \in BOOLEAN /\ errors \in Nat

\* However many goroutines are started, one at most is in the Accept of the
\* listener below, or waits for a permit to be.
OneAccepter == acquiring + inAccept <= 1

\* Each permit belongs to a connection that is open or to the one accepter, and
\* there are no more of them than the limit: closing twice, an error of Accept and
\* the draining of Close neither lose a permit nor give one too many back.
Held == {c \in Conns : limited[c]}
PermitsConserved ==
  /\ permits = inAccept + Cardinality(Held)
  /\ MaxConn > 0 => permits <= MaxConn

\* While the server waits and the listener is open, some accepter is on its way to
\* the next connection, or an error is to be delivered: a client that has sent
\* nothing yet keeps nobody from being accepted.
Accepting ==
  \/ trying + acquiring + inAccept > 0
  \/ \E e \in Errors : failed[e] + failing[e] > 0
  \/ errCh # "empty"
  \/ \E c \in Conns : conn[c] \in {"accepted", "handOver"}
NobodyHeldUp == server \in {"started", "wait"} /\ ~closed => Accepting

\* If the connections that are served come to an end, each one that has arrived is
\* served, or answered in plain HTTP, unless the server stops, its own first bytes
\* never end, or those of as many others as there are permits.
ServedConnsEnd == \A c \in Conns : []<>(conn[c] # "served")
Spinning == {c \in Conns : conn[c] = "spins"}
AllSpin == MaxConn > 0 /\ Cardinality(Spinning) = MaxConn
EachIsAnswered ==
  ServedConnsEnd =>
    \A c \in Conns :
      conn[c] = "backlog" ~>
        \/ conn[c] \in {"served", "redirect", "spins"}
        \/ AllSpin
        \/ stopping \/ server = "done"

\* Shutdown makes Serve return.
ServeReturns == stopping ~> server = "done"
=============================================================================
