----------------------------- MODULE Semaphore ------------------------------
(* Semaphore of limited/util.go: a channel with room for MaxConn, one entry per   *)
(* holder.  Nobody is limited when MaxConn is 0.                                   *)
EXTENDS Integers

CONSTANT MaxConn

ASSUME MaxConnAssumption == MaxConn \in Nat

VARIABLE used      \* entries in the channel

\* Len, under a name that Sequences has not.  A semaphore that is not there has none.
SlotsTaken == used

\* Acquire, AcquireWithContext and AcquireWithNotify: blocks while the channel is full.
\* What else ends the wait is up to the caller.
Acquire ==
  IF MaxConn = 0 THEN UNCHANGED used
  ELSE used < MaxConn /\ used' = used + 1

Release ==
  IF MaxConn = 0 THEN UNCHANGED used
  ELSE used > 0 /\ used' = used - 1
=============================================================================
