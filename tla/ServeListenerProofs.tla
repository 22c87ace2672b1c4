------------------------ MODULE ServeListenerProofs ------------------------
(***************************************************************************)
(* For any number of connections, of goroutines and of errors, and any       *)
(* limit: one accepter at a time, permits conserved, and nobody held up.     *)
(***************************************************************************)
EXTENDS ServeListener, FiniteSetTheorems, TLAPS

Accepted == {c \in Conns : conn[c] = "accepted"}

\* Who has set the flag and has not cleared it yet: one, or none.
FlagInv ==
  acquiring + inAccept + failed["temporary"] + failed["permanent"] + Cardinality(Accepted) =
    (IF accepting THEN 1 ELSE 0)

\* A connection has its permit from when it is accepted to when it is closed.
PermitInv ==
  \A c \in Conns :
    limited[c] <=> conn[c] \in {"accepted", "handOver", "head", "spins", "send", "queued",
                                "served", "redirect"}

\* The channels are drained once the listener is closed.
CloserInv == \A k \in Closers : closer[k] \in {"drainConn", "drainError", "closed"} => closed

IInv == TypeOK /\ FlagInv /\ PermitInv /\ PermitsConserved /\ CloserInv /\ NobodyHeldUp

USE DEF accepters, serving, closing, Move, Errors
-----------------------------------------------------------------------------
(* The two sets that are counted *)

LEMMA Finite ==
  /\ IsFiniteSet(Accepted) /\ Cardinality(Accepted) \in Nat
  /\ IsFiniteSet(Held) /\ Cardinality(Held) \in Nat
  BY ConnsAssumption, FS_Subset, FS_CardinalityType DEF Accepted, Held

LEMMA OneMore ==
  ASSUME NEW S, IsFiniteSet(S), NEW c, c \notin S
  PROVE  Cardinality(S \union {c}) = Cardinality(S) + 1
  BY FS_AddElement

LEMMA OneLess ==
  ASSUME NEW S, IsFiniteSet(S), NEW c, c \in S
  PROVE  Cardinality(S \ {c}) = Cardinality(S) - 1 /\ Cardinality(S) > 0
<1>1. Cardinality(S \ {c}) = Cardinality(S) - 1 /\ IsFiniteSet(S \ {c})
  BY FS_RemoveElement
<1>. QED  BY <1>1, FS_CardinalityType

LEMMA NoErrors ==
  ASSUME TypeOK
  PROVE  /\ failed["temporary"] \in Nat /\ failed["permanent"] \in Nat
         /\ failing["temporary"] \in Nat /\ failing["permanent"] \in Nat
  BY DEF TypeOK

\* OneAccepter, and that the listener below is not waited for by another.
LEMMA OneAtMost ==
  ASSUME TypeOK, FlagInv
  PROVE  /\ acquiring + inAccept <= 1
         /\ acquiring + inAccept > 0 => accepting
         /\ Accepted # {} => accepting /\ acquiring + inAccept = 0
         /\ accepting => \/ acquiring + inAccept > 0 \/ Accepted # {}
                          \/ \E e \in Errors : failed[e] > 0
<1>1. ASSUME Accepted # {} PROVE Cardinality(Accepted) > 0
  BY <1>1, Finite, OneLess
<1>2. acquiring \in Nat /\ inAccept \in Nat /\ accepting \in BOOLEAN
  BY DEF TypeOK
<1>3. acquiring + inAccept + Cardinality(Accepted) <= (IF accepting THEN 1 ELSE 0)
  BY <1>2, Finite, NoErrors DEF FlagInv
<1>4. ASSUME accepting, Accepted = {}
      PROVE  acquiring + inAccept > 0 \/ \E e \in Errors : failed[e] > 0
  <2>1. Cardinality(Accepted) = 0
    BY <1>4, FS_EmptySet
  <2>. QED  BY <1>2, <1>4, <2>1, NoErrors DEF FlagInv
<1>. QED  BY <1>1, <1>2, <1>3, <1>4, Finite
-----------------------------------------------------------------------------
(* Each step keeps the invariant *)

LEMMA CallAcceptStep ==
  ASSUME IInv, CallAccept
  PROVE  IInv'
<1>. USE DEF IInv, CallAccept
<1>1. Accepted' = Accepted
  BY DEF TypeOK, Accepted
<1>2. Held' = Held
  BY DEF Held
<1>3. TypeOK'
  BY <1>2, Finite, NoErrors DEF TypeOK, Places, PermitsConserved
<1>4. FlagInv'
  BY <1>1, Finite, NoErrors, OneAtMost DEF TypeOK, FlagInv
<1>5. PermitInv'
  BY DEF TypeOK, PermitInv
<1>6. PermitsConserved'
  BY <1>2, Finite, LimitAssumption DEF TypeOK, PermitsConserved
<1>7. CloserInv'
  BY DEF TypeOK, CloserInv
<1>8. NobodyHeldUp'
  BY NoErrors, OneAtMost DEF TypeOK, FlagInv, CloserInv, NobodyHeldUp, Accepting
<1>. QED  BY <1>3, <1>4, <1>5, <1>6, <1>7, <1>8

LEMMA BlockStep ==
  ASSUME IInv, Block
  PROVE  IInv'
<1>. USE DEF IInv, Block, Nothing
<1>1. Accepted' = Accepted
  BY DEF TypeOK, Accepted
<1>2. Held' = Held
  BY DEF Held
<1>3. TypeOK'
  BY <1>2, Finite, NoErrors DEF TypeOK, Places, PermitsConserved
<1>4. FlagInv'
  BY <1>1, Finite, NoErrors, OneAtMost DEF TypeOK, FlagInv
<1>5. PermitInv'
  BY DEF TypeOK, PermitInv
<1>6. PermitsConserved'
  BY <1>2, Finite, LimitAssumption DEF TypeOK, PermitsConserved
<1>7. CloserInv'
  BY DEF TypeOK, CloserInv
<1>8. NobodyHeldUp'
  BY NoErrors, OneAtMost DEF TypeOK, FlagInv, CloserInv, NobodyHeldUp, Accepting
<1>. QED  BY <1>3, <1>4, <1>5, <1>6, <1>7, <1>8

LEMMA TakeErrorStep ==
  ASSUME IInv, TakeError
  PROVE  IInv'
<1>. USE DEF IInv, TakeError, AfterError
<1>1. Accepted' = Accepted
  BY DEF TypeOK, Accepted
<1>2. Held' = Held
  BY DEF Held
<1>3. TypeOK'
  BY <1>2, Finite, NoErrors DEF TypeOK, Places, PermitsConserved
<1>4. FlagInv'
  BY <1>1, Finite, NoErrors, OneAtMost DEF TypeOK, FlagInv
<1>5. PermitInv'
  BY DEF TypeOK, PermitInv
<1>6. PermitsConserved'
  BY <1>2, Finite, LimitAssumption DEF TypeOK, PermitsConserved
<1>7. CloserInv'
  BY DEF TypeOK, CloserInv
<1>8. NobodyHeldUp'
  BY NoErrors, OneAtMost DEF TypeOK, FlagInv, CloserInv, NobodyHeldUp, Accepting
<1>. QED  BY <1>3, <1>4, <1>5, <1>6, <1>7, <1>8

LEMMA WakeUpStep ==
  ASSUME IInv, WakeUp
  PROVE  IInv'
<1>. USE DEF IInv, WakeUp
<1>1. Accepted' = Accepted
  BY DEF TypeOK, Accepted
<1>2. Held' = Held
  BY DEF Held
<1>3. TypeOK'
  BY <1>2, Finite, NoErrors DEF TypeOK, Places, PermitsConserved
<1>4. FlagInv'
  BY <1>1, Finite, NoErrors, OneAtMost DEF TypeOK, FlagInv
<1>5. PermitInv'
  BY DEF TypeOK, PermitInv
<1>6. PermitsConserved'
  BY <1>2, Finite, LimitAssumption DEF TypeOK, PermitsConserved
<1>7. CloserInv'
  BY DEF TypeOK, CloserInv
<1>8. NobodyHeldUp'
  BY NoErrors, OneAtMost DEF TypeOK, FlagInv, CloserInv, NobodyHeldUp, Accepting
<1>. QED  BY <1>3, <1>4, <1>5, <1>6, <1>7, <1>8

LEMMA TakeConnStep ==
  ASSUME IInv, NEW c \in Conns, TakeConn(c)
  PROVE  IInv'
<1>. USE DEF IInv, TakeConn
<1>1. Accepted' = Accepted
  BY DEF TypeOK, Accepted
<1>2. Held' = Held
  BY DEF Held
<1>3. TypeOK'
  BY <1>2, Finite, NoErrors DEF TypeOK, Places, PermitsConserved
<1>4. FlagInv'
  BY <1>1, Finite, NoErrors, OneAtMost DEF TypeOK, FlagInv
<1>5. PermitInv'
  BY DEF TypeOK, PermitInv
<1>6. PermitsConserved'
  BY <1>2, Finite, LimitAssumption DEF TypeOK, PermitsConserved
<1>7. CloserInv'
  BY DEF TypeOK, CloserInv
<1>8. NobodyHeldUp'
  BY NoErrors, OneAtMost DEF TypeOK, FlagInv, CloserInv, NobodyHeldUp, Accepting
<1>. QED  BY <1>3, <1>4, <1>5, <1>6, <1>7, <1>8

LEMMA TryFlagStep ==
  ASSUME IInv, TryFlag
  PROVE  IInv'
<1>. USE DEF IInv, TryFlag
<1>1. Accepted' = Accepted
  BY DEF TypeOK, Accepted
<1>2. Held' = Held
  BY DEF Held
<1>3. TypeOK'
  BY <1>2, Finite, NoErrors DEF TypeOK, Places, PermitsConserved
<1>4. FlagInv'
  BY <1>1, Finite, NoErrors, OneAtMost DEF TypeOK, FlagInv
<1>5. PermitInv'
  BY DEF TypeOK, PermitInv
<1>6. PermitsConserved'
  BY <1>2, Finite, LimitAssumption DEF TypeOK, PermitsConserved
<1>7. CloserInv'
  BY DEF TypeOK, CloserInv
<1>8. NobodyHeldUp'
  <2>1. CASE accepting
    BY <2>1, NoErrors, OneAtMost DEF TypeOK, Accepted, NobodyHeldUp, Accepting
  <2>2. CASE ~accepting
    BY <2>2 DEF TypeOK, NobodyHeldUp, Accepting
  <2>. QED  BY <2>1, <2>2
<1>. QED  BY <1>3, <1>4, <1>5, <1>6, <1>7, <1>8

LEMMA AcquireStep ==
  ASSUME IInv, Acquire
  PROVE  IInv'
<1>. USE DEF IInv, Acquire
<1>1. Accepted' = Accepted
  BY DEF TypeOK, Accepted
<1>2. Held' = Held
  BY DEF Held
<1>3. TypeOK'
  BY <1>2, Finite, NoErrors DEF TypeOK, Places, PermitsConserved
<1>4. FlagInv'
  BY <1>1, Finite, NoErrors, OneAtMost DEF TypeOK, FlagInv
<1>5. PermitInv'
  BY DEF TypeOK, PermitInv
<1>6. PermitsConserved'
  BY <1>2, Finite, LimitAssumption DEF TypeOK, PermitsConserved
<1>7. CloserInv'
  BY DEF TypeOK, CloserInv
<1>8. NobodyHeldUp'
  BY NoErrors, OneAtMost DEF TypeOK, FlagInv, CloserInv, NobodyHeldUp, Accepting
<1>. QED  BY <1>3, <1>4, <1>5, <1>6, <1>7, <1>8

LEMMA AcquireClosedStep ==
  ASSUME IInv, AcquireClosed
  PROVE  IInv'
<1>. USE DEF IInv, AcquireClosed
<1>1. Accepted' = Accepted
  BY DEF TypeOK, Accepted
<1>2. Held' = Held
  BY DEF Held
<1>3. TypeOK'
  BY <1>2, Finite, NoErrors DEF TypeOK, Places, PermitsConserved
<1>4. FlagInv'
  BY <1>1, Finite, NoErrors, OneAtMost DEF TypeOK, FlagInv
<1>5. PermitInv'
  BY DEF TypeOK, PermitInv
<1>6. PermitsConserved'
  BY <1>2, Finite, LimitAssumption DEF TypeOK, PermitsConserved
<1>7. CloserInv'
  BY DEF TypeOK, CloserInv
<1>8. NobodyHeldUp'
  BY NoErrors, OneAtMost DEF TypeOK, FlagInv, CloserInv, NobodyHeldUp, Accepting
<1>. QED  BY <1>3, <1>4, <1>5, <1>6, <1>7, <1>8

LEMMA AcceptErrorStep ==
  ASSUME IInv, AcceptError
  PROVE  IInv'
<1>. USE DEF IInv, AcceptError, Fail
<1>1. Accepted' = Accepted
  BY DEF TypeOK, Accepted
<1>2. Held' = Held
  BY DEF Held
<1>3. TypeOK'
  BY <1>2, Finite, NoErrors DEF TypeOK, Places, PermitsConserved
<1>4. FlagInv'
  BY <1>1, Finite, NoErrors, OneAtMost DEF TypeOK, FlagInv
<1>5. PermitInv'
  BY DEF TypeOK, PermitInv
<1>6. PermitsConserved'
  BY <1>2, Finite, LimitAssumption DEF TypeOK, PermitsConserved
<1>7. CloserInv'
  BY DEF TypeOK, CloserInv
<1>8. NobodyHeldUp'
  BY NoErrors, OneAtMost DEF TypeOK, FlagInv, CloserInv, NobodyHeldUp, Accepting
<1>. QED  BY <1>3, <1>4, <1>5, <1>6, <1>7, <1>8

LEMMA ClearAfterErrorStep ==
  ASSUME IInv, NEW e \in Errors, ClearAfterError(e)
  PROVE  IInv'
<1>. USE DEF IInv, ClearAfterError
<1>1. Accepted' = Accepted
  BY DEF TypeOK, Accepted
<1>2. Held' = Held
  BY DEF Held
<1>3. TypeOK'
  <2>1. failed[e] \in Nat /\ failing[e] \in Nat
    BY DEF TypeOK
  <2>2. failed' \in [Errors -> Nat] /\ failing' \in [Errors -> Nat]
    BY <2>1 DEF TypeOK
  <2>. QED  BY <2>2 DEF TypeOK, Places
<1>4. FlagInv'
  BY <1>1, Finite, NoErrors, OneAtMost DEF TypeOK, FlagInv
<1>5. PermitInv'
  BY DEF TypeOK, PermitInv
<1>6. PermitsConserved'
  BY <1>2, Finite, LimitAssumption DEF TypeOK, PermitsConserved
<1>7. CloserInv'
  BY DEF TypeOK, CloserInv
<1>8. NobodyHeldUp'
  BY NoErrors, OneAtMost DEF TypeOK, FlagInv, CloserInv, NobodyHeldUp, Accepting
<1>. QED  BY <1>3, <1>4, <1>5, <1>6, <1>7, <1>8

LEMMA SendErrorStep ==
  ASSUME IInv, NEW e \in Errors, SendError(e)
  PROVE  IInv'
<1>. USE DEF IInv, SendError, AfterError
<1>1. Accepted' = Accepted
  BY DEF TypeOK, Accepted
<1>2. Held' = Held
  BY DEF Held
<1>3. TypeOK'
  BY <1>2, Finite, NoErrors DEF TypeOK, Places, PermitsConserved
<1>4. FlagInv'
  BY <1>1, Finite, NoErrors, OneAtMost DEF TypeOK, FlagInv
<1>5. PermitInv'
  BY DEF TypeOK, PermitInv
<1>6. PermitsConserved'
  BY <1>2, Finite, LimitAssumption DEF TypeOK, PermitsConserved
<1>7. CloserInv'
  BY DEF TypeOK, CloserInv
<1>8. NobodyHeldUp'
  BY NoErrors, OneAtMost DEF TypeOK, FlagInv, CloserInv, NobodyHeldUp, Accepting
<1>. QED  BY <1>3, <1>4, <1>5, <1>6, <1>7, <1>8

LEMMA StartNextStep ==
  ASSUME IInv, NEW c \in Conns, StartNext(c)
  PROVE  IInv'
<1>. USE DEF IInv, StartNext
<1>1. Accepted' = Accepted
  BY DEF TypeOK, Accepted
<1>2. Held' = Held
  BY DEF Held
<1>3. TypeOK'
  BY <1>2, Finite, NoErrors DEF TypeOK, Places, PermitsConserved
<1>4. FlagInv'
  BY <1>1, Finite, NoErrors, OneAtMost DEF TypeOK, FlagInv
<1>5. PermitInv'
  BY DEF TypeOK, PermitInv
<1>6. PermitsConserved'
  BY <1>2, Finite, LimitAssumption DEF TypeOK, PermitsConserved
<1>7. CloserInv'
  BY DEF TypeOK, CloserInv
<1>8. NobodyHeldUp'
  BY NoErrors, OneAtMost DEF TypeOK, FlagInv, CloserInv, NobodyHeldUp, Accepting
<1>. QED  BY <1>3, <1>4, <1>5, <1>6, <1>7, <1>8

LEMMA LooksTLSStep ==
  ASSUME IInv, NEW c \in Conns, LooksTLS(c)
  PROVE  IInv'
<1>. USE DEF IInv, LooksTLS
<1>1. Accepted' = Accepted
  BY DEF TypeOK, Accepted
<1>2. Held' = Held
  BY DEF Held
<1>3. TypeOK'
  BY <1>2, Finite, NoErrors DEF TypeOK, Places, PermitsConserved
<1>4. FlagInv'
  BY <1>1, Finite, NoErrors, OneAtMost DEF TypeOK, FlagInv
<1>5. PermitInv'
  BY DEF TypeOK, PermitInv
<1>6. PermitsConserved'
  BY <1>2, Finite, LimitAssumption DEF TypeOK, PermitsConserved
<1>7. CloserInv'
  BY DEF TypeOK, CloserInv
<1>8. NobodyHeldUp'
  BY NoErrors, OneAtMost DEF TypeOK, FlagInv, CloserInv, NobodyHeldUp, Accepting
<1>. QED  BY <1>3, <1>4, <1>5, <1>6, <1>7, <1>8

LEMMA LooksHTTPStep ==
  ASSUME IInv, NEW c \in Conns, LooksHTTP(c)
  PROVE  IInv'
<1>. USE DEF IInv, LooksHTTP
<1>1. Accepted' = Accepted
  BY DEF TypeOK, Accepted
<1>2. Held' = Held
  BY DEF Held
<1>3. TypeOK'
  BY <1>2, Finite, NoErrors DEF TypeOK, Places, PermitsConserved
<1>4. FlagInv'
  BY <1>1, Finite, NoErrors, OneAtMost DEF TypeOK, FlagInv
<1>5. PermitInv'
  BY DEF TypeOK, PermitInv
<1>6. PermitsConserved'
  BY <1>2, Finite, LimitAssumption DEF TypeOK, PermitsConserved
<1>7. CloserInv'
  BY DEF TypeOK, CloserInv
<1>8. NobodyHeldUp'
  BY NoErrors, OneAtMost DEF TypeOK, FlagInv, CloserInv, NobodyHeldUp, Accepting
<1>. QED  BY <1>3, <1>4, <1>5, <1>6, <1>7, <1>8

LEMMA HeadFillsStep ==
  ASSUME IInv, NEW c \in Conns, HeadFills(c)
  PROVE  IInv'
<1>. USE DEF IInv, HeadFills
<1>1. Accepted' = Accepted
  BY DEF TypeOK, Accepted
<1>2. Held' = Held
  BY DEF Held
<1>3. TypeOK'
  BY <1>2, Finite, NoErrors DEF TypeOK, Places, PermitsConserved
<1>4. FlagInv'
  BY <1>1, Finite, NoErrors, OneAtMost DEF TypeOK, FlagInv
<1>5. PermitInv'
  BY DEF TypeOK, PermitInv
<1>6. PermitsConserved'
  BY <1>2, Finite, LimitAssumption DEF TypeOK, PermitsConserved
<1>7. CloserInv'
  BY DEF TypeOK, CloserInv
<1>8. NobodyHeldUp'
  BY NoErrors, OneAtMost DEF TypeOK, FlagInv, CloserInv, NobodyHeldUp, Accepting
<1>. QED  BY <1>3, <1>4, <1>5, <1>6, <1>7, <1>8

LEMMA SendConnStep ==
  ASSUME IInv, NEW c \in Conns, SendConn(c)
  PROVE  IInv'
<1>. USE DEF IInv, SendConn
<1>1. Accepted' = Accepted
  BY DEF TypeOK, Accepted
<1>2. Held' = Held
  BY DEF Held
<1>3. TypeOK'
  BY <1>2, Finite, NoErrors DEF TypeOK, Places, PermitsConserved
<1>4. FlagInv'
  BY <1>1, Finite, NoErrors, OneAtMost DEF TypeOK, FlagInv
<1>5. PermitInv'
  BY DEF TypeOK, PermitInv
<1>6. PermitsConserved'
  BY <1>2, Finite, LimitAssumption DEF TypeOK, PermitsConserved
<1>7. CloserInv'
  BY DEF TypeOK, CloserInv
<1>8. NobodyHeldUp'
  BY NoErrors, OneAtMost DEF TypeOK, FlagInv, CloserInv, NobodyHeldUp, Accepting
<1>. QED  BY <1>3, <1>4, <1>5, <1>6, <1>7, <1>8

LEMMA ArriveStep ==
  ASSUME IInv, NEW c \in Conns, Arrive(c)
  PROVE  IInv'
<1>. USE DEF IInv, Arrive
<1>1. Accepted' = Accepted
  BY DEF TypeOK, Accepted
<1>2. Held' = Held
  BY DEF Held
<1>3. TypeOK'
  BY <1>2, Finite, NoErrors DEF TypeOK, Places, PermitsConserved
<1>4. FlagInv'
  BY <1>1, Finite, NoErrors, OneAtMost DEF TypeOK, FlagInv
<1>5. PermitInv'
  BY DEF TypeOK, PermitInv
<1>6. PermitsConserved'
  BY <1>2, Finite, LimitAssumption DEF TypeOK, PermitsConserved
<1>7. CloserInv'
  BY DEF TypeOK, CloserInv
<1>8. NobodyHeldUp'
  BY NoErrors, OneAtMost DEF TypeOK, FlagInv, CloserInv, NobodyHeldUp, Accepting
<1>. QED  BY <1>3, <1>4, <1>5, <1>6, <1>7, <1>8

LEMMA ShutdownStep ==
  ASSUME IInv, Shutdown
  PROVE  IInv'
<1>. USE DEF IInv, Shutdown, CloserAt
<1>1. Accepted' = Accepted
  BY DEF TypeOK, Accepted
<1>2. Held' = Held
  BY DEF Held
<1>3. TypeOK'
  BY <1>2, Finite, NoErrors DEF TypeOK, Places, PermitsConserved
<1>4. FlagInv'
  BY <1>1, Finite, NoErrors, OneAtMost DEF TypeOK, FlagInv
<1>5. PermitInv'
  BY DEF TypeOK, PermitInv
<1>6. PermitsConserved'
  BY <1>2, Finite, LimitAssumption DEF TypeOK, PermitsConserved
<1>7. CloserInv'
  BY DEF TypeOK, CloserInv
<1>8. NobodyHeldUp'
  BY NoErrors, OneAtMost DEF TypeOK, FlagInv, CloserInv, NobodyHeldUp, Accepting
<1>. QED  BY <1>3, <1>4, <1>5, <1>6, <1>7, <1>8

LEMMA DeferredStep ==
  ASSUME IInv, Deferred
  PROVE  IInv'
<1>. USE DEF IInv, Deferred, CloserAt
<1>1. Accepted' = Accepted
  BY DEF TypeOK, Accepted
<1>2. Held' = Held
  BY DEF Held
<1>3. TypeOK'
  BY <1>2, Finite, NoErrors DEF TypeOK, Places, PermitsConserved
<1>4. FlagInv'
  BY <1>1, Finite, NoErrors, OneAtMost DEF TypeOK, FlagInv
<1>5. PermitInv'
  BY DEF TypeOK, PermitInv
<1>6. PermitsConserved'
  BY <1>2, Finite, LimitAssumption DEF TypeOK, PermitsConserved
<1>7. CloserInv'
  BY DEF TypeOK, CloserInv
<1>8. NobodyHeldUp'
  BY NoErrors, OneAtMost DEF TypeOK, FlagInv, CloserInv, NobodyHeldUp, Accepting
<1>. QED  BY <1>3, <1>4, <1>5, <1>6, <1>7, <1>8

LEMMA CloseRateStep ==
  ASSUME IInv, NEW k \in Closers, CloseRate(k)
  PROVE  IInv'
<1>. USE DEF IInv, CloseRate, CloserAt
<1>1. Accepted' = Accepted
  BY DEF TypeOK, Accepted
<1>2. Held' = Held
  BY DEF Held
<1>3. TypeOK'
  BY <1>2, Finite, NoErrors DEF TypeOK, Places, PermitsConserved
<1>4. FlagInv'
  BY <1>1, Finite, NoErrors, OneAtMost DEF TypeOK, FlagInv
<1>5. PermitInv'
  BY DEF TypeOK, PermitInv
<1>6. PermitsConserved'
  BY <1>2, Finite, LimitAssumption DEF TypeOK, PermitsConserved
<1>7. CloserInv'
  BY DEF TypeOK, CloserInv
<1>8. NobodyHeldUp'
  BY NoErrors, OneAtMost DEF TypeOK, FlagInv, CloserInv, NobodyHeldUp, Accepting
<1>. QED  BY <1>3, <1>4, <1>5, <1>6, <1>7, <1>8

LEMMA CloseListenerStep ==
  ASSUME IInv, NEW k \in Closers, CloseListener(k)
  PROVE  IInv'
<1>. USE DEF IInv, CloseListener, CloserAt
<1>1. Accepted' = Accepted
  BY DEF TypeOK, Accepted
<1>2. Held' = Held
  BY DEF Held
<1>3. TypeOK'
  BY <1>2, Finite, NoErrors DEF TypeOK, Places, PermitsConserved
<1>4. FlagInv'
  BY <1>1, Finite, NoErrors, OneAtMost DEF TypeOK, FlagInv
<1>5. PermitInv'
  BY DEF TypeOK, PermitInv
<1>6. PermitsConserved'
  BY <1>2, Finite, LimitAssumption DEF TypeOK, PermitsConserved
<1>7. CloserInv'
  BY DEF TypeOK, CloserInv
<1>8. NobodyHeldUp'
  BY NoErrors, OneAtMost DEF TypeOK, FlagInv, CloserInv, NobodyHeldUp, Accepting
<1>. QED  BY <1>3, <1>4, <1>5, <1>6, <1>7, <1>8

LEMMA DrainErrorStep ==
  ASSUME IInv, NEW k \in Closers, DrainError(k)
  PROVE  IInv'
<1>. USE DEF IInv, DrainError, CloserAt
<1>1. Accepted' = Accepted
  BY DEF TypeOK, Accepted
<1>2. Held' = Held
  BY DEF Held
<1>3. TypeOK'
  BY <1>2, Finite, NoErrors DEF TypeOK, Places, PermitsConserved
<1>4. FlagInv'
  BY <1>1, Finite, NoErrors, OneAtMost DEF TypeOK, FlagInv
<1>5. PermitInv'
  BY DEF TypeOK, PermitInv
<1>6. PermitsConserved'
  BY <1>2, Finite, LimitAssumption DEF TypeOK, PermitsConserved
<1>7. CloserInv'
  BY DEF TypeOK, CloserInv
<1>8. NobodyHeldUp'
  BY NoErrors, OneAtMost DEF TypeOK, FlagInv, CloserInv, NobodyHeldUp, Accepting
<1>. QED  BY <1>3, <1>4, <1>5, <1>6, <1>7, <1>8

LEMMA AcceptConnStep ==
  ASSUME IInv, NEW c \in Conns, AcceptConn(c)
  PROVE  IInv'
<1>. USE DEF IInv, AcceptConn
<1>1. Cardinality(Accepted)' = Cardinality(Accepted) + 1
  <2>1. Accepted' = Accepted \union {c} /\ c \notin Accepted
    BY DEF TypeOK, Accepted
  <2>. QED  BY <2>1, Finite, OneMore
<1>2. Cardinality(Held)' = Cardinality(Held) + 1
  <2>1. Held' = Held \union {c} /\ c \notin Held
    BY DEF TypeOK, Held, PermitInv
  <2>. QED  BY <2>1, Finite, OneMore
<1>3. TypeOK'
  BY <1>2, Finite, NoErrors DEF TypeOK, Places, PermitsConserved
<1>4. FlagInv'
  BY <1>1, Finite, NoErrors, OneAtMost DEF TypeOK, FlagInv
<1>5. PermitInv'
  BY DEF TypeOK, PermitInv
<1>6. PermitsConserved'
  BY <1>2, Finite, LimitAssumption DEF TypeOK, PermitsConserved
<1>7. CloserInv'
  BY DEF TypeOK, CloserInv
<1>8. NobodyHeldUp'
  BY NoErrors, OneAtMost DEF TypeOK, FlagInv, CloserInv, NobodyHeldUp, Accepting
<1>. QED  BY <1>3, <1>4, <1>5, <1>6, <1>7, <1>8

LEMMA ClearFlagStep ==
  ASSUME IInv, NEW c \in Conns, ClearFlag(c)
  PROVE  IInv'
<1>. USE DEF IInv, ClearFlag
<1>1. Cardinality(Accepted)' = Cardinality(Accepted) - 1 /\ Accepted # {}
  <2>1. Accepted' = Accepted \ {c} /\ c \in Accepted
    BY DEF TypeOK, Accepted
  <2>. QED  BY <2>1, Finite, OneLess
<1>2. Held' = Held
  BY DEF Held
<1>3. TypeOK'
  BY <1>2, Finite, NoErrors DEF TypeOK, Places, PermitsConserved
<1>4. FlagInv'
  BY <1>1, Finite, NoErrors, OneAtMost DEF TypeOK, FlagInv
<1>5. PermitInv'
  BY DEF TypeOK, PermitInv
<1>6. PermitsConserved'
  BY <1>2, Finite, LimitAssumption DEF TypeOK, PermitsConserved
<1>7. CloserInv'
  BY DEF TypeOK, CloserInv
<1>8. NobodyHeldUp'
  BY NoErrors, OneAtMost DEF TypeOK, FlagInv, CloserInv, NobodyHeldUp, Accepting
<1>. QED  BY <1>3, <1>4, <1>5, <1>6, <1>7, <1>8

LEMMA CloseConnStep ==
  ASSUME IInv, NEW c \in Conns, CloseConn(c)
  PROVE  IInv'
<1>. USE DEF IInv, CloseConn
<1>1. Accepted' = Accepted
  BY DEF TypeOK, Accepted
<1>2. Cardinality(Held)' = (IF limited[c] THEN Cardinality(Held) - 1 ELSE Cardinality(Held))
      /\ (limited[c] => Cardinality(Held) > 0)
  <2>1. CASE limited[c]
    <3>1. Held' = Held \ {c} /\ c \in Held
      BY <2>1 DEF TypeOK, Held
    <3>. QED  BY <2>1, <3>1, Finite, OneLess
  <2>2. CASE ~limited[c]
    <3>1. Held' = Held
      BY <2>2 DEF TypeOK, Held
    <3>. QED  BY <2>2, <3>1
  <2>. QED  BY <2>1, <2>2
<1>3. TypeOK'
  BY <1>2, Finite, NoErrors DEF TypeOK, Places, PermitsConserved
<1>4. FlagInv'
  BY <1>1, Finite, NoErrors, OneAtMost DEF TypeOK, FlagInv
<1>5. PermitInv'
  BY DEF TypeOK, PermitInv
<1>6. PermitsConserved'
  BY <1>2, Finite, LimitAssumption DEF TypeOK, PermitsConserved
<1>7. CloserInv'
  BY DEF TypeOK, CloserInv
<1>8. NobodyHeldUp'
  BY NoErrors, OneAtMost DEF TypeOK, FlagInv, CloserInv, NobodyHeldUp, Accepting
<1>. QED  BY <1>3, <1>4, <1>5, <1>6, <1>7, <1>8

LEMMA DrainConnStep ==
  ASSUME IInv, NEW k \in Closers, DrainConn(k)
  PROVE  IInv'
<1>. USE DEF IInv, DrainConn, CloserAt, Queued
<1>1. Accepted' = Accepted
  BY DEF TypeOK, Accepted
<1>2. /\ permits' = permits - 1 => Cardinality(Held)' = Cardinality(Held) - 1 /\ Cardinality(Held) > 0
      /\ permits' = permits - 1 \/ (permits' = permits /\ Held' = Held)
  <2>1. CASE Queued = {}
    BY <2>1 DEF TypeOK, Held
  <2>2. CASE Queued # {}
    <3>1. PICK c \in Queued : /\ Move(c, "closed")
                              /\ limited' = [limited EXCEPT ![c] = FALSE]
                              /\ permits' = permits - 1
      BY <2>2
    <3>2. Held' = Held \ {c} /\ c \in Held
      BY <3>1 DEF TypeOK, Held, PermitInv
    <3>. QED  BY <3>1, <3>2, Finite, OneLess
  <2>. QED  BY <2>1, <2>2
<1>3. TypeOK'
  <2>1. conn' \in [Conns -> Places] /\ limited' \in [Conns -> BOOLEAN]
    BY DEF TypeOK, Places
  <2>2. permits' \in Nat
    BY <1>2, Finite DEF TypeOK, PermitsConserved
  <2>3. closer' \in [Closers -> {"idle", "rate", "listener", "drainConn", "drainError", "closed"}]
    BY DEF TypeOK
  <2>. QED  BY <2>1, <2>2, <2>3 DEF TypeOK
<1>4. FlagInv'
  BY <1>1, Finite, NoErrors, OneAtMost DEF TypeOK, FlagInv
<1>5. PermitInv'
  BY DEF TypeOK, PermitInv
<1>6. PermitsConserved'
  BY <1>2, Finite, LimitAssumption DEF TypeOK, PermitsConserved
<1>7. CloserInv'
  BY DEF TypeOK, CloserInv
<1>8. NobodyHeldUp'
  BY NoErrors, OneAtMost DEF TypeOK, FlagInv, CloserInv, NobodyHeldUp, Accepting
<1>. QED  BY <1>3, <1>4, <1>5, <1>6, <1>7, <1>8
-----------------------------------------------------------------------------
(* Together *)

LEMMA InitInv == Init => IInv
<1>. SUFFICES ASSUME Init PROVE IInv
  OBVIOUS
<1>. USE DEF Init
<1>1. Accepted = {} /\ Held = {}
  BY DEF Accepted, Held
<1>2. Cardinality(Accepted) = 0 /\ Cardinality(Held) = 0
  BY <1>1, FS_EmptySet
<1>3. TypeOK
  BY DEF TypeOK, Places
<1>4. FlagInv /\ PermitsConserved
  BY <1>2, LimitAssumption DEF FlagInv, PermitsConserved
<1>5. PermitInv /\ CloserInv /\ NobodyHeldUp
  BY DEF PermitInv, CloserInv, NobodyHeldUp
<1>. QED  BY <1>3, <1>4, <1>5 DEF IInv

LEMMA StepInv == IInv /\ [Next]_vars => IInv'
<1>. SUFFICES ASSUME IInv, [Next]_vars PROVE IInv'
  OBVIOUS
<1>1. CASE UNCHANGED vars
  <2>1. Accepted' = Accepted /\ Held' = Held
    BY <1>1 DEF vars, Accepted, Held
  <2>. QED  BY <1>1, <2>1 DEF vars, IInv, TypeOK, FlagInv, PermitInv, PermitsConserved,
            CloserInv, NobodyHeldUp, Accepting
<1>2. CASE Server
  BY <1>2, CallAcceptStep, BlockStep, TakeErrorStep, WakeUpStep, TakeConnStep DEF Server
<1>3. CASE Accepter
  BY <1>3, TryFlagStep, AcquireStep, AcquireClosedStep, AcceptErrorStep, ClearAfterErrorStep,
     SendErrorStep, AcceptConnStep, ClearFlagStep, StartNextStep, LooksTLSStep, LooksHTTPStep,
     HeadFillsStep, SendConnStep
  DEF Accepter
<1>. QED
  BY <1>1, <1>2, <1>3, ArriveStep, CloseConnStep, ShutdownStep, DeferredStep, CloseRateStep,
     CloseListenerStep, DrainConnStep, DrainErrorStep
  DEF Next, Close

LEMMA Invariant == Spec => []IInv
  BY InitInv, StepInv, PTL DEF Spec

\* Every variable has its type; no permit is given back that was not taken.
THEOREM ListenerTypes == Spec => []TypeOK
  BY Invariant, PTL DEF IInv

\* The flag keeps all but one goroutine out of the Accept of the listener below.
THEOREM OneInAccept == Spec => []OneAccepter
<1>1. IInv => OneAccepter
  BY OneAtMost DEF IInv, OneAccepter
<1>. QED  BY <1>1, Invariant, PTL

\* Permits are those of the open connections and of the accepter, within the limit.
THEOREM PermitsKept == Spec => []PermitsConserved
  BY Invariant, PTL DEF IInv

\* While the server waits, the next connection is looked for.
THEOREM NobodyIsHeldUp == Spec => []NobodyHeldUp
  BY Invariant, PTL DEF IInv
=============================================================================
