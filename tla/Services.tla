------------------------------- MODULE Services -------------------------------
(***************************************************************************)
(* What requests meet beside the storages, side by side: the limits of the    *)
(* API, the hijacker's cache, the token of the cluster and the budget of       *)
(* bytes.  They have no state in common.                                      *)
(***************************************************************************)
EXTENDS LimitSet

CONSTANTS
  HijackRequests, Paths, RequireAuth, EnableLocalCache, Sizes, Ages,
  MaxWatch, MaxRestarts, MaxTimers,                        \* of HjProxy
  Callers, Refreshers, Lifetimes, Soon, MaxClock, MaxTokens, \* of ClusterToken
  Streams, Dialled, MaxConn, Copies, ReadRate, WriteRate, MinReadRate, MinWriteRate,
  ReadSizes, WriteSizes, CopySizes, Second, MaxTime, Deadlines  \* of RateController

\* Lengths of answers, and how long they may be kept.
ASSUME AnswersAssumption == Sizes \subseteq Nat /\ Ages \subseteq Nat
ASSUME LifetimesAssumption == Lifetimes \subseteq Nat /\ Soon \in Nat
ASSUME StreamsAssumption == IsFiniteSet(Streams)
ASSUME SecondAssumption == Second \in Nat \ {0} /\ Deadlines \subseteq Nat
ASSUME RatesAssumption ==
  /\ ReadRate \in Nat /\ WriteRate \in Nat
  /\ MinReadRate \in Nat /\ MinWriteRate \in Nat \ {0}
ASSUME CallsAssumption ==
  ReadSizes \subseteq Nat /\ WriteSizes \subseteq Nat /\ CopySizes \subseteq Nat

VARIABLES
  watch, restarts, cache, saved, disk, req, timer, armed, strays, called, saving, failed,
  clock, token, lock, call,
  used, now, closed, stream, reads, writes, reader, writer, got, sent

Hijack == INSTANCE HjProxy WITH Requests <- HijackRequests, clock <- watch, MaxClock <- MaxWatch
Token  == INSTANCE ClusterToken
Rates  == INSTANCE RateController

\* The index of the cache is on its way to its file (NothingUnsaved of HjProxy).
NothingUnsaved == Hijack!NothingUnsaved

\* Tokens are asked for when they are needed (TokensLast of ClusterToken).
TokensLast == Token!TokensLast

\* The bytes of a window stay near the budget (RateKept of RateController).
RateKept == Rates!RateKept
=============================================================================
