---------------------------- MODULE ClusterToken -----------------------------
(***************************************************************************)
(* The token of the cluster, token.go: GetAuthToken is called before every    *)
(* request to the central server, by any goroutine.  A token that has expired *)
(* is fetched with the lock held, one that soon will is refreshed by another  *)
(* goroutine, which holds it too.                                             *)
(*                                                                           *)
(* The end of the context of the caller is an error like others of the fetch   *)
(* or of the refresh.                                                         *)
(***************************************************************************)
EXTENDS Integers

CONSTANTS
  Callers, Refreshers,   \* goroutines in GetAuthToken, and (a bound) those it starts
  Lifetimes,             \* of a token, in ticks
  Soon,                  \* ticks of ten minutes
  MaxClock, MaxTokens    \* bounds

VARIABLES
  clock,
  token,                 \* cr.authToken
  lock,                  \* those that hold cr.authTokenMux for writing
  call                   \* where each goroutine is

vars == <<clock, token, lock, call>>

Threads == Callers \cup Refreshers
Free == {}
None == [no |-> 0, expires |-> -1]

Init ==
  /\ clock = 0 /\ token = None /\ lock = Free
  /\ call = [t \in Threads |-> "idle"]

Expired == token = None \/ token.expires < clock
ExpiresSoon == token # None /\ token.expires - Soon < clock

At(t, stage) == call[t] = stage
Goes(t, stage) == call' = [call EXCEPT ![t] = stage]

\* The part of GetAuthToken under the read lock.
GetAuthToken(c) ==
  /\ At(c, "idle") /\ lock = Free
  /\ IF Expired THEN Goes(c, "expired")
     ELSE IF ExpiresSoon THEN \E r \in Refreshers : At(r, "idle") /\ Goes(r, "soon")
     ELSE UNCHANGED call
  /\ UNCHANGED <<clock, token, lock>>

\* Mutant of Lock: fetches without another look.
LockAndFetch(c) ==
  /\ At(c, "expired") /\ lock = Free
  /\ lock' = {c} /\ Goes(c, "challenge")
  /\ UNCHANGED <<clock, token>>

\* Another caller may have fetched it in the meantime.
Lock(c) ==
  /\ At(c, "expired") /\ lock = Free
  /\ IF Expired THEN lock' = {c} /\ Goes(c, "challenge") ELSE Goes(c, "idle") /\ UNCHANGED lock
  /\ UNCHANGED <<clock, token>>

LockToRefresh(r) ==
  /\ At(r, "soon") /\ lock = Free
  /\ IF ExpiresSoon THEN lock' = {r} /\ Goes(r, "refresh") ELSE Goes(r, "idle") /\ UNCHANGED lock
  /\ UNCHANGED <<clock, token>>

Unlocks(t) == lock' = Free /\ Goes(t, "idle")

\* A token of the server; it counts as expired ten seconds early, so it may be from the start.
NewToken ==
  /\ token.no < MaxTokens
  /\ \E n \in Lifetimes : token' = [no |-> token.no + 1, expires |-> clock + n]

\* fetchToken asks for a challenge, and then for the token with the answer to it.
Challenge(c) ==
  /\ At(c, "challenge") /\ Goes(c, "fetch")
  /\ UNCHANGED <<clock, token, lock>>

Fetched(c) == At(c, "fetch") /\ NewToken /\ Unlocks(c) /\ UNCHANGED clock

\* An error leaves no token.
FetchFails(c) ==
  /\ At(c, "challenge") \/ At(c, "fetch")
  /\ token' = None /\ Unlocks(c) /\ UNCHANGED clock

\* refreshToken.  An error leaves the old one, for the next call to try again.
Refreshed(r) == At(r, "refresh") /\ NewToken /\ Unlocks(r) /\ UNCHANGED clock
RefreshFails(r) == At(r, "refresh") /\ Unlocks(r) /\ UNCHANGED <<clock, token>>

Tick == clock < MaxClock /\ clock' = clock + 1 /\ UNCHANGED <<token, lock, call>>

Next ==
  \/ Tick
  \/ \E c \in Callers : GetAuthToken(c) \/ Lock(c) \/ Challenge(c) \/ Fetched(c) \/ FetchFails(c)
  \/ \E r \in Refreshers : LockToRefresh(r) \/ Refreshed(r) \/ RefreshFails(r)

Spec == Init /\ [][Next]_vars

-----------------------------------------------------------------------------
\* A token that callers have is replaced by a fetch only after it has expired, and by a
\* refresh in its last ten minutes, however many calls found it expired at once, and
\* whether a fetch or a refresh came first (token.go:53).
TokensLast ==
  [][token' # token /\ token # None =>
       IF \E c \in Callers : At(c, "challenge") \/ At(c, "fetch") THEN Expired ELSE ExpiresSoon]_vars
=============================================================================
