------------------------------- MODULE Records -------------------------------
(***************************************************************************)
(* The tables behind the interface DB of database/db.go, as both of its      *)
(* implementations hold them, and the outcome of an operation on them.  The  *)
(* dashboard has one user, so a row is found by the rest of its key.          *)
(***************************************************************************)
EXTENDS Integers, Functions

CONSTANTS
  Tokens,     \* token ids (JTI)
  Paths,      \* paths of file records
  Hashes,     \* their hashes
  Clients,    \* client ids, one for each browser
  Addrs,      \* mail addresses
  Hooks       \* ids of webhooks

Never == -1   \* a NullTime that is not valid
Nil   == "nil"

Scopes == {"enabled", "dailyreport"}   \* those of NotificationScopes that matter here

Put(t, k, row) == [x \in DOMAIN t \cup {k} |-> IF x = k THEN row ELSE t[x]]
Drop(t, k)     == Restrict(t, DOMAIN t \ {k})
Has(t, k)      == k \in DOMAIN t

NoRows == [k \in {} |-> Nil]
Empty  == [tokens |-> NoRows, files |-> NoRows, subscribes |-> NoRows,
           emails |-> NoRows, webhooks |-> NoRows]

SubscribeRecords(Times, Schedules) ==
  [scopes : SUBSET Scopes, at : Schedules, last : Times \cup {Never}]
EmailRecords   == [scopes : SUBSET Scopes, enabled : BOOLEAN]
WebhookRecords == [auth : STRING, enabled : BOOLEAN]

IsTable(t, K, Rows) == DOMAIN t \subseteq K /\ \A k \in DOMAIN t : t[k] \in Rows

IsDB(db, Times, Schedules) ==
  /\ DOMAIN db = DOMAIN Empty
  /\ IsTable(db.tokens, Tokens, Times)
  /\ IsTable(db.files, Paths, Hashes)
  /\ IsTable(db.subscribes, Clients, SubscribeRecords(Times, Schedules))
  /\ IsTable(db.emails, Addrs, EmailRecords)
  /\ IsTable(db.webhooks, Hooks, WebhookRecords)

\* An outcome: the tables after, the error returned, whether the database is at fault.
Reply(db, err) == {[db |-> db, err |-> err, fault |-> FALSE]}
=============================================================================
