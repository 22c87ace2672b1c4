------------------------------ MODULE MemoryDB -------------------------------
(***************************************************************************)
(* database/memory.go: the tables as maps of the process.  Each method is     *)
(* under the lock of its table.  NewMemoryDB makes no map for mails and       *)
(* webhooks: reading and deleting find nothing, and a write panics, which     *)
(* the HTTP server recovers from after the deferred Unlock.                   *)
(***************************************************************************)
EXTENDS Records

Unknown(db) == Reply(db, "notFound")

\* The only store into a map that was never made.
Store(db) == Reply(db, "panic")

ValidJTI(db, id, now) == Has(db.tokens, id) /\ now <= db.tokens[id]

AddJTI(db, id, exp) ==
  IF Has(db.tokens, id) THEN Reply(db, "exists")
  ELSE Reply([db EXCEPT !.tokens = Put(@, id, exp)], Nil)

RemoveJTI(db, id) ==
  IF ~Has(db.tokens, id) THEN Unknown(db)
  ELSE Reply([db EXCEPT !.tokens = Drop(@, id)], Nil)

GetFileRecord(db, p) == IF Has(db.files, p) THEN Reply(db, Nil) ELSE Unknown(db)

SetFileRecord(db, p, hash) == Reply([db EXCEPT !.files = Put(@, p, hash)], Nil)

GetSubscribe(db, c) == IF Has(db.subscribes, c) THEN Reply(db, Nil) ELSE Unknown(db)

\* Without an endpoint the old one is kept, and nothing else of the old record.
SetSubscribe(db, c, endpoint, rec) ==
  IF ~endpoint /\ ~Has(db.subscribes, c) THEN Unknown(db)
  ELSE Reply([db EXCEPT !.subscribes = Put(@, c, rec)], Nil)

RemoveSubscribe(db, c) ==
  IF ~Has(db.subscribes, c) THEN Unknown(db)
  ELSE Reply([db EXCEPT !.subscribes = Drop(@, c)], Nil)

\* The rows ForEach calls back with, under one lock.
ForEachSubscribe(db) == {db.subscribes}

GetEmail(db, a) == IF Has(db.emails, a) THEN Reply(db, Nil) ELSE Unknown(db)

AddEmail(db, a, rec) == IF Has(db.emails, a) THEN Reply(db, "exists") ELSE Store(db)

\* The test of the two is the wrong way round.
UpdateEmail(db, a, scopes) == IF Has(db.emails, a) THEN Unknown(db) ELSE Store(db)

RemoveEmail(db, a) ==
  IF Has(db.emails, a) THEN Unknown(db)
  ELSE Reply([db EXCEPT !.emails = Drop(@, a)], Nil)

ListEmails(db) == Reply(db, Nil)

ForEachEnabledEmail(db) == {{a \in DOMAIN db.emails : db.emails[a].enabled}}

GetWebhook(db, h) == IF Has(db.webhooks, h) THEN Reply(db, Nil) ELSE Unknown(db)

AddWebhook(db, h, auth) == IF Has(db.webhooks, h) THEN Reply(db, "exists") ELSE Store(db)

\* As for mails; a record without auth panics a line earlier, on the old record.
UpdateWebhook(db, h, auth) == IF Has(db.webhooks, h) THEN Unknown(db) ELSE Store(db)

RemoveWebhook(db, h) ==
  IF Has(db.webhooks, h) THEN Unknown(db)
  ELSE Reply([db EXCEPT !.webhooks = Drop(@, h)], Nil)

ListWebhooks(db) == Reply(db, Nil)
=============================================================================
