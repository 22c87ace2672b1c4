-------------------------------- MODULE SqlDB --------------------------------
(***************************************************************************)
(* database/sql.go: the tables in sqlite, mysql or postgres, whose statements  *)
(* differ in their marks only.  A statement that matches no row succeeds.     *)
(* Each method has a deadline; past it, it returns an error and the database  *)
(* may or may not have done what it was asked.                                *)
(***************************************************************************)
EXTENDS Records

\* What a method returns whose statements turn old into new, on time or not.
Exec(old, new) ==
  Reply(new, Nil) \cup {[db |-> d, err |-> "failed", fault |-> TRUE] : d \in {old, new}}

\* The driver's own error: of a key that is there, of a wrong number of arguments.
Refused(db) == Reply(db, "failed")

Query(db, found) ==
  Reply(db, IF found THEN Nil ELSE "notFound") \cup {[db |-> db, err |-> "failed", fault |-> TRUE]}

\* UPDATE ... WHERE key: the row takes the new value, if there is one.
Update(t, k, row) == IF Has(t, k) THEN Put(t, k, row) ELSE t

ValidJTI(db, id, now) == Has(db.tokens, id) /\ now < db.tokens[id]

\* The cleaner's context is the one NewSqlDB cancels as it returns: no token is cleaned.
AddJTI(db, id, exp) ==
  IF Has(db.tokens, id) THEN Refused(db)
  ELSE Exec(db, [db EXCEPT !.tokens = Put(@, id, exp)])

RemoveJTI(db, id) == Exec(db, [db EXCEPT !.tokens = Drop(@, id)])

GetFileRecord(db, p) == Query(db, Has(db.files, p))

\* The row is inserted only if the update fails, and the error of the update is returned.
SetFileRecord(db, p, hash) ==
  LET updated  == [db EXCEPT !.files = Update(@, p, hash)]
      inserted == [db EXCEPT !.files = IF Has(@, p) THEN @ ELSE Put(@, p, hash)]
  IN  Exec(db, updated) \cup {[db |-> inserted, err |-> "failed", fault |-> TRUE]}

GetSubscribe(db, c) == Query(db, Has(db.subscribes, c))

\* Mutant of InsertSubscribe: as with the records of files, only a row that is there is set.
InsertNothing(t, c, rec) == Update(t, c, rec)

InsertSubscribe(t, c, rec) == Put(t, c, [rec EXCEPT !.last = Never])
UpdateSubscribe(t, c, rec) == Update(t, c, [rec EXCEPT !.last = t[c].last])

\* Mutant of UpdateLastReport: the whole record, as in memory.
UpdateWhole(t, c, rec) == Update(t, c, rec)

UpdateLastReport(t, c, rec) == Update(t, c, [t[c] EXCEPT !.last = rec.last])

\* One transaction.
SetSubscribe(db, c, endpoint, rec) ==
  LET t == db.subscribes
      new == IF endpoint
             THEN IF Has(t, c) THEN UpdateSubscribe(t, c, rec) ELSE InsertSubscribe(t, c, rec)
             ELSE IF rec.last # Never THEN UpdateLastReport(t, c, rec)
                                      ELSE UpdateSubscribe(t, c, rec)
  IN  Exec(db, [db EXCEPT !.subscribes = new])

RemoveSubscribe(db, c) == Exec(db, [db EXCEPT !.subscribes = Drop(@, c)])

\* The rows that come before the deadline.
ForEachSubscribe(db) == {Restrict(db.subscribes, S) : S \in SUBSET DOMAIN db.subscribes}

GetEmail(db, a) == Query(db, Has(db.emails, a))

AddEmail(db, a, rec) ==
  IF Has(db.emails, a) THEN Refused(db)
  ELSE Exec(db, [db EXCEPT !.emails = Put(@, a, rec)])

\* The scopes only: what is posted as enabled is not looked at.
UpdateEmail(db, a, scopes) ==
  Exec(db, [db EXCEPT !.emails = Update(@, a, [@[a] EXCEPT !.scopes = scopes])])

RemoveEmail(db, a) == Exec(db, [db EXCEPT !.emails = Drop(@, a)])

ListEmails(db) == Query(db, TRUE)

ForEachEnabledEmail(db) == SUBSET {a \in DOMAIN db.emails : db.emails[a].enabled}

GetWebhook(db, h) == Query(db, Has(db.webhooks, h))

\* Seven arguments for six placeholders.
AddWebhook(db, h, auth) == Refused(db)

UpdateWebhook(db, h, auth) ==
  Exec(db, [db EXCEPT !.webhooks = IF auth = Nil THEN @ ELSE Update(@, h, [@[h] EXCEPT !.auth = auth])])

RemoveWebhook(db, h) == Exec(db, [db EXCEPT !.webhooks = Drop(@, h)])

\* Seven targets for six columns: no row can be scanned.
ListWebhooks(db) == IF DOMAIN db.webhooks = {} THEN Query(db, TRUE) ELSE Refused(db)
=============================================================================
