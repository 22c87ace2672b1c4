------------------------------ MODULE Database -------------------------------
(***************************************************************************)
(* database/db.go as the cluster uses it: the implementation the             *)
(* configuration names, behind one interface.                                *)
(***************************************************************************)
EXTENDS Records

VARIABLES
  driver,   \* config.Database.Driver: memory, or one of the SQL drivers
  db,       \* the tables
  answer    \* the last operation and its error

M == INSTANCE MemoryDB
S == INSTANCE SqlDB
R == INSTANCE RecordMap

Drivers == {"memory", "sql"}
Pick(m, s) == IF driver = "memory" THEN m ELSE s

ValidJTI(id, now)         == Pick(M!ValidJTI(db, id, now), S!ValidJTI(db, id, now))
AddJTI(id, exp)           == Pick(M!AddJTI(db, id, exp), S!AddJTI(db, id, exp))
RemoveJTI(id)             == Pick(M!RemoveJTI(db, id), S!RemoveJTI(db, id))
GetFileRecord(p)          == Pick(M!GetFileRecord(db, p), S!GetFileRecord(db, p))
SetFileRecord(p, hash)    == Pick(M!SetFileRecord(db, p, hash), S!SetFileRecord(db, p, hash))
GetSubscribe(c)           == Pick(M!GetSubscribe(db, c), S!GetSubscribe(db, c))
SetSubscribe(c, end, rec) == Pick(M!SetSubscribe(db, c, end, rec), S!SetSubscribe(db, c, end, rec))
RemoveSubscribe(c)        == Pick(M!RemoveSubscribe(db, c), S!RemoveSubscribe(db, c))
ForEachSubscribe          == Pick(M!ForEachSubscribe(db), S!ForEachSubscribe(db))
GetEmail(a)               == Pick(M!GetEmail(db, a), S!GetEmail(db, a))
AddEmail(a, rec)          == Pick(M!AddEmail(db, a, rec), S!AddEmail(db, a, rec))
UpdateEmail(a, scopes)    == Pick(M!UpdateEmail(db, a, scopes), S!UpdateEmail(db, a, scopes))
RemoveEmail(a)            == Pick(M!RemoveEmail(db, a), S!RemoveEmail(db, a))
ListEmails                == Pick(M!ListEmails(db), S!ListEmails(db))
ForEachEnabledEmail       == Pick(M!ForEachEnabledEmail(db), S!ForEachEnabledEmail(db))
GetWebhook(h)             == Pick(M!GetWebhook(db, h), S!GetWebhook(db, h))
AddWebhook(h, auth)       == Pick(M!AddWebhook(db, h, auth), S!AddWebhook(db, h, auth))
UpdateWebhook(h, auth)    == Pick(M!UpdateWebhook(db, h, auth), S!UpdateWebhook(db, h, auth))
RemoveWebhook(h)          == Pick(M!RemoveWebhook(db, h), S!RemoveWebhook(db, h))
ListWebhooks              == Pick(M!ListWebhooks(db), S!ListWebhooks(db))

\* One call: what it leaves in the tables, and what it returned.  The database fails only
\* while mayFail.
Did(op, table, k, outcome) ==
  /\ db' = outcome.db
  /\ answer' = R!Answer(op, table, k, outcome.err)

\* NewMemoryDB starts empty; an SQL database is as it was left.
Reopen == db' = Pick(Empty, db) /\ answer' = R!NoAnswer
=============================================================================
