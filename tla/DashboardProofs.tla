--------------------------- MODULE DashboardProofs ---------------------------
(***************************************************************************)
(* For either database, any clients, requests, schedules and failures: the    *)
(* calls keep the promises of the interface DB (RecordMap), a logout is final, *)
(* reports are spaced, and a report does not change what a client subscribed.  *)
(***************************************************************************)
EXTENDS Dashboard, TLAPS

USE DEF reportVars, reporting, sessions, files

\* A row that a subscription may have.
SubscribeRow == [scopes : SUBSET Scopes, at : Schedules, last : {Never} \cup Nat]

\* The tables are there, and every subscription in them or in a lookup is a whole row.
TablesInv ==
  /\ driver \in Drivers
  /\ DOMAIN db = DOMAIN Empty
  /\ IsTable(db.subscribes, Clients, SubscribeRow)

\* Requests that were let in, with what they hold.
RequestsInv ==
  /\ DOMAIN rq = Requests
  /\ \A r \in Requests : rq[r] # Free =>
       rq[r].client \in Clients /\ rq[r].token \in Tokens \cap DOMAIN issued

\* What a logout has removed is in no table, and stays known as a token that was issued, so that
\* its id is not drawn again.
LoggedOutInv ==
  /\ DOMAIN issued \subseteq Tokens
  /\ ended \subseteq DOMAIN issued
  /\ ended \cap DOMAIN db.tokens = {}

\* The rounds: while one is under way the time stands still, and what it has looked up are rows.
RoundsInv ==
  /\ now \in Nat /\ nextReport \in Nat /\ mailing \in BOOLEAN
  /\ DOMAIN sender = Senders
  /\ \A p \in Senders : IsTable(sender[p].sent, Clients, SubscribeRow)

\* A client's last report is written in its row, or about to be.
PushedInv ==
  /\ pushed \in [Clients -> {Never} \cup Nat]
  /\ \A c \in Clients : pushed[c] <= now
  /\ \A c \in DOMAIN db.subscribes : pushed[c] # Never =>
       \/ db.subscribes[c].last >= pushed[c]
       \/ sender["report"].stage \in {"sending", "after"} /\ c \in DOMAIN sender["report"].sent

\* The half hour of the mails.
MailTime(t) == MinuteOfDay(t) \div Hour = 22 /\ MinuteOfDay(t) % Hour < 30

\* The round after one that mailed is not in the same half hour.
MailedInv ==
  /\ mailed \in [Addrs -> {Never} \cup Nat]
  /\ mailing => nextReport = NextReportAfter(now)
  /\ \A a \in Addrs : mailed[a] # Never =>
       /\ mailed[a] <= now /\ MailTime(mailed[a])
       /\ NextReportAfter(mailed[a]) <= IF mailing THEN now ELSE nextReport

IInv == TablesInv /\ RequestsInv /\ LoggedOutInv /\ RoundsInv /\ PushedInv /\ MailedInv
-----------------------------------------------------------------------------
(* Rows and tables.  Each of the databases and RecordMap has these operators of its own. *)

USE DEF Has, M!Has, S!Has, R!Has, Nil, M!Nil, S!Nil, R!Nil, Never, S!Never

LEMMA TableNames ==
  /\ DOMAIN Empty = {"tokens", "files", "subscribes", "emails", "webhooks"}
  /\ R!Empty = Empty /\ R!NoAnswer = R!Answer("none", Nil, Nil, Nil)
BY DEF Empty, R!Empty, NoRows, R!NoRows, R!NoAnswer

LEMMA SameOperators ==
  ASSUME NEW t, NEW k, NEW row
  PROVE  /\ M!Put(t, k, row) = Put(t, k, row) /\ S!Put(t, k, row) = Put(t, k, row)
         /\ M!Drop(t, k) = Drop(t, k) /\ S!Drop(t, k) = Drop(t, k) /\ R!Drop(t, k) = Drop(t, k)
BY DEF Put, M!Put, S!Put, Drop, M!Drop, S!Drop, R!Drop, Restrict, M!Restrict, S!Restrict, R!Restrict

\* A row put and dropped again leaves the other rows.
LEMMA PutThenDrop ==
  ASSUME NEW t, NEW k, NEW row
  PROVE  Drop(Put(t, k, row), k) = Drop(t, k)
BY DEF Put, Drop, Restrict

LEMMA PutRow ==
  ASSUME NEW t, NEW k, NEW row
  PROVE  /\ DOMAIN Put(t, k, row) = DOMAIN t \cup {k} /\ Put(t, k, row)[k] = row
         /\ \A x \in DOMAIN t : x # k => Put(t, k, row)[x] = t[x]
         /\ Drop(Put(t, k, row), k) = Drop(t, k)
BY PutThenDrop DEF Put

LEMMA DropRow ==
  ASSUME NEW t, NEW k
  PROVE  /\ DOMAIN Drop(t, k) = DOMAIN t \ {k}
         /\ \A x \in DOMAIN t : x # k => Drop(t, k)[x] = t[x]
         /\ Drop(Drop(t, k), k) = Drop(t, k)
BY DEF Drop, Restrict

\* What a call does: the outcome that the database chose.
LEMMA Outcome ==
  ASSUME NEW op, NEW table, NEW k, NEW outcomes, Calls(op, table, k, outcomes)
  PROVE  \E o \in outcomes : db' = o.db /\ answer' = R!Answer(op, table, k, o.err)
BY DEF Calls, Did

\* A call that changes nothing.
LEMMA NoChange ==
  ASSUME NEW op, NEW table, NEW k, NEW err,
         db' = db, answer' = R!Answer(op, table, k, err)
  PROVE  R!Call(op, table, k) /\ answer'.err = err
BY DEF R!Call, R!Only, R!Answer

\* A call that leaves other rows in one table.
LEMMA OneTable ==
  ASSUME DOMAIN db = DOMAIN Empty, NEW table \in DOMAIN Empty, NEW k, NEW op, NEW err, NEW rows,
         db' = [db EXCEPT ![table] = rows], Drop(rows, k) = Drop(db[table], k),
         answer' = R!Answer(op, table, k, err)
  PROVE  R!Call(op, table, k) /\ answer'.err = err /\ db'[table] = rows
<1>1. R!Drop(rows, k) = R!Drop(db[table], k)
  BY SameOperators
<1>. QED  BY <1>1 DEF R!Call, R!Only, R!Answer

\* A call that puts a row into a table, or drops one from it.
LEMMA PutCall ==
  ASSUME DOMAIN db = DOMAIN Empty, NEW table \in DOMAIN Empty, NEW k, NEW op, NEW err, NEW row,
         db' = [db EXCEPT ![table] = Put(db[table], k, row)], answer' = R!Answer(op, table, k, err)
  PROVE  /\ R!Call(op, table, k) /\ answer'.err = err
         /\ DOMAIN (db'[table]) = DOMAIN (db[table]) \cup {k}
<1>1. Drop(Put(db[table], k, row), k) = Drop(db[table], k)
  BY PutThenDrop
<1>2. R!Call(op, table, k) /\ answer'.err = err /\ db'[table] = Put(db[table], k, row)
  BY <1>1, OneTable
<1>3. DOMAIN Put(db[table], k, row) = DOMAIN (db[table]) \cup {k}
  BY PutRow
<1>. QED  BY <1>2, <1>3

LEMMA DropCall ==
  ASSUME DOMAIN db = DOMAIN Empty, NEW table \in DOMAIN Empty, NEW k, NEW op, NEW err,
         db' = [db EXCEPT ![table] = Drop(db[table], k)], answer' = R!Answer(op, table, k, err)
  PROVE  /\ R!Call(op, table, k) /\ answer'.err = err
         /\ DOMAIN (db'[table]) = DOMAIN (db[table]) \ {k}
<1>1. Drop(Drop(db[table], k), k) = Drop(db[table], k)
  BY DropRow
<1>2. R!Call(op, table, k) /\ answer'.err = err /\ db'[table] = Drop(db[table], k)
  BY <1>1, OneTable
<1>. QED  BY <1>2, DropRow

\* The outcomes of a statement of SQL.
LEMMA ExecOutcome ==
  ASSUME NEW old, NEW new, NEW o \in S!Exec(old, new)
  PROVE  \/ o.db = new /\ o.err \in {Nil, "failed"}
         \/ o.db = old /\ o.err = "failed"
BY DEF S!Exec, S!Reply

LEMMA QueryOutcome ==
  ASSUME NEW d, NEW found, NEW o \in S!Query(d, found)
  PROVE  o.db = d /\ o.err \in {IF found THEN Nil ELSE "notFound", "failed"}
BY DEF S!Query, S!Reply
-----------------------------------------------------------------------------
(* Operations.  What an outcome does to one table, and which promise of the interface follows. *)

\* What is known when an operation is called.
Called(op, table, k, outcomes) ==
  table \in DOMAIN Empty /\ DOMAIN db = DOMAIN Empty /\ Calls(op, table, k, outcomes)

Errors == {"exists", "notFound", "panic", "failed"}
Keeps(o, errors)   == o.db = db /\ o.err \in errors
Rewrites(o, table) == o.db = [db EXCEPT ![table] = db[table]] /\ o.err \in {Nil, "failed"}
Puts(o, table, k)  ==
  o.err \in {Nil, "failed"} /\ \E row : o.db = [db EXCEPT ![table] = Put(db[table], k, row)]
Drops(o, table, k) ==
  o.err \in {Nil, "failed"} /\ o.db = [db EXCEPT ![table] = Drop(db[table], k)]

\* The outcome that was chosen, and what the tables are after it.
LEMMA Chosen ==
  ASSUME NEW op, NEW table, NEW k, NEW outcomes, Called(op, table, k, outcomes)
  PROVE  \E o \in outcomes :
           /\ answer' = R!Answer(op, table, k, o.err) /\ answer'.err = o.err
           /\ \A errors : Keeps(o, errors) => R!Call(op, table, k) /\ db' = db
           /\ Rewrites(o, table) => R!Call(op, table, k) /\ db'[table] = db[table]
           /\ Puts(o, table, k) =>
                R!Call(op, table, k) /\ DOMAIN (db'[table]) = DOMAIN (db[table]) \cup {k}
           /\ Drops(o, table, k) =>
                R!Call(op, table, k) /\ DOMAIN (db'[table]) = DOMAIN (db[table]) \ {k}
<1>1. PICK o \in outcomes : db' = o.db /\ answer' = R!Answer(op, table, k, o.err)
  BY Outcome DEF Called
<1>2. answer'.err = o.err
  BY <1>1 DEF R!Answer
<1>3. ASSUME NEW errors, Keeps(o, errors) PROVE R!Call(op, table, k) /\ db' = db
  BY <1>1, <1>3, NoChange DEF Keeps
<1>4. ASSUME Rewrites(o, table) PROVE R!Call(op, table, k) /\ db'[table] = db[table]
  BY <1>1, <1>4, OneTable DEF Rewrites, Called
<1>5. ASSUME Puts(o, table, k)
      PROVE  R!Call(op, table, k) /\ DOMAIN (db'[table]) = DOMAIN (db[table]) \cup {k}
  <2>1. PICK row : db' = [db EXCEPT ![table] = Put(db[table], k, row)]
    BY <1>1, <1>5 DEF Puts
  <2>. QED  BY <1>1, <2>1, PutCall DEF Called
<1>6. ASSUME Drops(o, table, k)
      PROVE  R!Call(op, table, k) /\ DOMAIN (db'[table]) = DOMAIN (db[table]) \ {k}
  BY <1>1, <1>6, DropCall DEF Drops, Called
<1>. QED  BY <1>1, <1>2, <1>3, <1>4, <1>5, <1>6

LEMMA Reads ==
  ASSUME NEW table, NEW k, NEW outcomes, Called("get", table, k, outcomes),
         \A o \in outcomes : Keeps(o, {"failed", IF Has(db[table], k) THEN Nil ELSE "notFound"})
  PROVE  R!Get(table, k)
<1>. DEFINE errors == {"failed", IF Has(db[table], k) THEN Nil ELSE "notFound"}
<1>1. PICK o \in outcomes :
           answer'.err = o.err /\ (Keeps(o, errors) => R!Call("get", table, k) /\ db' = db)
  BY Chosen
<1>. QED  BY <1>1 DEF R!Get, Keeps

LEMMA Adds ==
  ASSUME NEW table, NEW k, NEW outcomes, Called("add", table, k, outcomes),
         \A o \in outcomes : Keeps(o, Errors) \/ (~Has(db[table], k) /\ Puts(o, table, k))
  PROVE  R!Add(table, k)
<1>1. PICK o \in outcomes :
           /\ answer'.err = o.err
           /\ Keeps(o, Errors) => R!Call("add", table, k) /\ db' = db
           /\ Puts(o, table, k) =>
                R!Call("add", table, k) /\ DOMAIN (db'[table]) = DOMAIN (db[table]) \cup {k}
  BY Chosen
<1>2. CASE Keeps(o, Errors)
  BY <1>1, <1>2 DEF R!Add, R!Refuses, Keeps, Errors
<1>3. CASE ~Has(db[table], k) /\ Puts(o, table, k)
  BY <1>1, <1>3 DEF R!Add, R!Refuses, Puts
<1>. QED  BY <1>2, <1>3

LEMMA Sets ==
  ASSUME NEW table, NEW k, NEW outcomes, Called("set", table, k, outcomes),
         \A o \in outcomes :
           Keeps(o, Errors) \/ (o.err # Nil /\ Rewrites(o, table)) \/ Puts(o, table, k)
  PROVE  R!Set(table, k)
<1>1. PICK o \in outcomes :
           /\ answer'.err = o.err
           /\ Keeps(o, Errors) => R!Call("set", table, k) /\ db' = db
           /\ Rewrites(o, table) => R!Call("set", table, k) /\ db'[table] = db[table]
           /\ Puts(o, table, k) =>
                R!Call("set", table, k) /\ DOMAIN (db'[table]) = DOMAIN (db[table]) \cup {k}
  BY Chosen
<1>2. CASE Keeps(o, Errors)
  BY <1>1, <1>2 DEF R!Set, R!Refuses, Keeps, Errors
<1>3. CASE o.err # Nil /\ Rewrites(o, table)
  BY <1>1, <1>3 DEF R!Set, R!Refuses, Rewrites
<1>4. CASE Puts(o, table, k)
  BY <1>1, <1>4 DEF R!Set, R!Refuses, Puts
<1>. QED  BY <1>2, <1>3, <1>4

LEMMA Updates ==
  ASSUME NEW table, NEW k, NEW outcomes, Called("update", table, k, outcomes),
         \A o \in outcomes :
           Keeps(o, Errors) \/ Rewrites(o, table) \/ (Has(db[table], k) /\ Puts(o, table, k))
  PROVE  R!Update(table, k)
<1>1. PICK o \in outcomes :
           /\ answer'.err = o.err
           /\ Keeps(o, Errors) => R!Call("update", table, k) /\ db' = db
           /\ Rewrites(o, table) => R!Call("update", table, k) /\ db'[table] = db[table]
           /\ Puts(o, table, k) =>
                R!Call("update", table, k) /\ DOMAIN (db'[table]) = DOMAIN (db[table]) \cup {k}
  BY Chosen
<1>2. CASE Keeps(o, Errors)
  BY <1>1, <1>2 DEF R!Update, R!Refuses, Keeps, Errors
<1>3. CASE Rewrites(o, table)
  BY <1>1, <1>3 DEF R!Update, R!Refuses, Rewrites
<1>4. CASE Has(db[table], k) /\ Puts(o, table, k)
  BY <1>1, <1>4 DEF R!Update, R!Refuses, Puts
<1>. QED  BY <1>2, <1>3, <1>4

LEMMA Removes ==
  ASSUME NEW table, NEW k, NEW outcomes, Called("remove", table, k, outcomes),
         \A o \in outcomes : Keeps(o, Errors) \/ Drops(o, table, k)
  PROVE  R!Remove(table, k)
<1>1. PICK o \in outcomes :
           /\ answer'.err = o.err
           /\ Keeps(o, Errors) => R!Call("remove", table, k) /\ db' = db
           /\ Drops(o, table, k) =>
                R!Call("remove", table, k) /\ DOMAIN (db'[table]) = DOMAIN (db[table]) \ {k}
  BY Chosen
<1>2. CASE Keeps(o, Errors)
  BY <1>1, <1>2 DEF R!Remove, R!Refuses, Keeps, Errors
<1>3. CASE Drops(o, table, k)
  BY <1>1, <1>3 DEF R!Remove, R!Refuses, Drops
<1>. QED  BY <1>2, <1>3
-----------------------------------------------------------------------------
(* The operations of memory.go and of sql.go *)

LEMMA GetFileRecordReads ==
  ASSUME NEW p, Called("get", "files", p, GetFileRecord(p))
  PROVE  R!Get("files", p)
<1>1. ASSUME NEW o \in GetFileRecord(p)
      PROVE  Keeps(o, {"failed", IF Has(db["files"], p) THEN Nil ELSE "notFound"})
  BY <1>1
  DEF Keeps, GetFileRecord, Pick, M!GetFileRecord, S!GetFileRecord, M!Reply, M!Unknown, S!Query,
      S!Reply
<1>. QED  BY <1>1, Reads

LEMMA GetSubscribeReads ==
  ASSUME NEW c, Called("get", "subscribes", c, GetSubscribe(c))
  PROVE  R!Get("subscribes", c)
<1>1. ASSUME NEW o \in GetSubscribe(c)
      PROVE  Keeps(o, {"failed", IF Has(db["subscribes"], c) THEN Nil ELSE "notFound"})
  BY <1>1
  DEF Keeps, GetSubscribe, Pick, M!GetSubscribe, S!GetSubscribe, M!Reply, M!Unknown, S!Query,
      S!Reply
<1>. QED  BY <1>1, Reads

LEMMA GetEmailReads ==
  ASSUME NEW a, Called("get", "emails", a, GetEmail(a))
  PROVE  R!Get("emails", a)
<1>1. ASSUME NEW o \in GetEmail(a)
      PROVE  Keeps(o, {"failed", IF Has(db["emails"], a) THEN Nil ELSE "notFound"})
  BY <1>1 DEF Keeps, GetEmail, Pick, M!GetEmail, S!GetEmail, M!Reply, M!Unknown, S!Query, S!Reply
<1>. QED  BY <1>1, Reads

LEMMA GetWebhookReads ==
  ASSUME NEW h, Called("get", "webhooks", h, GetWebhook(h))
  PROVE  R!Get("webhooks", h)
<1>1. ASSUME NEW o \in GetWebhook(h)
      PROVE  Keeps(o, {"failed", IF Has(db["webhooks"], h) THEN Nil ELSE "notFound"})
  BY <1>1
  DEF Keeps, GetWebhook, Pick, M!GetWebhook, S!GetWebhook, M!Reply, M!Unknown, S!Query, S!Reply
<1>. QED  BY <1>1, Reads

LEMMA AddJTIAdds ==
  ASSUME NEW t, NEW exp, Called("add", "tokens", t, AddJTI(t, exp))
  PROVE  R!Add("tokens", t)
<1>1. ASSUME NEW o \in AddJTI(t, exp)
      PROVE  Keeps(o, Errors) \/ (~Has(db["tokens"], t) /\ Puts(o, "tokens", t))
  <2>1. CASE driver = "memory"
    BY <1>1, <2>1, SameOperators DEF AddJTI, Pick, M!AddJTI, M!Reply, Keeps, Puts, Errors
  <2>2. CASE driver # "memory"
    BY <1>1, <2>2, ExecOutcome, SameOperators
    DEF AddJTI, Pick, S!AddJTI, S!Refused, S!Reply, Keeps, Puts, Errors
  <2>. QED  BY <2>1, <2>2
<1>. QED  BY <1>1, Adds

LEMMA AddEmailAdds ==
  ASSUME NEW a, NEW rec, Called("add", "emails", a, AddEmail(a, rec))
  PROVE  R!Add("emails", a)
<1>1. ASSUME NEW o \in AddEmail(a, rec)
      PROVE  Keeps(o, Errors) \/ (~Has(db["emails"], a) /\ Puts(o, "emails", a))
  <2>1. CASE driver = "memory"
    BY <1>1, <2>1 DEF AddEmail, Pick, M!AddEmail, M!Reply, M!Store, Keeps, Errors
  <2>2. CASE driver # "memory"
    BY <1>1, <2>2, ExecOutcome, SameOperators
    DEF AddEmail, Pick, S!AddEmail, S!Refused, S!Reply, Keeps, Puts, Errors
  <2>. QED  BY <2>1, <2>2
<1>. QED  BY <1>1, Adds

LEMMA AddWebhookAdds ==
  ASSUME NEW h, NEW auth, Called("add", "webhooks", h, AddWebhook(h, auth))
  PROVE  R!Add("webhooks", h)
<1>1. ASSUME NEW o \in AddWebhook(h, auth)
      PROVE  Keeps(o, Errors) \/ (~Has(db["webhooks"], h) /\ Puts(o, "webhooks", h))
  <2>1. CASE driver = "memory"
    BY <1>1, <2>1 DEF AddWebhook, Pick, M!AddWebhook, M!Reply, M!Store, Keeps, Errors
  <2>2. CASE driver # "memory"
    BY <1>1, <2>2 DEF AddWebhook, Pick, S!AddWebhook, S!Refused, S!Reply, Keeps, Errors
  <2>. QED  BY <2>1, <2>2
<1>. QED  BY <1>1, Adds

LEMMA RemoveJTIRemoves ==
  ASSUME NEW t, Called("remove", "tokens", t, RemoveJTI(t))
  PROVE  R!Remove("tokens", t)
<1>1. ASSUME NEW o \in RemoveJTI(t)
      PROVE  Keeps(o, Errors) \/ Drops(o, "tokens", t)
  <2>1. CASE driver = "memory"
    BY <1>1, <2>1, SameOperators
    DEF RemoveJTI, Pick, M!RemoveJTI, M!Reply, M!Unknown, Keeps, Drops, Errors
  <2>2. CASE driver # "memory"
    BY <1>1, <2>2, ExecOutcome, SameOperators DEF RemoveJTI, Pick, S!RemoveJTI, Keeps, Drops, Errors
  <2>. QED  BY <2>1, <2>2
<1>. QED  BY <1>1, Removes

LEMMA RemoveSubscribeRemoves ==
  ASSUME NEW c, Called("remove", "subscribes", c, RemoveSubscribe(c))
  PROVE  R!Remove("subscribes", c)
<1>1. ASSUME NEW o \in RemoveSubscribe(c)
      PROVE  Keeps(o, Errors) \/ Drops(o, "subscribes", c)
  <2>1. CASE driver = "memory"
    BY <1>1, <2>1, SameOperators
    DEF RemoveSubscribe, Pick, M!RemoveSubscribe, M!Reply, M!Unknown, Keeps, Drops, Errors
  <2>2. CASE driver # "memory"
    BY <1>1, <2>2, ExecOutcome, SameOperators
    DEF RemoveSubscribe, Pick, S!RemoveSubscribe, Keeps, Drops, Errors
  <2>. QED  BY <2>1, <2>2
<1>. QED  BY <1>1, Removes

LEMMA RemoveEmailRemoves ==
  ASSUME NEW a, Called("remove", "emails", a, RemoveEmail(a))
  PROVE  R!Remove("emails", a)
<1>1. ASSUME NEW o \in RemoveEmail(a)
      PROVE  Keeps(o, Errors) \/ Drops(o, "emails", a)
  <2>1. CASE driver = "memory"
    BY <1>1, <2>1, SameOperators
    DEF RemoveEmail, Pick, M!RemoveEmail, M!Reply, M!Unknown, Keeps, Drops, Errors
  <2>2. CASE driver # "memory"
    BY <1>1, <2>2, ExecOutcome, SameOperators
    DEF RemoveEmail, Pick, S!RemoveEmail, Keeps, Drops, Errors
  <2>. QED  BY <2>1, <2>2
<1>. QED  BY <1>1, Removes

LEMMA RemoveWebhookRemoves ==
  ASSUME NEW h, Called("remove", "webhooks", h, RemoveWebhook(h))
  PROVE  R!Remove("webhooks", h)
<1>1. ASSUME NEW o \in RemoveWebhook(h)
      PROVE  Keeps(o, Errors) \/ Drops(o, "webhooks", h)
  <2>1. CASE driver = "memory"
    BY <1>1, <2>1, SameOperators
    DEF RemoveWebhook, Pick, M!RemoveWebhook, M!Reply, M!Unknown, Keeps, Drops, Errors
  <2>2. CASE driver # "memory"
    BY <1>1, <2>2, ExecOutcome, SameOperators
    DEF RemoveWebhook, Pick, S!RemoveWebhook, Keeps, Drops, Errors
  <2>. QED  BY <2>1, <2>2
<1>. QED  BY <1>1, Removes

LEMMA UpdateEmailUpdates ==
  ASSUME NEW a, NEW scopes, Called("update", "emails", a, UpdateEmail(a, scopes))
  PROVE  R!Update("emails", a)
<1>1. ASSUME NEW o \in UpdateEmail(a, scopes)
      PROVE  \/ Keeps(o, Errors) \/ Rewrites(o, "emails")
             \/ Has(db["emails"], a) /\ Puts(o, "emails", a)
  <2>1. CASE driver = "memory"
    BY <1>1, <2>1 DEF UpdateEmail, Pick, M!UpdateEmail, M!Reply, M!Unknown, M!Store, Keeps, Errors
  <2>2. CASE driver # "memory"
    BY <1>1, <2>2, ExecOutcome, SameOperators
    DEF UpdateEmail, Pick, S!UpdateEmail, S!Update, Keeps, Rewrites, Puts, Errors
  <2>. QED  BY <2>1, <2>2
<1>. QED  BY <1>1, Updates

LEMMA UpdateWebhookUpdates ==
  ASSUME NEW h, NEW auth, Called("update", "webhooks", h, UpdateWebhook(h, auth))
  PROVE  R!Update("webhooks", h)
<1>1. ASSUME NEW o \in UpdateWebhook(h, auth)
      PROVE  \/ Keeps(o, Errors) \/ Rewrites(o, "webhooks")
             \/ Has(db["webhooks"], h) /\ Puts(o, "webhooks", h)
  <2>1. CASE driver = "memory"
    BY <1>1, <2>1
    DEF UpdateWebhook, Pick, M!UpdateWebhook, M!Reply, M!Unknown, M!Store, Keeps, Errors
  <2>2. CASE driver # "memory"
    BY <1>1, <2>2, ExecOutcome, SameOperators
    DEF UpdateWebhook, Pick, S!UpdateWebhook, S!Update, Keeps, Rewrites, Puts, Errors
  <2>. QED  BY <2>1, <2>2
<1>. QED  BY <1>1, Updates

\* The outcomes of an SQL database that has the record of the file, and of one that has not: none
\* is made without an error.
LEMMA OldFileRecord ==
  ASSUME NEW p, NEW hash, driver # "memory", Has(db["files"], p), NEW o \in SetFileRecord(p, hash)
  PROVE  Keeps(o, Errors) \/ (o.err # Nil /\ Rewrites(o, "files")) \/ Puts(o, "files", p)
<1>. DEFINE updated == [db EXCEPT !["files"] = Put(db["files"], p, hash)]
<1>1. \/ o \in S!Exec(db, updated)
      \/ o.db = [db EXCEPT !["files"] = db["files"]] /\ o.err = "failed"
  <2>1. /\ [db EXCEPT !.files = S!Update(@, p, hash)] = updated
        /\ [db EXCEPT !.files = IF S!Has(@, p) THEN @ ELSE S!Put(@, p, hash)]
             = [db EXCEPT !["files"] = db["files"]]
    BY SameOperators DEF S!Update
  <2>. HIDE DEF updated
  <2>2. o \in S!SetFileRecord(db, p, hash)
    BY DEF SetFileRecord, Pick
  <2>. QED  BY <2>1, <2>2 DEF S!SetFileRecord
<1>2. Puts([db |-> updated, err |-> Nil], "files", p)
  BY DEF Puts
<1>. QED  BY <1>1, <1>2, ExecOutcome DEF Keeps, Rewrites, Puts, Errors

LEMMA NewFileRecord ==
  ASSUME NEW p, NEW hash, driver # "memory", ~Has(db["files"], p), NEW o \in SetFileRecord(p, hash)
  PROVE  \/ Keeps(o, Errors) \/ Rewrites(o, "files")
         \/ o.err = "failed" /\ Puts(o, "files", p)
<1>. DEFINE inserted == [db EXCEPT !["files"] = Put(db["files"], p, hash)]
            updated  == [db EXCEPT !["files"] = db["files"]]
<1>1. o \in S!Exec(db, updated) \/ (o.db = inserted /\ o.err = "failed")
  <2>1. /\ [db EXCEPT !.files = S!Update(@, p, hash)] = updated
        /\ [db EXCEPT !.files = IF S!Has(@, p) THEN @ ELSE S!Put(@, p, hash)] = inserted
    BY SameOperators DEF S!Update
  <2>. HIDE DEF updated, inserted
  <2>2. o \in S!SetFileRecord(db, p, hash)
    BY DEF SetFileRecord, Pick
  <2>. QED  BY <2>1, <2>2 DEF S!SetFileRecord
<1>. QED  BY <1>1, ExecOutcome DEF Keeps, Rewrites, Puts, Errors

LEMMA SetFileRecordSets ==
  ASSUME TablesInv, NEW p \in Paths, NEW hash, Called("set", "files", p, SetFileRecord(p, hash))
  PROVE  R!Set("files", p) \/ FileRecordLost
<1>1. CASE driver = "memory"
  <2>1. ASSUME NEW o \in SetFileRecord(p, hash) PROVE Puts(o, "files", p)
    BY <1>1, <2>1, SameOperators DEF SetFileRecord, Pick, M!SetFileRecord, M!Reply, Puts
  <2>. QED  BY <2>1, Sets
<1>2. CASE driver # "memory" /\ Has(db["files"], p)
  BY <1>2, OldFileRecord, Sets
<1>3. CASE driver # "memory" /\ ~Has(db["files"], p)
  <2>1. PICK o \in SetFileRecord(p, hash) :
          /\ answer'.err = o.err
          /\ Keeps(o, Errors) => R!Call("set", "files", p) /\ db' = db
          /\ Rewrites(o, "files") => R!Call("set", "files", p) /\ db'["files"] = db["files"]
          /\ Puts(o, "files", p) =>
               R!Call("set", "files", p) /\ DOMAIN (db'["files"]) = DOMAIN (db["files"]) \cup {p}
    BY Chosen
  <2>2. CASE Keeps(o, Errors)
    BY <2>1, <2>2 DEF R!Set, R!Refuses, Keeps, Errors
  <2>3. CASE Rewrites(o, "files") /\ o.err = Nil
    BY <1>3, <2>1, <2>3 DEF FileRecordLost, TablesInv, Drivers
  <2>4. CASE Rewrites(o, "files") /\ o.err # Nil
    BY <1>3, <2>1, <2>4 DEF R!Set, R!Refuses, Rewrites
  <2>5. CASE o.err = "failed" /\ Puts(o, "files", p)
    BY <2>1, <2>5 DEF R!Set, R!Refuses
  <2>. QED  BY <1>3, <2>2, <2>3, <2>4, <2>5, NewFileRecord
<1>. QED  BY <1>1, <1>2, <1>3

\* A subscription with an endpoint is set; without one, the row that is there is changed.
LEMMA SetSubscribeSets ==
  ASSUME NEW c, NEW rec, Called("set", "subscribes", c, SetSubscribe(c, TRUE, rec))
  PROVE  R!Set("subscribes", c)
<1>1. ASSUME NEW o \in SetSubscribe(c, TRUE, rec)
      PROVE  Keeps(o, Errors) \/ Puts(o, "subscribes", c)
  <2>1. CASE driver = "memory"
    BY <1>1, <2>1, SameOperators DEF SetSubscribe, Pick, M!SetSubscribe, M!Reply, Puts
  <2>2. CASE driver # "memory"
    BY <1>1, <2>2, ExecOutcome, SameOperators
    DEF SetSubscribe, Pick, S!SetSubscribe, S!Update, S!InsertSubscribe, S!UpdateSubscribe,
        Keeps, Puts, Errors
  <2>. QED  BY <2>1, <2>2
<1>. QED  BY <1>1, Sets

LEMMA SetSubscribeUpdates ==
  ASSUME NEW c, NEW rec, Called("update", "subscribes", c, SetSubscribe(c, FALSE, rec))
  PROVE  R!Update("subscribes", c)
<1>1. ASSUME NEW o \in SetSubscribe(c, FALSE, rec)
      PROVE  \/ Keeps(o, Errors) \/ Rewrites(o, "subscribes")
             \/ Has(db["subscribes"], c) /\ Puts(o, "subscribes", c)
  <2>1. CASE driver = "memory"
    BY <1>1, <2>1, SameOperators
    DEF SetSubscribe, Pick, M!SetSubscribe, M!Reply, M!Unknown, Keeps, Puts, Errors
  <2>2. CASE driver # "memory"
    BY <1>1, <2>2, ExecOutcome, SameOperators
    DEF SetSubscribe, Pick, S!SetSubscribe, S!Update, S!UpdateSubscribe,
        S!UpdateLastReport, Keeps, Rewrites, Puts, Errors
  <2>. QED  BY <2>1, <2>2
<1>. QED  BY <1>1, Updates

\* What a client posts.
LEMMA PostedSubscribe ==
  ASSUME NEW c, NEW endpoint \in BOOLEAN, NEW rec,
         Called(IF endpoint THEN "set" ELSE "update", "subscribes", c, SetSubscribe(c, endpoint, rec))
  PROVE  R!Set("subscribes", c) \/ R!Update("subscribes", c)
<1>1. CASE endpoint = TRUE
  BY <1>1, SetSubscribeSets
<1>2. CASE endpoint = FALSE
  BY <1>2, SetSubscribeUpdates
<1>. QED  BY <1>1, <1>2

LEMMA Lists ==
  ASSUME \/ Calls("list", "emails", Nil, ListEmails)
         \/ Calls("list", "webhooks", Nil, ListWebhooks)
  PROVE  (R!List("emails") \/ R!List("webhooks")) /\ db' = db
<1>1. CASE Calls("list", "emails", Nil, ListEmails)
  <2>1. PICK o \in ListEmails : db' = o.db /\ answer' = R!Answer("list", "emails", Nil, o.err)
    BY <1>1, Outcome
  <2>2. o.db = db
    BY DEF ListEmails, Pick, M!ListEmails, S!ListEmails, M!Reply, S!Query, S!Reply
  <2>. QED  BY <2>1, <2>2, NoChange DEF R!List
<1>2. CASE Calls("list", "webhooks", Nil, ListWebhooks)
  <2>1. PICK o \in ListWebhooks : db' = o.db /\ answer' = R!Answer("list", "webhooks", Nil, o.err)
    BY <1>2, Outcome
  <2>2. o.db = db
    BY DEF ListWebhooks, Pick, M!ListWebhooks, S!ListWebhooks, M!Reply, S!Query, S!Reply, S!Refused
  <2>. QED  BY <2>1, <2>2, NoChange DEF R!List
<1>. QED  BY <1>1, <1>2
-----------------------------------------------------------------------------
(* The refinement: every step is one operation on the tables, or none *)

OneCall(table, k) ==
  R!Get(table, k) \/ R!Add(table, k) \/ R!Set(table, k) \/ R!Update(table, k) \/ R!Remove(table, k)

\* A step of the interface, or none, that leaves all but some tables alone.
Touches(tables) ==
  /\ R!Next \/ FileRecordLost \/ UNCHANGED <<db, answer>>
  /\ DOMAIN db' = DOMAIN Empty
  /\ \A other \in DOMAIN Empty \ tables : db'[other] = db[other]

LEMMA KeysOfTables ==
  /\ R!Keys("tokens") = Tokens /\ R!Keys("files") = Paths /\ R!Keys("subscribes") = Clients
  /\ R!Keys("emails") = Addrs /\ R!Keys("webhooks") = Hooks
BY DEF R!Keys

LEMMA CallTouches ==
  ASSUME TablesInv, NEW table \in DOMAIN Empty, NEW k \in R!Keys(table), OneCall(table, k)
  PROVE  Touches({table})
<1>1. R!Next
  BY TableNames DEF R!Next, OneCall
<1>2. R!Only(table, k)
  BY DEF OneCall, R!Get, R!Add, R!Set, R!Update, R!Remove, R!Call
<1>. QED  BY <1>1, <1>2 DEF Touches, TablesInv, R!Only

LEMMA NothingTouched ==
  ASSUME TablesInv, NEW tables, UNCHANGED <<db, answer>>
  PROVE  Touches(tables)
BY DEF Touches, TablesInv

\* A client whose request is handled is one of the clients, and so on.
LEMMA Handled ==
  ASSUME RequestsInv, NEW r \in Requests, NEW op \in Ops, rq[r].op = op
  PROVE  rq[r] # Free /\ rq[r].client \in Clients /\ rq[r].token \in Tokens \cap DOMAIN issued
<1>1. op # "none"
  BY DEF Ops, SubscribeOps, EmailOps, WebhookOps
<1>. QED  BY <1>1 DEF RequestsInv, Free

LEMMA NotifyTouches ==
  ASSUME TablesInv, Notify
  PROVE  Touches({"subscribes"})
<1>. USE TableNames, KeysOfTables DEF TablesInv
<1>1. CASE OnReportStatus \/ MailReport \/ OnEvent \/ \E p \in Senders : EndSends(p)
  BY <1>1, NothingTouched DEF OnReportStatus, MailReport, OnEvent, EndSends
<1>2. ASSUME NEW p \in Senders, NEW c \in Clients, RemoveOutdated(p, c) PROVE Touches({"subscribes"})
  BY <1>2, RemoveSubscribeRemoves, CallTouches DEF RemoveOutdated, Called, OneCall
<1>3. ASSUME NEW c \in Clients, WriteSent(c) PROVE Touches({"subscribes"})
  BY <1>3, SetSubscribeUpdates, CallTouches DEF WriteSent, Called, OneCall
<1>. QED  BY <1>1, <1>2, <1>3 DEF Notify

LEMMA GenerateTouches ==
  ASSUME TablesInv, NEW c, NEW type, NEW exp, NEW path, Generate(c, type, exp, path)
  PROVE  Touches({"tokens"})
<1>1. PICK t \in Tokens : Calls("add", "tokens", t, AddJTI(t, exp))
  BY DEF Generate
<1>. QED  BY <1>1, AddJTIAdds, CallTouches, TableNames, KeysOfTables DEF TablesInv, Called, OneCall

\* The handlers that have nothing to do with tokens and, but for reading, with subscriptions.
OtherHandler(r) ==
  \/ BadRequest(r) \/ SubscribeGET(r)
  \/ EmailGET(r) \/ EmailPOST(r) \/ EmailPATCH(r) \/ EmailDELETE(r)
  \/ WebhookGET(r) \/ WebhookPOST(r) \/ WebhookPATCH(r) \/ WebhookDELETE(r)

LEMMA ListTouches ==
  ASSUME TablesInv, R!List("emails") \/ R!List("webhooks"), db' = db, NEW tables
  PROVE  Touches(tables)
BY TableNames DEF R!Next, Touches, TablesInv

LEMMA OtherHandlerTouches ==
  ASSUME TablesInv, RequestsInv, NEW r \in Requests, OtherHandler(r)
  PROVE  Touches({"emails", "webhooks"})
<1>. USE TableNames, KeysOfTables DEF TablesInv, Called, OneCall
<1>. DEFINE Goal == Touches({"emails", "webhooks"})
<1>1. ASSUME Touches({"emails"}) \/ Touches({"webhooks"}) PROVE Goal
  BY <1>1 DEF Touches
<1>2. CASE BadRequest(r)
  BY <1>2, NothingTouched DEF BadRequest
<1>3. CASE SubscribeGET(r)
  <2>1. R!Get("subscribes", rq[r].client) /\ rq[r].client \in Clients
    BY <1>3, GetSubscribeReads, Handled DEF SubscribeGET, Handles, Ops, SubscribeOps
  <2>2. Touches({"subscribes"}) /\ db' = db
    BY <2>1, CallTouches DEF R!Get
  <2>. QED  BY <2>2 DEF Touches
<1>4. CASE EmailGET(r)
  BY <1>1, <1>4, GetEmailReads, CallTouches, Lists, ListTouches DEF EmailGET
<1>5. CASE EmailPOST(r)
  BY <1>1, <1>5, AddEmailAdds, CallTouches DEF EmailPOST
<1>6. CASE EmailPATCH(r)
  BY <1>1, <1>6, UpdateEmailUpdates, CallTouches DEF EmailPATCH
<1>7. CASE EmailDELETE(r)
  BY <1>1, <1>7, RemoveEmailRemoves, CallTouches DEF EmailDELETE
<1>8. CASE WebhookGET(r)
  BY <1>1, <1>8, GetWebhookReads, CallTouches, Lists, ListTouches DEF WebhookGET
<1>9. CASE WebhookPOST(r)
  BY <1>1, <1>9, AddWebhookAdds, CallTouches DEF WebhookPOST
<1>10. CASE WebhookPATCH(r)
  BY <1>1, <1>10, UpdateWebhookUpdates, CallTouches DEF WebhookPATCH
<1>11. CASE WebhookDELETE(r)
  BY <1>1, <1>11, RemoveWebhookRemoves, CallTouches DEF WebhookDELETE
<1>. QED  BY <1>2, <1>3, <1>4, <1>5, <1>6, <1>7, <1>8, <1>9, <1>10, <1>11 DEF OtherHandler

LEMMA LogoutTouches ==
  ASSUME TablesInv, RequestsInv, NEW r \in Requests, Logout(r)
  PROVE  Touches({"tokens"})
BY TableNames, KeysOfTables, Handled, RemoveJTIRemoves, CallTouches
DEF Logout, Handles, Ops, TablesInv, Called, OneCall

LEMMA SubscribeTouches ==
  ASSUME TablesInv, RequestsInv, NEW r \in Requests, SubscribePOST(r) \/ SubscribeDELETE(r)
  PROVE  Touches({"subscribes"}) /\ rq[r].client \in Clients
<1>. USE TableNames, KeysOfTables, Handled DEF TablesInv, Called, OneCall
<1>1. rq[r].client \in Clients
  BY DEF SubscribePOST, SubscribeDELETE, Handles, Ops, SubscribeOps
<1>2. CASE SubscribePOST(r)
  <2>. DEFINE c == rq[r].client
  <2>1. PICK endpoint \in BOOLEAN, scopes \in SUBSET Scopes, at \in Schedules :
          Calls(IF endpoint THEN "set" ELSE "update", "subscribes", c,
                SetSubscribe(c, endpoint, [scopes |-> scopes, at |-> at, last |-> Never]))
    BY <1>2 DEF SubscribePOST
  <2>2. R!Set("subscribes", c) \/ R!Update("subscribes", c)
    BY <2>1, PostedSubscribe
  <2>. QED  BY <1>1, <2>2, CallTouches
<1>3. CASE SubscribeDELETE(r)
  BY <1>1, <1>3, RemoveSubscribeRemoves, CallTouches DEF SubscribeDELETE
<1>. QED  BY <1>1, <1>2, <1>3

LEMMA FilesTouch ==
  ASSUME TablesInv, Files \/ \E p \in Paths : HijackLookup(p)
  PROVE  Touches({"files"})
<1>. USE TableNames, KeysOfTables DEF TablesInv, Called, OneCall
<1>1. CASE UpdateFileRecords \/ UpdateDone
  BY <1>1, NothingTouched DEF UpdateFileRecords, UpdateDone
<1>2. ASSUME NEW f \in FileRecords, SetFileRecordOf(f) PROVE Touches({"files"})
  <2>1. R!Set("files", f.path) \/ FileRecordLost
    BY <1>2, SetFileRecordSets DEF SetFileRecordOf, FileRecords
  <2>2. R!Set("files", f.path) => Touches({"files"})
    BY CallTouches DEF FileRecords
  <2>3. FileRecordLost => Touches({"files"})
    BY DEF FileRecordLost, Touches, R!Call, R!Only
  <2>. QED  BY <2>1, <2>2, <2>3
<1>3. ASSUME NEW p \in Paths, HijackLookup(p) PROVE Touches({"files"})
  BY <1>3, GetFileRecordReads, CallTouches DEF HijackLookup
<1>. QED  BY <1>1, <1>2, <1>3 DEF Files

\* The actions of the program by what they have to do with tokens and subscriptions.
LEMMA Steps ==
  ASSUME [Next]_vars
  PROVE  \/ UNCHANGED vars
         \/ (Notify \/ Tick) /\ Environment
         \/ \E r \in Requests : \/ Authenticate(r) \/ OtherHandler(r) \/ RequestToken(r)
                                \/ Logout(r) \/ SubscribePOST(r) \/ SubscribeDELETE(r)
         \/ \E c \in Clients : Challenge(c) \/ Login(c)
         \/ Files \/ \E p \in Paths : HijackLookup(p)
         \/ Restart
BY DEF Next, Handle, OtherHandler

LEMMA MapStep == TablesInv /\ RequestsInv /\ [Next]_vars => [R!Next \/ FileRecordLost]_(R!mapVars)
<1>. DEFINE Goal == R!Next \/ FileRecordLost \/ UNCHANGED <<db, answer>>
<1>. SUFFICES ASSUME TablesInv, RequestsInv, [Next]_vars PROVE Goal
  BY DEF R!mapVars
<1>. USE DEF Touches
<1>1. CASE UNCHANGED vars
  BY <1>1 DEF vars
<1>2. CASE Notify \/ Tick
  BY <1>2, NotifyTouches DEF Tick
<1>3. ASSUME NEW r \in Requests, \/ Authenticate(r) \/ OtherHandler(r) \/ RequestToken(r)
                                \/ Logout(r) \/ SubscribePOST(r) \/ SubscribeDELETE(r)
      PROVE  Goal
  BY <1>3, OtherHandlerTouches, GenerateTouches, LogoutTouches, SubscribeTouches
  DEF Authenticate, RequestToken, GenerateAPIToken
<1>4. ASSUME NEW c \in Clients, Challenge(c) \/ Login(c) PROVE Goal
  BY <1>4, GenerateTouches DEF Challenge, Login, GenerateAuthToken
<1>5. CASE Files \/ \E p \in Paths : HijackLookup(p)
  BY <1>5, FilesTouch
<1>6. CASE Restart
  BY <1>6, TableNames DEF Restart, Reopen, Pick, R!Next, R!Restart
<1>. QED  BY <1>1, <1>2, <1>3, <1>4, <1>5, <1>6, Steps
-----------------------------------------------------------------------------
(* Sessions *)

SessionsInv == RequestsInv /\ LoggedOutInv

\* No token comes into a table but the one that an operation names.
LEMMA OnlyThatToken ==
  ASSUME NEW t, R!Only("tokens", t)
  PROVE  DOMAIN (db'["tokens"]) \ {t} = DOMAIN (db["tokens"]) \ {t}
<1>1. Drop(db'["tokens"], t) = Drop(db["tokens"], t)
  BY SameOperators DEF R!Only
<1>2. \A x : DOMAIN Drop(x, t) = DOMAIN x \ {t}
  BY DropRow
<1>. HIDE DEF Drop
<1>. QED  BY <1>1, <1>2

\* Steps that have nothing to do with tokens.
LEMMA SessionsStay ==
  ASSUME SessionsInv, Touches({"subscribes", "emails", "webhooks", "files"}),
         issued' = issued, ended' = ended,
         \/ rq' = rq \/ rq' = [r \in Requests |-> Free]
         \/ \E r \in Requests : rq' = [rq EXCEPT ![r] = Free]
  PROVE  SessionsInv'
<1>1. db'["tokens"] = db["tokens"]
  BY TableNames DEF Touches
<1>2. RequestsInv'
  BY DEF SessionsInv, RequestsInv, Free
<1>3. LoggedOutInv'
  BY <1>1 DEF SessionsInv, LoggedOutInv
<1>. QED  BY <1>2, <1>3 DEF SessionsInv

LEMMA AuthenticateKeepsSessions ==
  ASSUME TablesInv, SessionsInv, NEW r \in Requests, Authenticate(r)
  PROVE  SessionsInv'
<1>1. PICK c \in Clients, t \in Tokens, op \in Ops :
        /\ TokenType(c, t, op) # Nil
        /\ rq' = [rq EXCEPT ![r] = [op |-> op, client |-> c, token |-> t, type |-> TokenType(c, t, op)]]
  BY DEF Authenticate
<1>2. t \in DOMAIN issued
  BY <1>1 DEF TokenType, VerifyAPIToken, VerifyAuthToken, Holds
<1>3. UNCHANGED <<issued, ended, db>>
  BY DEF Authenticate
<1>4. RequestsInv'
  BY <1>1, <1>2, <1>3 DEF SessionsInv, RequestsInv, Free
<1>5. LoggedOutInv'
  BY <1>3 DEF SessionsInv, LoggedOutInv
<1>. QED  BY <1>4, <1>5 DEF SessionsInv

\* A new id is none that was issued, and so none of a token that was logged out.
LEMMA GenerateKeepsSessions ==
  ASSUME TablesInv, SessionsInv, NEW c, NEW type, NEW exp, NEW path, Generate(c, type, exp, path),
         ended' = ended, rq' = rq \/ \E r \in Requests : rq' = [rq EXCEPT ![r] = Free]
  PROVE  SessionsInv'
<1>1. PICK t \in Tokens \ (DOMAIN db.tokens \cup DOMAIN issued) :
        /\ Calls("add", "tokens", t, AddJTI(t, exp))
        /\ \/ issued' = issued
           \/ issued' = Put(issued, t, [type |-> type, client |-> c, exp |-> exp, path |-> path])
  BY DEF Generate
<1>2. DOMAIN issued' = DOMAIN issued \/ DOMAIN issued' = DOMAIN issued \cup {t}
  BY <1>1 DEF Put
<1>3. DOMAIN (db'["tokens"]) \ {t} = DOMAIN (db["tokens"]) \ {t}
  BY <1>1, AddJTIAdds, OnlyThatToken, TableNames DEF TablesInv, Called, R!Add, R!Call
<1>4. RequestsInv'
  BY <1>2 DEF SessionsInv, RequestsInv, Free
<1>5. LoggedOutInv'
  BY <1>1, <1>2, <1>3 DEF SessionsInv, LoggedOutInv
<1>. QED  BY <1>4, <1>5 DEF SessionsInv

\* A removal that does not fail, or that finds nothing to remove, leaves no such token.
LEMMA RemovedIsGone ==
  ASSUME TablesInv, NEW t, Calls("remove", "tokens", t, RemoveJTI(t))
  PROVE  /\ DOMAIN (db'["tokens"]) \subseteq DOMAIN (db["tokens"])
         /\ answer'.err # "failed" => t \notin DOMAIN (db'["tokens"])
<1>1. R!Remove("tokens", t)
  BY RemoveJTIRemoves, TableNames DEF TablesInv, Called
<1>2. PICK o \in RemoveJTI(t) : db' = o.db /\ answer' = R!Answer("remove", "tokens", t, o.err)
  BY Outcome
<1>3. answer'.err = o.err
  BY <1>2 DEF R!Answer
<1>4. o.err \in {Nil, "failed"} \/ (o.db = db /\ t \notin DOMAIN (db["tokens"]))
  BY ExecOutcome DEF RemoveJTI, Pick, M!RemoveJTI, S!RemoveJTI, M!Unknown, M!Reply
<1>5. DOMAIN (db'["tokens"]) \ {t} = DOMAIN (db["tokens"]) \ {t}
  BY <1>1, OnlyThatToken DEF R!Remove, R!Call
<1>6. t \in DOMAIN (db'["tokens"]) => db' = db
  BY <1>1 DEF R!Remove
<1>7. answer'.err = Nil => t \notin DOMAIN (db'["tokens"])
  BY <1>1 DEF R!Remove
<1>. QED  BY <1>2, <1>3, <1>4, <1>5, <1>6, <1>7

LEMMA LogoutKeepsSessions ==
  ASSUME TablesInv, SessionsInv, NEW r \in Requests, Logout(r)
  PROVE  SessionsInv'
<1>1. /\ DOMAIN (db'["tokens"]) \subseteq DOMAIN (db["tokens"])
      /\ answer'.err # "failed" => rq[r].token \notin DOMAIN (db'["tokens"])
  BY RemovedIsGone DEF Logout
<1>2. rq[r].token \in DOMAIN issued
  BY Handled DEF SessionsInv, Logout, Handles, Ops
<1>3. RequestsInv'
  BY DEF Logout, Handles, SessionsInv, RequestsInv, Free
<1>4. LoggedOutInv'
  BY <1>1, <1>2 DEF Logout, SessionsInv, LoggedOutInv
<1>. QED  BY <1>3, <1>4 DEF SessionsInv

LEMMA SessionsStep ==
  ASSUME TablesInv, SessionsInv, [Next]_vars
  PROVE  SessionsInv'
<1>. DEFINE others == {"subscribes", "emails", "webhooks", "files"}
<1>1. ASSUME \/ Touches({"subscribes"}) \/ Touches({"emails", "webhooks"}) \/ Touches({"files"})
             \/ UNCHANGED <<db, answer>>
      PROVE  Touches(others)
  BY <1>1, NothingTouched DEF Touches
<1>2. CASE UNCHANGED vars
  BY <1>1, <1>2, SessionsStay DEF vars
<1>3. CASE (Notify \/ Tick) /\ Environment
  BY <1>1, <1>3, NotifyTouches, SessionsStay DEF Environment, Tick
<1>4. ASSUME NEW r \in Requests, OtherHandler(r) PROVE SessionsInv'
  <2>1. Touches(others)
    BY <1>1, <1>4, OtherHandlerTouches DEF SessionsInv
  <2>2. Same /\ rq' = [rq EXCEPT ![r] = Free]
    BY <1>4 DEF OtherHandler, BadRequest, SubscribeGET, EmailGET, EmailPOST, EmailPATCH, EmailDELETE,
                WebhookGET, WebhookPOST, WebhookPATCH, WebhookDELETE, Handles
  <2>. QED  BY <2>1, <2>2, SessionsStay DEF Same
<1>5. ASSUME NEW r \in Requests, SubscribePOST(r) \/ SubscribeDELETE(r) PROVE SessionsInv'
  <2>1. Touches(others)
    BY <1>1, <1>5, SubscribeTouches DEF SessionsInv
  <2>2. UNCHANGED <<issued, ended>> /\ rq' = [rq EXCEPT ![r] = Free]
    BY <1>5 DEF SubscribePOST, SubscribeDELETE, Handles, Renews
  <2>. QED  BY <2>1, <2>2, SessionsStay
<1>6. ASSUME NEW r \in Requests, Authenticate(r) PROVE SessionsInv'
  BY <1>6, AuthenticateKeepsSessions
<1>7. ASSUME NEW r \in Requests, RequestToken(r) PROVE SessionsInv'
  BY <1>7, GenerateKeepsSessions DEF RequestToken, GenerateAPIToken, Handles
<1>8. ASSUME NEW r \in Requests, Logout(r) PROVE SessionsInv'
  BY <1>8, LogoutKeepsSessions
<1>9. ASSUME NEW c \in Clients, Challenge(c) PROVE SessionsInv'
  BY <1>1, <1>9, SessionsStay DEF Challenge
<1>10. ASSUME NEW c \in Clients, Login(c) PROVE SessionsInv'
  BY <1>10, GenerateKeepsSessions DEF Login, GenerateAuthToken
<1>11. CASE Files \/ \E p \in Paths : HijackLookup(p)
  <2>1. UNCHANGED sessions
    BY <1>11 DEF Files, UpdateFileRecords, UpdateDone, SetFileRecordOf, HijackLookup
  <2>. QED  BY <1>1, <1>11, <2>1, FilesTouch, SessionsStay
<1>12. CASE Restart
  <2>1. rq' = [r \in Requests |-> Free] /\ UNCHANGED <<issued, ended>>
    BY <1>12 DEF Restart
  <2>2. db' = db \/ db' = Empty
    BY <1>12 DEF Restart, Reopen, Pick
  <2>3. DOMAIN Empty.tokens = {}
    BY DEF Empty, NoRows
  <2>4. RequestsInv'
    BY <2>1 DEF SessionsInv, RequestsInv
  <2>5. LoggedOutInv'
    BY <2>1, <2>2, <2>3 DEF SessionsInv, LoggedOutInv
  <2>. QED  BY <2>4, <2>5 DEF SessionsInv
<1>. QED
  BY <1>2, <1>3, <1>4, <1>5, <1>6, <1>7, <1>8, <1>9, <1>10, <1>11, <1>12, Steps
-----------------------------------------------------------------------------
(* Subscriptions *)

IsRows(t) == IsTable(t, Clients, SubscribeRow)

LEMMA RowsKept ==
  ASSUME NEW t, IsRows(t), NEW c \in Clients, NEW row \in SubscribeRow
  PROVE  IsRows(Put(t, c, row)) /\ IsRows(Drop(t, c))
BY DEF IsRows, IsTable, Put, Drop, Restrict

\* What a lookup finds is in the table.
LEMMA Lookup ==
  ASSUME TablesInv, NEW rows \in ForEachSubscribe
  PROVE  /\ IsRows(rows) /\ DOMAIN rows \subseteq DOMAIN (db["subscribes"])
         /\ \A c \in DOMAIN rows : rows[c] = db["subscribes"][c]
<1>1. \/ rows = db["subscribes"]
      \/ \E X \in SUBSET DOMAIN (db["subscribes"]) : rows = Restrict(db["subscribes"], X)
  BY DEF ForEachSubscribe, Pick, M!ForEachSubscribe, S!ForEachSubscribe, Restrict, S!Restrict
<1>. QED  BY <1>1 DEF TablesInv, IsRows, IsTable, Restrict

\* A subscription goes, or stays.
LEMMA RemoveEffect ==
  ASSUME TablesInv, NEW c, Calls("remove", "subscribes", c, RemoveSubscribe(c))
  PROVE  db'["subscribes"] \in {db["subscribes"], Drop(db["subscribes"], c)}
<1>1. PICK o \in RemoveSubscribe(c) : db' = o.db
  BY Outcome
<1>2. o.db \in {db, [db EXCEPT !["subscribes"] = Drop(db["subscribes"], c)]}
  BY ExecOutcome, SameOperators DEF RemoveSubscribe, Pick, M!RemoveSubscribe, S!RemoveSubscribe,
     M!Unknown, M!Reply
<1>. QED  BY <1>1, <1>2, TableNames DEF TablesInv

\* A client posts its subscription.
LEMMA PostEffect ==
  ASSUME TablesInv, NEW c \in Clients, NEW endpoint, NEW rec \in SubscribeRow,
         NEW op, Calls(op, "subscribes", c, SetSubscribe(c, endpoint, rec))
  PROVE  \/ db'["subscribes"] = db["subscribes"]
         \/ \E row \in SubscribeRow : db'["subscribes"] = Put(db["subscribes"], c, row)
<1>. DEFINE t == db["subscribes"]
<1>1. PICK o \in SetSubscribe(c, endpoint, rec) : db' = o.db
  BY Outcome
<1>2. [rec EXCEPT !.last = Never] \in SubscribeRow
  BY DEF SubscribeRow
<1>3. c \in DOMAIN t => /\ [rec EXCEPT !.last = t[c].last] \in SubscribeRow
                        /\ [t[c] EXCEPT !.last = rec.last] \in SubscribeRow
  BY DEF TablesInv, IsTable, SubscribeRow
<1>4. o.db = db \/ \E new : /\ o.db = [db EXCEPT !["subscribes"] = new]
                            /\ new = t \/ \E row \in SubscribeRow : new = Put(t, c, row)
  <2>1. CASE driver = "memory"
    <3>1. o.db = db \/ o.db = [db EXCEPT !["subscribes"] = Put(t, c, rec)]
      BY <1>1, <2>1, SameOperators DEF SetSubscribe, Pick, M!SetSubscribe, M!Unknown, M!Reply
    <3>. QED  BY <3>1
  <2>2. CASE driver # "memory"
    <3>. DEFINE new == IF endpoint
             THEN IF S!Has(t, c) THEN S!UpdateSubscribe(t, c, rec) ELSE S!InsertSubscribe(t, c, rec)
             ELSE IF rec.last # Never THEN S!UpdateLastReport(t, c, rec)
                                      ELSE S!UpdateSubscribe(t, c, rec)
    <3>1. o.db = db \/ o.db = [db EXCEPT !["subscribes"] = new]
      BY <1>1, <2>2, ExecOutcome DEF SetSubscribe, Pick, S!SetSubscribe
    <3>2. new = t \/ \E row \in SubscribeRow : new = Put(t, c, row)
      BY <1>2, <1>3, SameOperators
      DEF S!UpdateSubscribe, S!InsertSubscribe, S!UpdateLastReport, S!Update
    <3>. QED  BY <3>1, <3>2
  <2>. QED  BY <2>1, <2>2
<1>. QED  BY <1>1, <1>4, TableNames DEF TablesInv

\* A report writes down its time: if it is not there afterwards, there is no row, or the call failed.
\* An SQL database changes nothing else of the row.
LEMMA WriteEffect ==
  ASSUME TablesInv, NEW c \in Clients, NEW rec \in SubscribeRow, rec.last # Never,
         Calls("update", "subscribes", c, SetSubscribe(c, FALSE, rec))
  PROVE  \/ /\ db'["subscribes"] = db["subscribes"]
            /\ answer'.err = "failed" \/ c \notin DOMAIN (db["subscribes"])
         \/ /\ c \in DOMAIN (db["subscribes"])
            /\ \E row \in SubscribeRow :
                 /\ db'["subscribes"] = Put(db["subscribes"], c, row)
                 /\ row.last = rec.last
                 /\ driver # "memory" => row.scopes = db["subscribes"][c].scopes
<1>. DEFINE t == db["subscribes"]
<1>1. PICK o \in SetSubscribe(c, FALSE, rec) :
        db' = o.db /\ answer' = R!Answer("update", "subscribes", c, o.err)
  BY Outcome
<1>2. answer'.err = o.err
  BY <1>1 DEF R!Answer
<1>3. CASE driver = "memory"
  <2>1. \/ o.db = db /\ c \notin DOMAIN t
        \/ o.db = [db EXCEPT !["subscribes"] = Put(t, c, rec)] /\ c \in DOMAIN t
    BY <1>1, <1>3, SameOperators DEF SetSubscribe, Pick, M!SetSubscribe, M!Unknown, M!Reply
  <2>. QED  BY <1>1, <1>3, <2>1, TableNames DEF TablesInv
<1>4. CASE driver # "memory"
  <2>. DEFINE row == [t[c] EXCEPT !.last = rec.last]
  <2>1. \/ o.db = db /\ o.err = "failed"
        \/ o.db = [db EXCEPT !["subscribes"] = S!UpdateLastReport(t, c, rec)]
    BY <1>1, <1>4, ExecOutcome DEF SetSubscribe, Pick, S!SetSubscribe
  <2>2. CASE o.db = db /\ o.err = "failed"
    BY <1>1, <1>2, <2>2
  <2>3. CASE o.db = [db EXCEPT !["subscribes"] = S!UpdateLastReport(t, c, rec)]
    <3>1. db'["subscribes"] = IF c \in DOMAIN t THEN Put(t, c, row) ELSE t
      BY <1>1, <2>3, SameOperators, TableNames DEF TablesInv, S!UpdateLastReport, S!Update
    <3>2. c \in DOMAIN t => row \in SubscribeRow /\ row.last = rec.last /\ row.scopes = t[c].scopes
      BY DEF TablesInv, IsTable, SubscribeRow
    <3>. QED  BY <3>1, <3>2
  <2>. QED  BY <2>1, <2>2, <2>3
<1>. QED  BY <1>3, <1>4
-----------------------------------------------------------------------------
(* Rounds *)

RowsInv == TablesInv /\ RoundsInv

LEMMA SendsRows ==
  ASSUME RoundsInv, NEW p \in Senders, NEW rows, IsRows(rows), NEW ready \in SUBSET DOMAIN rows,
         Sends(p, rows, ready)
  PROVE  /\ DOMAIN sender' = Senders
         /\ \A q \in Senders : IsRows(sender'[q].sent)
         /\ sender'[p].stage = "sending" /\ DOMAIN sender'[p].sent = ready
         /\ \A q \in Senders : q # p => sender'[q] = sender[q]
BY DEF RoundsInv, Sends, IsRows, IsTable, Restrict

LEMMA AfterRows ==
  ASSUME NEW sent, IsRows(sent), NEW outdated
  PROVE  /\ IsRows(After(sent, outdated).sent)
         /\ \A c \in DOMAIN sent :
              After(sent, outdated).stage = "after" /\ c \in DOMAIN After(sent, outdated).sent
BY DEF After, Idle, NoRows, IsRows, IsTable

\* What a step of a sender does to what it holds.
Moves(p, sent) ==
  \E outdated : sender' = [sender EXCEPT ![p] = After(sent, outdated)]

LEMMA MovesRows ==
  ASSUME RoundsInv, NEW p \in Senders, NEW sent, IsRows(sent), Moves(p, sent)
  PROVE  /\ DOMAIN sender' = Senders
         /\ \A q \in Senders : IsRows(sender'[q].sent)
         /\ \A q \in Senders : q # p => sender'[q] = sender[q]
         /\ \A c \in DOMAIN sent : sender'[p].stage = "after" /\ c \in DOMAIN sender'[p].sent
<1>1. PICK outdated : sender' = [sender EXCEPT ![p] = After(sent, outdated)]
  BY DEF Moves
<1>2. sender'[p] = After(sent, outdated)
  BY <1>1 DEF RoundsInv
<1>. QED  BY <1>1, <1>2, AfterRows DEF RoundsInv, IsRows

\* Steps that have nothing to do with reports.
Apart ==
  /\ UNCHANGED <<driver, now, reporting>>
  /\ DOMAIN db' = DOMAIN Empty /\ db'["subscribes"] = db["subscribes"]

LEMMA ApartKeepsReports ==
  ASSUME RowsInv, PushedInv, MailedInv, Apart
  PROVE  RowsInv' /\ PushedInv' /\ MailedInv'
<1>1. TablesInv'
  BY DEF Apart, RowsInv, TablesInv
<1>2. RoundsInv'
  BY DEF Apart, RowsInv, RoundsInv
<1>3. PushedInv'
  BY DEF Apart, PushedInv
<1>4. MailedInv'
  BY DEF Apart, MailedInv, NextReportAfter
<1>. QED  BY <1>1, <1>2, <1>3, <1>4 DEF RowsInv

LEMMA ReportSteps ==
  ASSUME TablesInv, RequestsInv, [Next]_vars
  PROVE  \/ Apart
         \/ Notify \/ Tick \/ Restart
         \/ \E r \in Requests : SubscribePOST(r) \/ SubscribeDELETE(r)
<1>. USE TableNames DEF Touches
<1>1. CASE UNCHANGED vars
  BY <1>1 DEF vars, Apart, TablesInv
<1>2. ASSUME NEW r \in Requests, OtherHandler(r) PROVE Apart
  <2>1. UNCHANGED <<driver, now, reporting>>
    BY <1>2 DEF OtherHandler, BadRequest, SubscribeGET, EmailGET, EmailPOST, EmailPATCH, EmailDELETE,
                WebhookGET, WebhookPOST, WebhookPATCH, WebhookDELETE, Handles, Same
  <2>. QED  BY <1>2, <2>1, OtherHandlerTouches DEF Apart
<1>3. ASSUME NEW r \in Requests, Authenticate(r) PROVE Apart
  BY <1>3 DEF Authenticate, Apart, TablesInv
<1>4. ASSUME NEW r \in Requests, RequestToken(r) PROVE Apart
  BY <1>4, GenerateTouches DEF RequestToken, GenerateAPIToken, Handles, Apart
<1>5. ASSUME NEW r \in Requests, Logout(r) PROVE Apart
  BY <1>5, LogoutTouches DEF Logout, Handles, Apart
<1>6. ASSUME NEW c \in Clients, Challenge(c) PROVE Apart
  BY <1>6 DEF Challenge, Apart, TablesInv
<1>7. ASSUME NEW c \in Clients, Login(c) PROVE Apart
  BY <1>7, GenerateTouches DEF Login, GenerateAuthToken, Apart
<1>8. CASE Files \/ \E p \in Paths : HijackLookup(p)
  <2>1. UNCHANGED <<driver, now, reporting>>
    BY <1>8 DEF Files, UpdateFileRecords, UpdateDone, SetFileRecordOf, HijackLookup
  <2>. QED  BY <1>8, <2>1, FilesTouch DEF Apart
<1>. QED  BY <1>1, <1>2, <1>3, <1>4, <1>5, <1>6, <1>7, <1>8, Steps
-----------------------------------------------------------------------------
(* The steps of the reports *)

ReportsInv == RowsInv /\ PushedInv /\ MailedInv

\* The tables after a call that removes a subscription or leaves another row of it.
LEMMA TablesAfter ==
  ASSUME TablesInv, DOMAIN db' = DOMAIN Empty, driver' = driver, IsRows(db'["subscribes"])
  PROVE  TablesInv'
BY DEF TablesInv, IsRows

\* When neither the time nor the rounds' flags change, nor the mails, their invariant stays.
LEMMA MailedStays ==
  ASSUME MailedInv, UNCHANGED <<now, nextReport, mailing, mailed>>
  PROVE  MailedInv'
BY DEF MailedInv, NextReportAfter

\* What each of the clients had last is still written or about to be.
Covered(c, t, s) ==
  c \in DOMAIN t /\ pushed[c] # Never =>
    \/ t[c].last >= pushed[c]
    \/ s["report"].stage \in {"sending", "after"} /\ c \in DOMAIN s["report"].sent

LEMMA ReadyAtLeast ==
  ASSUME NEW at, NEW last \in {Never} \cup Nat, NEW t \in Nat, ReadySince(at, last, t), last # Never
  PROVE  t - last >= 12 * Hour
BY DEF ReadySince

LEMMA NextReportLater ==
  ASSUME NEW t \in Nat
  PROVE  NextReportAfter(t) \in Nat /\ NextReportAfter(t) > t
BY DEF NextReportAfter

LEMMA OnReportStatusKeeps ==
  ASSUME ReportsInv, OnReportStatus
  PROVE  ReportsInv' /\ Spaced(pushed, pushed', 12 * Hour)
<1>. USE DEF ReportsInv, RowsInv
<1>1. PICK rows \in ForEachSubscribe :
        \E ready \in SUBSET DOMAIN rows :
          /\ \A c \in ready : ReadySince(rows[c].at, rows[c].last, now)
          /\ Sends("report", rows, ready)
          /\ pushed' = [c \in Clients |-> IF c \in ready THEN now ELSE pushed[c]]
  BY DEF OnReportStatus
<1>. PICK ready \in SUBSET DOMAIN rows :
       /\ \A c \in ready : ReadySince(rows[c].at, rows[c].last, now)
       /\ Sends("report", rows, ready)
       /\ pushed' = [c \in Clients |-> IF c \in ready THEN now ELSE pushed[c]]
  BY <1>1
<1>2. /\ IsRows(rows) /\ DOMAIN rows \subseteq DOMAIN (db["subscribes"])
      /\ \A c \in DOMAIN rows : rows[c] = db["subscribes"][c]
  BY Lookup
<1>3. /\ DOMAIN sender' = Senders /\ \A q \in Senders : IsRows(sender'[q].sent)
      /\ sender'["report"].stage = "sending" /\ DOMAIN sender'["report"].sent = ready
  BY <1>1, <1>2, SendsRows DEF Senders
<1>4. /\ sender["report"].stage = "idle" /\ ~mailing /\ mailing' = TRUE /\ now >= nextReport
      /\ nextReport' = NextReportAfter(now) /\ UNCHANGED <<driver, db, now, mailed>>
  BY DEF OnReportStatus, Resting, Idle
<1>5. TablesInv' /\ RoundsInv'
  BY <1>3, <1>4, NextReportLater DEF TablesInv, RoundsInv, IsRows
<1>6. \A c \in Clients : pushed'[c] = IF c \in ready THEN now ELSE pushed[c]
  BY <1>1
<1>7. \A c \in DOMAIN (db["subscribes"]) :
        c \in Clients /\ (pushed[c] # Never => db["subscribes"][c].last >= pushed[c])
  BY <1>4 DEF PushedInv, TablesInv, IsTable
<1>8. PushedInv'
  BY <1>1, <1>3, <1>4, <1>6, <1>7 DEF PushedInv, RoundsInv
<1>9. MailedInv'
  BY <1>4, NextReportLater DEF MailedInv, RoundsInv
<1>10. Spaced(pushed, pushed', 12 * Hour)
  <2>1. SUFFICES ASSUME NEW c \in Clients, pushed[c] # pushed'[c], pushed[c] # Never
                 PROVE  pushed'[c] - pushed[c] >= 12 * Hour
    BY DEF Spaced, PushedInv
  <2>2. c \in ready /\ pushed'[c] = now
    BY <1>6, <2>1
  <2>3. /\ ReadySince(rows[c].at, rows[c].last, now) /\ rows[c] = db["subscribes"][c]
        /\ c \in DOMAIN (db["subscribes"])
    BY <1>1, <1>2, <2>2
  <2>4. rows[c].last >= pushed[c] /\ rows[c].last \in {Never} \cup Nat
    BY <1>7, <2>1, <2>3 DEF TablesInv, IsTable, SubscribeRow
  <2>5. pushed[c] \in Nat /\ now \in Nat
    BY <2>1 DEF PushedInv, RoundsInv
  <2>6. now - rows[c].last >= 12 * Hour
    BY <2>3, <2>4, <2>5, ReadyAtLeast
  <2>. QED  BY <2>2, <2>4, <2>5, <2>6 DEF Hour
<1>. QED  BY <1>5, <1>8, <1>9, <1>10

LEMMA OnEventKeeps ==
  ASSUME ReportsInv, OnEvent
  PROVE  ReportsInv'
<1>. USE DEF ReportsInv, RowsInv
<1>1. PICK rows \in ForEachSubscribe : \E enabled \in SUBSET DOMAIN rows : Sends("event", rows, enabled)
  BY DEF OnEvent
<1>2. /\ DOMAIN sender' = Senders /\ \A q \in Senders : IsRows(sender'[q].sent)
      /\ sender'["report"] = sender["report"]
  BY <1>1, Lookup, SendsRows DEF Senders
<1>3. UNCHANGED <<driver, db, now, nextReport, mailing, pushed, mailed>>
  BY DEF OnEvent
<1>4. TablesInv' /\ RoundsInv'
  BY <1>2, <1>3 DEF TablesInv, RoundsInv, IsRows
<1>5. PushedInv'
  BY <1>2, <1>3 DEF PushedInv
<1>. QED  BY <1>3, <1>4, <1>5, MailedStays

\* A sender moves on: its report's clients are still in what it holds, but for one that is dealt with.
LEMMA SenderKeeps ==
  ASSUME ReportsInv, NEW p \in Senders, NEW sent, IsRows(sent), Moves(p, sent),
         UNCHANGED <<driver, now, nextReport, mailing, mailed>>,
         DOMAIN db' = DOMAIN Empty, IsRows(db'["subscribes"]),
         pushed' \in [Clients -> {Never} \cup Nat],
         \A c \in Clients : pushed'[c] \in {pushed[c], Never},
         \A c \in DOMAIN (db'["subscribes"]) : pushed'[c] # Never =>
           \/ db'["subscribes"][c].last >= pushed[c]
           \/ /\ c \in DOMAIN (db["subscribes"]) /\ db'["subscribes"][c] = db["subscribes"][c]
              /\ p = "report" /\ c \in DOMAIN sender["report"].sent => c \in DOMAIN sent
  PROVE  ReportsInv'
<1>. USE DEF ReportsInv, RowsInv
<1>1. /\ DOMAIN sender' = Senders
      /\ \A q \in Senders : IsRows(sender'[q].sent)
      /\ \A q \in Senders : q # p => sender'[q] = sender[q]
      /\ \A c \in DOMAIN sent : sender'[p].stage = "after" /\ c \in DOMAIN sender'[p].sent
  BY MovesRows
<1>2. TablesInv'
  BY TablesAfter
<1>3. RoundsInv'
  BY <1>1 DEF RoundsInv, IsRows
<1>4. \A c \in Clients : pushed'[c] <= now
  BY DEF PushedInv, RoundsInv
<1>5. ASSUME NEW c \in DOMAIN (db'["subscribes"]), pushed'[c] # Never
      PROVE  \/ db'["subscribes"][c].last >= pushed'[c]
             \/ /\ sender'["report"].stage \in {"sending", "after"}
                /\ c \in DOMAIN sender'["report"].sent
  <2>1. c \in Clients /\ pushed'[c] = pushed[c]
    BY <1>5 DEF IsRows, IsTable
  <2>2. CASE db'["subscribes"][c].last >= pushed[c]
    BY <2>1, <2>2
  <2>3. CASE /\ c \in DOMAIN (db["subscribes"]) /\ db'["subscribes"][c] = db["subscribes"][c]
             /\ p = "report" /\ c \in DOMAIN sender["report"].sent => c \in DOMAIN sent
    BY <1>1, <1>5, <2>1, <2>3 DEF PushedInv, Senders
  <2>. QED  BY <1>5, <2>2, <2>3
<1>6. PushedInv'
  BY <1>4, <1>5 DEF PushedInv
<1>. QED  BY <1>2, <1>3, <1>6, MailedStays

\* Two mails of one address: the first round of the mails' half hour is the only one.
LEMMA NotTwiceAnEvening ==
  ASSUME NEW m \in Nat, NEW t \in Nat, m <= t, MailTime(m), MailTime(t), NextReportAfter(m) <= t
  PROVE  t - m >= 23 * Hour
BY DEF MailTime, NextReportAfter, MinuteOfDay, Hour, Day

LEMMA MailReportKeeps ==
  ASSUME ReportsInv, MailReport
  PROVE  ReportsInv' /\ Spaced(mailed, mailed', 23 * Hour)
<1>. USE DEF ReportsInv, RowsInv
<1>1. PICK told \in SUBSET Addrs :
        /\ \A a \in told : MailTime(now)
        /\ mailed' = [a \in Addrs |-> IF a \in told THEN now ELSE mailed[a]]
  <2>1. PICK addrs : mailed' = [a \in Addrs |->
          IF /\ a \in addrs /\ "dailyreport" \in db.emails[a].scopes
             /\ MinuteOfDay(now) \div Hour = 22 /\ MinuteOfDay(now) % Hour < 30
          THEN now ELSE mailed[a]]
    BY DEF MailReport
  <2>. DEFINE told == {a \in Addrs : /\ a \in addrs /\ "dailyreport" \in db.emails[a].scopes
                                     /\ MailTime(now)}
  <2>2. told \in SUBSET Addrs /\ \A a \in told : MailTime(now)
    OBVIOUS
  <2>3. mailed' = [a \in Addrs |-> IF a \in told THEN now ELSE mailed[a]]
    BY <2>1 DEF MailTime
  <2>. QED  BY <2>2, <2>3
<1>2. mailing /\ mailing' = FALSE /\ UNCHANGED <<driver, db, now, nextReport, sender, pushed>>
  BY DEF MailReport
<1>3. nextReport = NextReportAfter(now) /\ nextReport > now /\ now \in Nat /\ nextReport \in Nat
  BY <1>2, NextReportLater DEF MailedInv, RoundsInv
<1>4. TablesInv' /\ RoundsInv' /\ PushedInv'
  BY <1>2 DEF TablesInv, RoundsInv, PushedInv
<1>5. mailed' \in [Addrs -> {Never} \cup Nat]
  BY <1>1, <1>3 DEF MailedInv
<1>6. ASSUME NEW a \in Addrs, mailed'[a] # Never
      PROVE  /\ mailed'[a] <= now /\ MailTime(mailed'[a])
             /\ NextReportAfter(mailed'[a]) <= nextReport
  <2>1. CASE a \in told
    BY <1>1, <1>3, <2>1
  <2>2. CASE a \notin told
    BY <1>1, <1>2, <1>3, <1>6, <2>2, NextReportLater DEF MailedInv
  <2>. QED  BY <2>1, <2>2
<1>7. MailedInv'
  BY <1>2, <1>5, <1>6 DEF MailedInv
<1>8. Spaced(mailed, mailed', 23 * Hour)
  <2>1. SUFFICES ASSUME NEW a \in Addrs, mailed[a] # mailed'[a], mailed[a] # Never
                 PROVE  mailed'[a] - mailed[a] >= 23 * Hour
    BY DEF Spaced, MailedInv
  <2>2. mailed'[a] = now /\ MailTime(now)
    BY <1>1, <2>1
  <2>3. /\ mailed[a] \in Nat /\ mailed[a] <= now /\ MailTime(mailed[a])
        /\ NextReportAfter(mailed[a]) <= now
    BY <1>2, <2>1 DEF MailedInv
  <2>. QED  BY <1>3, <2>2, <2>3, NotTwiceAnEvening
<1>. QED  BY <1>4, <1>7, <1>8

LEMMA EndSendsKeeps ==
  ASSUME ReportsInv, NEW p \in Senders, EndSends(p)
  PROVE  ReportsInv'
<1>. DEFINE sent == IF p = "report" THEN sender[p].sent ELSE NoRows
<1>1. Moves(p, sent)
  BY DEF EndSends, Moves
<1>2. IsRows(sent)
  BY DEF ReportsInv, RowsInv, RoundsInv, IsRows, IsTable, NoRows
<1>3. UNCHANGED <<driver, db, now, nextReport, mailing, mailed, pushed>>
  BY DEF EndSends
<1>4. DOMAIN db = DOMAIN Empty /\ IsRows(db["subscribes"]) /\ pushed \in [Clients -> {Never} \cup Nat]
  BY DEF ReportsInv, RowsInv, TablesInv, PushedInv, IsRows
<1>5. p = "report" => sent = sender["report"].sent
  OBVIOUS
<1>. HIDE DEF sent
<1>. QED  BY <1>1, <1>2, <1>3, <1>4, <1>5, SenderKeeps

LEMMA RemoveOutdatedKeeps ==
  ASSUME ReportsInv, NEW p \in Senders, NEW c \in Clients, RemoveOutdated(p, c)
  PROVE  ReportsInv'
<1>. DEFINE sent == sender[p].sent
<1>1. Moves(p, sent)
  BY DEF ReportsInv, RowsInv, RoundsInv, RemoveOutdated, Moves
<1>2. IsRows(sent) /\ IsRows(db["subscribes"]) /\ pushed \in [Clients -> {Never} \cup Nat]
  BY DEF ReportsInv, RowsInv, RoundsInv, TablesInv, PushedInv, IsRows
<1>3. UNCHANGED <<driver, now, nextReport, mailing, mailed, pushed>>
  BY DEF RemoveOutdated
<1>4. DOMAIN db' = DOMAIN Empty
  <2>1. Notify
    BY DEF Notify
  <2>. QED  BY <2>1, NotifyTouches DEF Touches, ReportsInv, RowsInv
<1>5. db'["subscribes"] \in {db["subscribes"], Drop(db["subscribes"], c)}
  BY RemoveEffect DEF RemoveOutdated, ReportsInv, RowsInv
<1>6. /\ IsRows(db'["subscribes"]) /\ DOMAIN (db'["subscribes"]) \subseteq DOMAIN (db["subscribes"])
      /\ \A x \in DOMAIN (db'["subscribes"]) : db'["subscribes"][x] = db["subscribes"][x]
  BY <1>2, <1>5 DEF IsRows, IsTable, Drop, Restrict
<1>7. p = "report" => sent = sender["report"].sent
  OBVIOUS
<1>. HIDE DEF sent
<1>. QED  BY <1>1, <1>2, <1>3, <1>4, <1>6, <1>7, SenderKeeps

LEMMA WriteSentKeeps ==
  ASSUME ReportsInv, NEW c \in Clients, WriteSent(c)
  PROVE  ReportsInv' /\ \A x \in Clients : pushed'[x] \in {pushed[x], Never}
<1>. DEFINE s == sender["report"]
            sent == Drop(s.sent, c)
            rec == [s.sent[c] EXCEPT !.last = now]
            t == db["subscribes"]
<1>1. /\ c \in DOMAIN s.sent /\ Calls("update", "subscribes", c, SetSubscribe(c, FALSE, rec))
      /\ pushed' = IF answer'.err = "failed" THEN [pushed EXCEPT ![c] = Never] ELSE pushed
      /\ Moves("report", sent)
      /\ UNCHANGED <<driver, now, nextReport, mailing, mailed>>
  BY DEF WriteSent, Moves
<1>2. IsRows(s.sent) /\ IsRows(t) /\ pushed \in [Clients -> {Never} \cup Nat] /\ now \in Nat
  BY DEF ReportsInv, RowsInv, RoundsInv, TablesInv, PushedInv, IsRows, Senders
<1>3. rec \in SubscribeRow /\ rec.last = now
  BY <1>1, <1>2 DEF IsRows, IsTable, SubscribeRow
<1>4. DOMAIN db' = DOMAIN Empty
  <2>1. Notify
    BY DEF Notify
  <2>. QED  BY <2>1, NotifyTouches DEF Touches, ReportsInv, RowsInv
<1>5. IsRows(sent) /\ \A x \in DOMAIN s.sent : x # c => x \in DOMAIN sent
  BY <1>2 DEF IsRows, IsTable, Drop, Restrict
<1>6. /\ pushed' \in [Clients -> {Never} \cup Nat]
      /\ \A x \in Clients : pushed'[x] \in {pushed[x], Never}
      /\ answer'.err = "failed" => pushed'[c] = Never
  BY <1>1, <1>2
<1>7. \/ /\ db'["subscribes"] = t
         /\ pushed'[c] = Never \/ c \notin DOMAIN t
      \/ /\ c \in DOMAIN t
         /\ \E row \in SubscribeRow : db'["subscribes"] = Put(t, c, row) /\ row.last = now
  <2>1. rec.last # Never
    BY <1>2, <1>3
  <2>. HIDE DEF rec
  <2>. QED  BY <1>1, <1>3, <1>6, <2>1, WriteEffect DEF ReportsInv, RowsInv
<1>8. /\ IsRows(db'["subscribes"])
      /\ \A x \in DOMAIN (db'["subscribes"]) :
           \/ x = c /\ (pushed'[c] = Never \/ db'["subscribes"][c].last = now)
           \/ x # c /\ x \in DOMAIN t /\ db'["subscribes"][x] = t[x]
  <2>1. CASE db'["subscribes"] = t /\ (pushed'[c] = Never \/ c \notin DOMAIN t)
    BY <1>2, <2>1
  <2>2. CASE c \in DOMAIN t /\ \E row \in SubscribeRow :
               db'["subscribes"] = Put(t, c, row) /\ row.last = now
    <3>1. PICK row \in SubscribeRow : db'["subscribes"] = Put(t, c, row) /\ row.last = now
      BY <2>2
    <3>2. IsRows(Put(t, c, row))
      BY <1>2, RowsKept
    <3>. HIDE DEF t
    <3>. QED  BY <3>1, <3>2 DEF Put
  <2>. QED  BY <1>7, <2>1, <2>2
<1>9. \A x \in DOMAIN (db'["subscribes"]) : pushed'[x] # Never =>
        \/ db'["subscribes"][x].last >= pushed[x]
        \/ /\ x \in DOMAIN t /\ db'["subscribes"][x] = t[x]
           /\ x \in DOMAIN s.sent => x \in DOMAIN sent
  BY <1>5, <1>8 DEF ReportsInv, PushedInv
<1>10. ReportsInv'
  <2>. HIDE DEF sent
  <2>. QED  BY <1>1, <1>4, <1>5, <1>6, <1>8, <1>9, SenderKeeps DEF Senders
<1>. QED  BY <1>6, <1>10

LEMMA TickKeeps ==
  ASSUME ReportsInv, Tick
  PROVE  ReportsInv'
<1>. USE DEF ReportsInv, RowsInv
<1>1. /\ now' \in Nat /\ now' > now /\ ~mailing
      /\ UNCHANGED <<driver, db, nextReport, sender, mailing, pushed, mailed>>
  BY TimesAssumption DEF Tick, Resting
<1>2. TablesInv' /\ RoundsInv'
  BY <1>1 DEF TablesInv, RoundsInv
<1>3. PushedInv'
  BY <1>1 DEF PushedInv, RoundsInv
<1>4. MailedInv'
  <2>1. mailed' \in [Addrs -> {Never} \cup Nat]
    BY <1>1 DEF MailedInv
  <2>2. ASSUME NEW a \in Addrs, mailed[a] # Never
        PROVE  /\ mailed[a] <= now' /\ MailTime(mailed[a])
               /\ NextReportAfter(mailed[a]) <= nextReport
    BY <1>1, <2>1, <2>2 DEF MailedInv, RoundsInv
  <2>. QED  BY <1>1, <2>1, <2>2 DEF MailedInv
<1>. QED  BY <1>2, <1>3, <1>4

LEMMA RestartKeeps ==
  ASSUME ReportsInv, Restart
  PROVE  ReportsInv'
<1>. USE DEF ReportsInv, RowsInv
<1>1. /\ nextReport' = 0 /\ mailing' = FALSE /\ UNCHANGED <<driver, now>>
      /\ sender' = [p \in Senders |-> Idle] /\ mailed' = [a \in Addrs |-> Never]
      /\ pushed' = IF driver = "memory" \/ sender["report"] # Idle
                   THEN [c \in Clients |-> Never] ELSE pushed
      /\ db' = IF driver = "memory" THEN Empty ELSE db
  BY DEF Restart, Reopen, Pick
<1>2. IsRows(Empty["subscribes"]) /\ \A p \in Senders : sender'[p] = Idle /\ IsRows(Idle.sent)
  BY <1>1 DEF Empty, NoRows, Idle, IsRows, IsTable
<1>3. TablesInv' /\ RoundsInv'
  BY <1>1, <1>2 DEF TablesInv, RoundsInv, IsRows
<1>4. pushed' \in [Clients -> {Never} \cup Nat] /\ \A c \in Clients : pushed'[c] <= now
  BY <1>1 DEF PushedInv, RoundsInv
<1>5. ASSUME NEW c \in DOMAIN (db'["subscribes"]), pushed'[c] # Never
      PROVE  db'["subscribes"][c].last >= pushed'[c]
  <2>1. c \in Clients
    BY <1>3, <1>5 DEF TablesInv, IsTable
  <2>2. driver # "memory" /\ sender["report"] = Idle
    BY <1>1, <1>5, <2>1
  <2>. QED  BY <1>1, <1>5, <2>2 DEF PushedInv, Idle
<1>6. PushedInv'
  BY <1>1, <1>4, <1>5 DEF PushedInv
<1>7. MailedInv'
  BY <1>1 DEF MailedInv
<1>. QED  BY <1>3, <1>6, <1>7

\* The client's own requests take back what it was known to have had.
LEMMA RenewsKeeps ==
  ASSUME ReportsInv, RequestsInv, NEW r \in Requests, SubscribePOST(r) \/ SubscribeDELETE(r)
  PROVE  ReportsInv' /\ \A c \in Clients : pushed'[c] \in {pushed[c], Never}
<1>. DEFINE c == rq[r].client
            t == db["subscribes"]
<1>1. c \in Clients /\ DOMAIN db' = DOMAIN Empty
  BY SubscribeTouches DEF ReportsInv, RowsInv, Touches
<1>2. /\ pushed' = [pushed EXCEPT ![c] = Never]
      /\ UNCHANGED <<driver, now, nextReport, sender, mailing, mailed>>
  BY DEF SubscribePOST, SubscribeDELETE, Handles, Renews
<1>3. /\ IsRows(t) /\ pushed \in [Clients -> {Never} \cup Nat] /\ now \in Nat
      /\ TablesInv
  BY DEF ReportsInv, RowsInv, RoundsInv, TablesInv, PushedInv, IsRows
<1>4. \/ db'["subscribes"] \in {t, Drop(t, c)}
      \/ \E row \in SubscribeRow : db'["subscribes"] = Put(t, c, row)
  <2>1. CASE SubscribePOST(r)
    <3>1. PICK endpoint \in BOOLEAN, scopes \in SUBSET Scopes, at \in Schedules :
            Calls(IF endpoint THEN "set" ELSE "update", "subscribes", c,
              SetSubscribe(c, endpoint, [scopes |-> scopes, at |-> at, last |-> Never]))
      BY <2>1 DEF SubscribePOST
    <3>2. [scopes |-> scopes, at |-> at, last |-> Never] \in SubscribeRow
      BY DEF SubscribeRow
    <3>. HIDE DEF c
    <3>. QED  BY <1>1, <1>3, <3>1, <3>2, PostEffect
  <2>2. CASE SubscribeDELETE(r)
    BY <1>3, <2>2, RemoveEffect DEF SubscribeDELETE
  <2>. QED  BY <2>1, <2>2
<1>5. /\ IsRows(db'["subscribes"])
      /\ \A x \in DOMAIN (db'["subscribes"]) : x # c =>
           x \in DOMAIN t /\ db'["subscribes"][x] = t[x]
  <2>. HIDE DEF t, c
  <2>1. CASE db'["subscribes"] \in {t, Drop(t, c)}
    BY <1>3, <2>1 DEF IsRows, IsTable, Drop, Restrict
  <2>2. CASE \E row \in SubscribeRow : db'["subscribes"] = Put(t, c, row)
    BY <1>1, <1>3, <2>2 DEF IsRows, IsTable, Put
  <2>. QED  BY <1>4, <2>1, <2>2
<1>6. /\ pushed' \in [Clients -> {Never} \cup Nat] /\ pushed'[c] = Never
      /\ \A x \in Clients : pushed'[x] \in {pushed[x], Never} /\ (x # c => pushed'[x] = pushed[x])
  <2>. HIDE DEF c
  <2>. QED  BY <1>1, <1>2, <1>3
<1>. HIDE DEF c
<1>7. TablesInv'
  BY <1>1, <1>2, <1>3, <1>5, TablesAfter
<1>8. RoundsInv'
  BY <1>2 DEF ReportsInv, RowsInv, RoundsInv
<1>9. \A x \in Clients : pushed'[x] <= now'
  BY <1>2, <1>3, <1>6 DEF ReportsInv, PushedInv
<1>10. ASSUME NEW x \in DOMAIN (db'["subscribes"]), pushed'[x] # Never
       PROVE  \/ db'["subscribes"][x].last >= pushed'[x]
              \/ /\ sender'["report"].stage \in {"sending", "after"}
                 /\ x \in DOMAIN sender'["report"].sent
  <2>1. x \in Clients /\ x # c
    BY <1>5, <1>6, <1>10 DEF IsRows, IsTable
  <2>2. x \in DOMAIN t /\ db'["subscribes"][x] = t[x] /\ pushed'[x] = pushed[x]
    BY <1>5, <1>6, <2>1
  <2>. QED  BY <1>2, <1>10, <2>2 DEF ReportsInv, PushedInv
<1>11. PushedInv'
  BY <1>6, <1>9, <1>10 DEF PushedInv
<1>. QED  BY <1>2, <1>6, <1>7, <1>8, <1>11, MailedStays DEF ReportsInv, RowsInv

LEMMA NotifyKeeps ==
  ASSUME ReportsInv, Notify
  PROVE  /\ ReportsInv'
         /\ Spaced(pushed, pushed', 12 * Hour) /\ Spaced(mailed, mailed', 23 * Hour)
<1>. DEFINE Goal == /\ ReportsInv'
                    /\ Spaced(pushed, pushed', 12 * Hour) /\ Spaced(mailed, mailed', 23 * Hour)
<1>1. /\ pushed' = pushed => Spaced(pushed, pushed', 12 * Hour)
      /\ mailed' = mailed => Spaced(mailed, mailed', 23 * Hour)
  BY DEF Spaced
<1>2. (\A c \in Clients : pushed'[c] \in {pushed[c], Never}) => Spaced(pushed, pushed', 12 * Hour)
  BY DEF Spaced, ReportsInv, PushedInv
<1>3. CASE OnReportStatus
  BY <1>1, <1>3, OnReportStatusKeeps DEF OnReportStatus
<1>4. CASE MailReport
  BY <1>1, <1>4, MailReportKeeps DEF MailReport
<1>5. CASE OnEvent
  BY <1>1, <1>5, OnEventKeeps DEF OnEvent
<1>6. ASSUME NEW p \in Senders, EndSends(p) PROVE Goal
  BY <1>1, <1>6, EndSendsKeeps DEF EndSends
<1>7. ASSUME NEW p \in Senders, NEW c \in Clients, RemoveOutdated(p, c) PROVE Goal
  BY <1>1, <1>7, RemoveOutdatedKeeps DEF RemoveOutdated
<1>8. ASSUME NEW c \in Clients, WriteSent(c) PROVE Goal
  BY <1>1, <1>2, <1>8, WriteSentKeeps DEF WriteSent
<1>. QED  BY <1>3, <1>4, <1>5, <1>6, <1>7, <1>8 DEF Notify

LEMMA ReportsStep ==
  ASSUME ReportsInv, SessionsInv, [Next]_vars
  PROVE  /\ ReportsInv'
         /\ Spaced(pushed, pushed', 12 * Hour) /\ Spaced(mailed, mailed', 23 * Hour)
<1>. DEFINE Goal == /\ ReportsInv'
                    /\ Spaced(pushed, pushed', 12 * Hour) /\ Spaced(mailed, mailed', 23 * Hour)
<1>1. /\ pushed' = pushed => Spaced(pushed, pushed', 12 * Hour)
      /\ mailed' = mailed => Spaced(mailed, mailed', 23 * Hour)
  BY DEF Spaced
<1>2. (\A c \in Clients : pushed'[c] \in {pushed[c], Never}) => Spaced(pushed, pushed', 12 * Hour)
  BY DEF Spaced, ReportsInv, PushedInv
<1>3. CASE Apart
  BY <1>1, <1>3, ApartKeepsReports DEF ReportsInv, Apart
<1>4. CASE Notify
  BY <1>4, NotifyKeeps
<1>5. CASE Tick
  BY <1>1, <1>5, TickKeeps DEF Tick
<1>6. CASE Restart
  <2>1. \A c \in Clients : pushed'[c] \in {pushed[c], Never}
    BY <1>6 DEF Restart
  <2>2. \A a \in Addrs : mailed'[a] = Never
    BY <1>6 DEF Restart
  <2>3. Spaced(mailed, mailed', 23 * Hour)
    BY <2>2 DEF Spaced, ReportsInv, MailedInv
  <2>. QED  BY <1>2, <1>6, <2>1, <2>3, RestartKeeps
<1>7. ASSUME NEW r \in Requests, SubscribePOST(r) \/ SubscribeDELETE(r) PROVE Goal
  <2>1. mailed' = mailed
    BY <1>7 DEF SubscribePOST, SubscribeDELETE, Handles
  <2>. QED  BY <1>1, <1>2, <1>7, <2>1, RenewsKeeps DEF SessionsInv
<1>. QED  BY <1>3, <1>4, <1>5, <1>6, <1>7, ReportSteps DEF SessionsInv, ReportsInv, RowsInv
-----------------------------------------------------------------------------
(* The theorems *)

LEMMA InitInv == Init => IInv
<1>. SUFFICES ASSUME Init PROVE IInv
  OBVIOUS
<1>. USE DEF Init, InitReports
<1>1. TablesInv
  BY DEF TablesInv, IsTable, Empty, NoRows
<1>2. RequestsInv
  BY DEF RequestsInv
<1>3. LoggedOutInv
  BY DEF LoggedOutInv, NoRows
<1>4. RoundsInv
  BY TimesAssumption DEF RoundsInv, IsTable, Idle, NoRows
<1>5. PushedInv
  <2>1. DOMAIN (db["subscribes"]) = {}
    BY DEF Empty, NoRows
  <2>2. pushed \in [Clients -> {Never} \cup Nat] /\ \A c \in Clients : pushed[c] <= now
    BY TimesAssumption
  <2>. QED  BY <2>1, <2>2 DEF PushedInv
<1>6. MailedInv
  BY DEF MailedInv
<1>. QED  BY <1>1, <1>2, <1>3, <1>4, <1>5, <1>6 DEF IInv

LEMMA StepInv == IInv /\ [Next]_vars => IInv'
BY SessionsStep, ReportsStep DEF IInv, SessionsInv, ReportsInv, RowsInv

LEMMA DashboardInvariant == Spec => []IInv
BY InitInv, StepInv, PTL DEF Spec

\* db.go:41-79: whichever database is configured, whatever fails or runs at the same time, and for
\* any clients, requests and rows: every step is an operation of the interface DB that does what it
\* answers, touches no table, or is sql.go:424 losing the new record of a file.
THEOREM RecordMapRefined == Spec => ImplementsRecordMap
<1>1. Init => R!Init
  BY TableNames DEF Init, InitReports, R!Init
<1>2. IInv /\ [Next]_vars => [R!Next \/ FileRecordLost]_(R!mapVars)
  BY MapStep DEF IInv
<1>. QED  BY <1>1, <1>2, DashboardInvariant, PTL DEF Spec, ImplementsRecordMap

\* api.go:401: for any number of clients, requests, tokens and restarts, no request is let in by a
\* token that a logout has removed.
THEOREM LogoutKept == Spec => LogoutIsFinal
<1>. DEFINE Final == \A r \in Requests : rq[r] = Free /\ rq'[r] # Free => rq'[r].token \notin ended
<1>1. ASSUME IInv, [Next]_vars PROVE Final
  <2>1. SUFFICES ASSUME NEW r \in Requests, rq[r] = Free, rq'[r] # Free PROVE rq'[r].token \notin ended
    OBVIOUS
  <2>2. ASSUME \/ rq' = rq \/ rq' = [q \in Requests |-> Free]
               \/ \E q \in Requests : rq' = [rq EXCEPT ![q] = Free]
        PROVE  FALSE
    <3>1. DOMAIN rq = Requests
      BY <1>1 DEF IInv, RequestsInv
    <3>. QED  BY <2>1, <2>2, <3>1
  <2>3. PICK q \in Requests : Authenticate(q)
    <3>1. ASSUME NEW q \in Requests, Handle(q) PROVE rq' = [rq EXCEPT ![q] = Free]
      BY <3>1
      DEF Handle, BadRequest, RequestToken, Logout, SubscribeGET, SubscribePOST, SubscribeDELETE,
          EmailGET, EmailPOST, EmailPATCH, EmailDELETE,
          WebhookGET, WebhookPOST, WebhookPATCH, WebhookDELETE, Handles
    <3>2. Files \/ (\E p \in Paths : HijackLookup(p)) => rq' = rq
      BY DEF Files, UpdateFileRecords, UpdateDone, SetFileRecordOf, HijackLookup
    <3>. QED  BY <1>1, <2>2, <3>1, <3>2 DEF Next, vars, Environment, Challenge, Login, Restart
  <2>4. PICK c \in Clients, t \in Tokens, op \in Ops :
          /\ TokenType(c, t, op) # Nil
          /\ rq' = [rq EXCEPT ![q] =
                     [op |-> op, client |-> c, token |-> t, type |-> TokenType(c, t, op)]]
    BY <2>3 DEF Authenticate
  <2>5. t \in DOMAIN db.tokens
    BY <2>4 DEF TokenType, VerifyAPIToken, VerifyAuthToken, ValidJTI, Pick, M!ValidJTI, S!ValidJTI
  <2>6. rq'[r].token = t
    BY <2>1, <2>4 DEF IInv, RequestsInv
  <2>. QED  BY <1>1, <2>5, <2>6 DEF IInv, LoggedOutInv
<1>. QED  BY <1>1, DashboardInvariant, PTL DEF Spec, LogoutIsFinal

\* webpush.go:400, manager.go:205: for any schedules, failures, restarts and requests meanwhile, the
\* reports of a client are twelve hours apart, and the mails of an address nearly a day.
THEOREM ReportsAreSpaced == Spec => ReportSpacing
<1>1. IInv /\ [Next]_vars =>
        [Spaced(pushed, pushed', 12 * Hour) /\ Spaced(mailed, mailed', 23 * Hour)]_reportVars
  BY ReportsStep DEF IInv, SessionsInv, ReportsInv, RowsInv
<1>. QED  BY <1>1, DashboardInvariant, PTL DEF Spec, ReportSpacing

\* sql.go:660: with an SQL database, what a client subscribed to is changed by its own request only.
THEOREM ScopesKept == Spec => ScopesAreTheClients
<1>. DEFINE Changed(c) ==
              /\ c \in DOMAIN db.subscribes \cap DOMAIN db'.subscribes
              /\ db.subscribes[c].scopes # db'.subscribes[c].scopes
            Posted(c) ==
              \E r \in Requests : rq[r].op = "subscribe_POST" /\ rq[r].client = c /\ rq'[r] = Free
<1>1. ASSUME IInv, [Next]_vars, driver = "sql", NEW c, Changed(c) PROVE Posted(c)
  <2>1. TablesInv /\ RequestsInv /\ RowsInv
    BY <1>1 DEF IInv, RowsInv
  <2>2. db'["subscribes"] # db["subscribes"]
    BY <1>1
  <2>3. ASSUME NEW x, db'["subscribes"] \in {db["subscribes"], Drop(db["subscribes"], x)} PROVE FALSE
    BY <1>1, <2>3 DEF Drop, Restrict
  <2>4. CASE Notify
    <3>1. ASSUME NEW p \in Senders, NEW x \in Clients, RemoveOutdated(p, x) PROVE FALSE
      BY <2>1, <2>3, <3>1, RemoveEffect DEF RemoveOutdated
    <3>2. ASSUME NEW x \in Clients, WriteSent(x) PROVE FALSE
      <4>. DEFINE s == sender["report"]
                  rec == [s.sent[x] EXCEPT !.last = now]
      <4>1. x \in DOMAIN s.sent /\ Calls("update", "subscribes", x, SetSubscribe(x, FALSE, rec))
        BY <3>2 DEF WriteSent
      <4>2. rec \in SubscribeRow /\ rec.last # Never
        BY <2>1, <4>1 DEF RowsInv, RoundsInv, IsTable, SubscribeRow, Senders
      <4>. HIDE DEF rec
      <4>3. \/ db'["subscribes"] = db["subscribes"]
            \/ \E row : /\ db'["subscribes"] = Put(db["subscribes"], x, row)
                        /\ row.scopes = db["subscribes"][x].scopes
        <5>1. \/ db'["subscribes"] = db["subscribes"]
              \/ \E row \in SubscribeRow :
                   /\ db'["subscribes"] = Put(db["subscribes"], x, row)
                   /\ row.last = rec.last
                   /\ driver # "memory" => row.scopes = db["subscribes"][x].scopes
          BY <2>1, <4>1, <4>2, WriteEffect
        <5>. QED  BY <1>1, <5>1
      <4>. QED  BY <1>1, <4>3 DEF Put
    <3>3. \/ db' = db \/ \E p \in Senders, x \in Clients : RemoveOutdated(p, x)
          \/ \E x \in Clients : WriteSent(x)
      BY <2>4 DEF Notify, OnReportStatus, MailReport, OnEvent, EndSends
    <3>. QED  BY <2>2, <3>1, <3>2, <3>3
  <2>5. CASE Tick \/ Restart
    BY <1>1, <2>2, <2>5 DEF Tick, Restart, Reopen, Pick
  <2>6. ASSUME NEW r \in Requests, SubscribeDELETE(r) PROVE FALSE
    BY <2>1, <2>3, <2>6, RemoveEffect DEF SubscribeDELETE
  <2>7. ASSUME NEW r \in Requests, SubscribePOST(r) PROVE Posted(c)
    <3>1. Touches({"subscribes"}) /\ rq[r].client \in Clients
      BY <2>1, <2>7, SubscribeTouches
    <3>. DEFINE x == rq[r].client
    <3>p. PICK endpoint \in BOOLEAN, scopes \in SUBSET Scopes, at \in Schedules :
            Calls(IF endpoint THEN "set" ELSE "update", "subscribes", x,
                  SetSubscribe(x, endpoint, [scopes |-> scopes, at |-> at, last |-> Never]))
      BY <2>7 DEF SubscribePOST
    <3>2. R!Set("subscribes", x) \/ R!Update("subscribes", x)
      BY <2>1, <3>p, PostedSubscribe, TableNames DEF TablesInv, Called
    <3>3. Drop(db'["subscribes"], rq[r].client) = Drop(db["subscribes"], rq[r].client)
      BY <3>2, SameOperators DEF R!Set, R!Update, R!Call, R!Only
    <3>4. rq[r].client = c
      BY <1>1, <3>3 DEF Drop, Restrict
    <3>5. rq[r].op = "subscribe_POST" /\ rq'[r] = Free
      BY <2>1, <2>7 DEF SubscribePOST, Handles, RequestsInv
    <3>. QED  BY <3>4, <3>5
  <2>. QED  BY <2>1, <2>2, <2>4, <2>5, <2>6, <2>7, <1>1, ReportSteps DEF Apart
<1>2. IInv /\ [Next]_vars =>
        [driver = "sql" => \A c \in DOMAIN db.subscribes \cap DOMAIN db'.subscribes :
           db.subscribes[c].scopes # db'.subscribes[c].scopes => Posted(c)]_vars
  BY <1>1
<1>. QED  BY <1>2, DashboardInvariant, PTL DEF Spec, ScopesAreTheClients
=============================================================================
