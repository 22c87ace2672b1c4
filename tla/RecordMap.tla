------------------------------ MODULE RecordMap ------------------------------
(***************************************************************************)
(* What the interface DB of database/db.go promises whoever uses it: tables   *)
(* that map a key to a row.  An operation touches the row it names, if any,   *)
(* and its error tells what has become of it; an error that is the database's *)
(* ("failed") leaves it open whether the operation took place.                *)
(***************************************************************************)
EXTENDS Records

VARIABLES
  db,      \* the tables
  answer   \* the last operation and its error

mapVars == <<db, answer>>

Answer(op, table, k, err) == [op |-> op, table |-> table, key |-> k, err |-> err]
NoAnswer == Answer("none", Nil, Nil, Nil)

Init == db = Empty /\ answer = NoAnswer

\* No row but this one changes.
Only(table, k) ==
  /\ DOMAIN db' = DOMAIN db
  /\ \A other \in DOMAIN db \ {table} : db'[other] = db[other]
  /\ Drop(db'[table], k) = Drop(db[table], k)

Call(op, table, k) == Only(table, k) /\ answer' = Answer(op, table, k, answer'.err)

\* The operation refused: nothing has changed.
Refuses(errors) == answer'.err \in errors => db' = db

Get(table, k) ==
  /\ Call("get", table, k)
  /\ db' = db
  /\ answer'.err = Nil => Has(db[table], k)
  /\ answer'.err = "notFound" => ~Has(db[table], k)

\* ForEach over the rows of a user: no key, no change.
List(table) == Call("list", table, Nil) /\ db' = db

\* A row is new; a row that is there stays as it is.
Add(table, k) ==
  /\ Call("add", table, k)
  /\ Has(db[table], k) => db' = db /\ answer'.err # Nil
  /\ answer'.err = Nil => Has(db'[table], k)
  /\ Refuses({"exists", "notFound", "panic"})

\* A row is new or replaced, never removed: without an error it is there.
Set(table, k) ==
  /\ Call("set", table, k)
  /\ Has(db[table], k) \/ answer'.err = Nil => Has(db'[table], k)
  /\ Refuses({"exists", "notFound", "panic"})

\* No row appears or goes.  That there was none to change may be told or not.
Update(table, k) ==
  /\ Call("update", table, k)
  /\ DOMAIN db'[table] = DOMAIN db[table]
  /\ Refuses({"exists", "notFound", "panic"})

Remove(table, k) ==
  /\ Call("remove", table, k)
  /\ Has(db'[table], k) => db' = db
  /\ answer'.err = Nil => ~Has(db'[table], k)
  /\ Refuses({"exists", "notFound", "panic"})

\* The process starts again: the tables were its own, or are still there.
Restart == db' \in {db, Empty} /\ answer' = NoAnswer

Keys(table) == CASE table = "tokens" -> Tokens
                 [] table = "files" -> Paths
                 [] table = "subscribes" -> Clients
                 [] table = "emails" -> Addrs
                 [] table = "webhooks" -> Hooks

Next ==
  \/ \E table \in DOMAIN Empty : \E k \in Keys(table) :
       Get(table, k) \/ Add(table, k) \/ Set(table, k) \/ Update(table, k) \/ Remove(table, k)
  \/ \E table \in DOMAIN Empty : List(table)
  \/ Restart

Spec == Init /\ [][Next]_mapVars
=============================================================================
