------------------------------ MODULE Dashboard ------------------------------
(***************************************************************************)
(* The dashboard's API, api.go and api_token.go, over the database, with the *)
(* reports, the update of the file records and restarts beside it.            *)
(*                                                                          *)
(* A request is authenticated in one step and handled in another: between     *)
(* the two others are served, and what let it in may be gone.                *)
(***************************************************************************)
EXTENDS Reports

CONSTANTS
  Requests,      \* requests that are served at the same time
  Auths,         \* what a webhook authenticates itself with
  MaxRequests,   \* bound on the requests in all
  MaxRestarts,   \* bound on the restarts
  MaxUpdates     \* bound on the lists of files

VARIABLES
  rq,            \* the requests that were let in
  served,        \* requests so far
  challenge,     \* when the challenge of a client expires
  issued,        \* the claims of the tokens that clients hold
  ended,         \* history: the tokens that a logout has removed
  updating,      \* r.updating
  queue,         \* the records of UpdateFileRecords that are not set yet
  updates,       \* lists of files so far
  restarts       \* restarts so far

sessions == <<rq, served, challenge, issued, ended>>
files    == <<updating, queue, updates>>
vars == <<reportVars, sessions, files, restarts>>

ChallengeLife == 1
AuthLife == 24 * Hour
APILife  == 10

Free == [op |-> "none", client |-> Nil, token |-> Nil, type |-> Nil]

\* The operations that need a token: paths, and what may be done to them beside GET.
SubscribeOps == {"subscribe", "subscribe_POST", "subscribe_DELETE"}
EmailOps   == {"subscribe_email", "subscribe_email_POST", "subscribe_email_PATCH", "subscribe_email_DELETE"}
WebhookOps == {"webhook", "webhook_POST", "webhook_PATCH", "webhook_DELETE"}
Ops        == SubscribeOps \cup EmailOps \cup WebhookOps \cup {"requestToken", "logout"}
Gets       == {"subscribe", "subscribe_email", "webhook"}

Init ==
  /\ InitReports
  /\ rq = [r \in Requests |-> Free] /\ served = 0
  /\ challenge = [c \in Clients |-> Never]
  /\ issued = NoRows /\ ended = {}
  /\ updating = FALSE /\ queue = {} /\ updates = 0
  /\ restarts = 0
-----------------------------------------------------------------------------
(* Tokens *)

\* jwt.ParseWithClaims and the comparison of the client.
Holds(c, t, type) ==
  Has(issued, t) /\ issued[t].type = type /\ issued[t].client = c /\ now < issued[t].exp

VerifyAuthToken(c, t) == Holds(c, t, "auth") /\ ValidJTI(t, now)
VerifyAPIToken(c, t, op) == Holds(c, t, "api") /\ ValidJTI(t, now) /\ issued[t].path = op

\* Mutant of TokenType: the table of tokens is not asked.
TokenTypeByClaims(c, t, op) ==
  IF Holds(c, t, "auth") THEN "auth" ELSE IF op \in Gets /\ Holds(c, t, "api") THEN "api" ELSE Nil

TokenType(c, t, op) ==
  IF op \in Gets /\ VerifyAPIToken(c, t, op) THEN "api"
  ELSE IF VerifyAuthToken(c, t) THEN "auth" ELSE Nil

\* apiAuthHandle lets a request pass that has a type; of the others nothing comes.
Authenticate(r) ==
  /\ rq[r] = Free /\ served < MaxRequests
  /\ served' = served + 1
  /\ \E c \in Clients, t \in Tokens, op \in Ops :
       /\ TokenType(c, t, op) # Nil
       /\ rq' = [rq EXCEPT ![r] = [op |-> op, client |-> c, token |-> t, type |-> TokenType(c, t, op)]]
  /\ UNCHANGED <<reportVars, challenge, issued, ended, files, restarts>>

Challenge(c) ==
  /\ challenge' = [challenge EXCEPT ![c] = now + ChallengeLife]
  /\ UNCHANGED <<reportVars, rq, served, issued, ended, files, restarts>>

\* A new id goes into the table; the client gets its token if that succeeds.
Generate(c, type, exp, path) ==
  \E t \in Tokens \ (DOMAIN db.tokens \cup DOMAIN issued) :
    /\ Calls("add", "tokens", t, AddJTI(t, exp))
    /\ issued' = IF answer'.err = Nil
                 THEN Put(issued, t, [type |-> type, client |-> c, exp |-> exp, path |-> path])
                 ELSE issued

GenerateAuthToken(c) == Generate(c, "auth", now + AuthLife, Nil)
GenerateAPIToken(c)  == \E path \in Gets : Generate(c, "api", now + APILife, path)

VerifyChallenge(c) == now < challenge[c]

\* With the right name and password; a challenge may be used again while it lasts.
Login(c) ==
  /\ VerifyChallenge(c)
  /\ GenerateAuthToken(c)
  /\ UNCHANGED <<driver, now, reporting, rq, served, challenge, ended, files, restarts>>
-----------------------------------------------------------------------------
(* Handlers *)

\* What every handler leaves alone, and the end of the request.
Handles(r, op) ==
  /\ rq[r].op = op
  /\ rq' = [rq EXCEPT ![r] = Free]
  /\ UNCHANGED <<driver, now, nextReport, sender, mailing, mailed, served, challenge, files, restarts>>

Same == UNCHANGED <<pushed, issued, ended>>

RequestToken(r) ==
  /\ Handles(r, "requestToken")
  /\ rq[r].type = "auth"   \* it is a POST, and a token in the query is looked at for GET only
  /\ GenerateAPIToken(rq[r].client)
  /\ UNCHANGED <<pushed, ended>>

\* The error of RemoveJTI is not looked at; what is not there any more has ended too.
Logout(r) ==
  /\ Handles(r, "logout")
  /\ Calls("remove", "tokens", rq[r].token, RemoveJTI(rq[r].token))
  /\ ended' = IF answer'.err = "failed" THEN ended ELSE ended \cup {rq[r].token}
  /\ UNCHANGED <<pushed, issued>>

SubscribeGET(r) ==
  /\ Handles(r, "subscribe")
  /\ Calls("get", "subscribes", rq[r].client, GetSubscribe(rq[r].client))
  /\ Same

\* The client has a subscription of its own making: what was sent under the last counts no more.
Renews(c) == pushed' = [pushed EXCEPT ![c] = Never] /\ UNCHANGED <<issued, ended>>

\* A body without an endpoint changes the subscription that is there.
SubscribePOST(r) ==
  /\ Handles(r, "subscribe_POST")
  /\ \E endpoint \in BOOLEAN, scopes \in SUBSET Scopes, at \in Schedules :
       Calls(IF endpoint THEN "set" ELSE "update", "subscribes", rq[r].client,
             SetSubscribe(rq[r].client, endpoint, [scopes |-> scopes, at |-> at, last |-> Never]))
  /\ Renews(rq[r].client)

SubscribeDELETE(r) ==
  /\ Handles(r, "subscribe_DELETE")
  /\ Calls("remove", "subscribes", rq[r].client, RemoveSubscribe(rq[r].client))
  /\ Renews(rq[r].client)

EmailGET(r) ==
  /\ Handles(r, "subscribe_email")
  /\ \/ \E a \in Addrs : Calls("get", "emails", a, GetEmail(a))
     \/ Calls("list", "emails", Nil, ListEmails)
  /\ Same

EmailPOST(r) ==
  /\ Handles(r, "subscribe_email_POST")
  /\ \E a \in Addrs, scopes \in SUBSET {"dailyreport"}, enabled \in BOOLEAN :
       Calls("add", "emails", a, AddEmail(a, [scopes |-> scopes, enabled |-> enabled]))
  /\ Same

EmailPATCH(r) ==
  /\ Handles(r, "subscribe_email_PATCH")
  /\ \E a \in Addrs, scopes \in SUBSET {"dailyreport"} : Calls("update", "emails", a, UpdateEmail(a, scopes))
  /\ Same

EmailDELETE(r) ==
  /\ Handles(r, "subscribe_email_DELETE")
  /\ \E a \in Addrs : Calls("remove", "emails", a, RemoveEmail(a))
  /\ Same

WebhookGET(r) ==
  /\ Handles(r, "webhook")
  /\ \/ \E h \in Hooks : Calls("get", "webhooks", h, GetWebhook(h))
     \/ Calls("list", "webhooks", Nil, ListWebhooks)
  /\ Same

WebhookPOST(r) ==
  /\ Handles(r, "webhook_POST")
  /\ \E h \in Hooks, auth \in Auths \cup {Nil} : Calls("add", "webhooks", h, AddWebhook(h, auth))
  /\ Same

WebhookPATCH(r) ==
  /\ Handles(r, "webhook_PATCH")
  /\ \E h \in Hooks, auth \in Auths \cup {Nil} : Calls("update", "webhooks", h, UpdateWebhook(h, auth))
  /\ Same

WebhookDELETE(r) ==
  /\ Handles(r, "webhook_DELETE")
  /\ \E h \in Hooks : Calls("remove", "webhooks", h, RemoveWebhook(h))
  /\ Same

\* A body that does not parse, an id that is none: 400.
BadRequest(r) ==
  /\ rq[r].op \in Ops \ (Gets \cup {"logout", "subscribe_DELETE"})
  /\ Handles(r, rq[r].op)
  /\ UNCHANGED <<db, answer, failures>> /\ Same

Handle(r) ==
  \/ BadRequest(r)
  \/ RequestToken(r) \/ Logout(r)
  \/ SubscribeGET(r) \/ SubscribePOST(r) \/ SubscribeDELETE(r)
  \/ EmailGET(r) \/ EmailPOST(r) \/ EmailPATCH(r) \/ EmailDELETE(r)
  \/ WebhookGET(r) \/ WebhookPOST(r) \/ WebhookPATCH(r) \/ WebhookDELETE(r)
-----------------------------------------------------------------------------
(* File records *)

FileRecords == [path : Paths, hash : Hashes]

\* Main's goroutine for a list of files, with those that are new; a second one gives up.
UpdateFileRecords ==
  /\ updates < MaxUpdates
  /\ updates' = updates + 1
  /\ updating' = TRUE
  /\ queue' \in IF updating THEN {queue}
                ELSE {Q \in SUBSET FileRecords : \A f, g \in Q : f.path = g.path => f = g}
  /\ UNCHANGED <<reportVars, sessions, restarts>>

\* Its goroutines, as many as the semaphore lets run.
SetFileRecordOf(f) ==
  /\ f \in queue
  /\ Calls("set", "files", f.path, SetFileRecord(f.path, f.hash))
  /\ queue' = queue \ {f}
  /\ UNCHANGED <<driver, now, reporting, sessions, updating, updates, restarts>>

UpdateDone ==
  /\ updating /\ queue = {}
  /\ updating' = FALSE
  /\ UNCHANGED <<reportVars, sessions, queue, updates, restarts>>

\* The hijacker looks a path up.
HijackLookup(p) ==
  /\ Calls("get", "files", p, GetFileRecord(p))
  /\ UNCHANGED <<driver, now, reporting, sessions, files, restarts>>

Files == UpdateFileRecords \/ UpdateDone \/ \E f \in FileRecords : SetFileRecordOf(f)

\* The key of the tokens is in a file, so that clients still hold theirs.
Restart ==
  /\ restarts < MaxRestarts
  /\ restarts' = restarts + 1
  /\ Reopen
  /\ pushed' = IF driver = "memory" \/ sender["report"] # Idle
               THEN [c \in Clients |-> Never] ELSE pushed
  /\ mailed' = [a \in Addrs |-> Never]
  /\ nextReport' = 0 /\ mailing' = FALSE
  /\ sender' = [p \in Senders |-> Idle]
  /\ rq' = [r \in Requests |-> Free]
  /\ updating' = FALSE /\ queue' = {}
  /\ UNCHANGED <<driver, now, failures, served, challenge, issued, ended, updates>>

Environment == UNCHANGED <<sessions, files, restarts>>

Next ==
  \/ (Notify \/ Tick) /\ Environment
  \/ \E r \in Requests : Authenticate(r) \/ Handle(r)
  \/ \E c \in Clients : Challenge(c) \/ Login(c)
  \/ Files \/ \E p \in Paths : HijackLookup(p)
  \/ Restart

Spec == Init /\ [][Next]_vars
-----------------------------------------------------------------------------
(* Properties *)

\* The type invariant of the dashboard, of the reports and of the tables.
TypeOK ==
  /\ ReportsTypeOK
  /\ IsDB(db, Moments \cup {t + life : t \in Moments, life \in {AuthLife, APILife}}, Schedules)
  /\ \A r \in Requests :
       rq[r] = Free \/ /\ rq[r].client \in Clients /\ rq[r].token \in Tokens
                       /\ rq[r].op \in Ops /\ rq[r].type \in {"auth", "api"}
  /\ DOMAIN issued \subseteq Tokens /\ ended \subseteq DOMAIN issued
  /\ updating \in BOOLEAN /\ queue \subseteq FileRecords /\ (queue # {} => updating)

\* sql.go:424: the new record of a file is answered without an error and is not there afterwards.
FileRecordLost ==
  /\ driver = "sql"
  /\ \E p \in Paths :
       /\ R!Call("set", "files", p) /\ answer'.err = Nil
       /\ ~Has(db.files, p) /\ ~Has(db'.files, p)

\* db.go:41-79, sql.go:640: whichever database is configured, and whatever fails or runs at the same
\* time, an operation touches no row but its own, and what it answered is what the table says.
\* One operation does not keep this, and only in the one way that is named.
ImplementsRecordMap == R!Init /\ [][R!Next \/ FileRecordLost]_(R!mapVars)

\* api.go:401, api_token.go:189: a token that a logout has removed lets no request in, in either
\* database, also if the process is restarted or another logout of it is under way.
LogoutIsFinal ==
  [][\A r \in Requests : rq[r] = Free /\ rq'[r] # Free => rq'[r].token \notin ended]_vars

\* db.go:87, webpush.go:406, sql.go:660: what a client has subscribed to is not changed by the
\* report that writes down what it knew of it.  (Of memory.go it is not true.)
ScopesAreTheClients ==
  [][driver = "sql" => \A c \in DOMAIN db.subscribes \cap DOMAIN db'.subscribes :
       db.subscribes[c].scopes # db'.subscribes[c].scopes =>
         \E r \in Requests : rq[r].op = "subscribe_POST" /\ rq[r].client = c /\ rq'[r] = Free]_vars
=============================================================================
