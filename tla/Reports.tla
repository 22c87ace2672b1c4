------------------------------- MODULE Reports -------------------------------
(***************************************************************************)
(* notify/manager.go with its plugins webpush and email: events and the      *)
(* daily report, sent to who subscribed to them.                             *)
(*                                                                          *)
(* Each keep-alive calls OnReportStatus in a goroutine of its own.  A plugin   *)
(* looks up who is to be told, sends without a lock, and afterwards removes   *)
(* the subscriptions the push service refused and writes down when each       *)
(* client had its report.  Meanwhile requests change the same rows.           *)
(* Time is in minutes since a midnight; the deadlines of a round (15 seconds   *)
(* for the pushes, about a minute for the mails) are shorter than a tick.      *)
(***************************************************************************)
EXTENDS Database

CONSTANTS
  Schedules,     \* times of the day at which clients want their report
  Start,         \* when the program is started
  Times,         \* the later times at which something may happen
  MaxFailures    \* bound on the calls in which an SQL database fails

\* What Schedule.UnmarshalText accepts.
ASSUME SchedulesAssumption == Schedules \subseteq 0 .. 24 * 60 - 1
ASSUME TimesAssumption == Start \in Nat \ {0} /\ Times \subseteq Nat /\ MaxFailures \in Nat

VARIABLES
  now,           \* the time
  failures,      \* calls the database has failed in
  nextReport,    \* m.nextReportAfter, 0 before the first round
  sender,        \* webpush.sendMessageIf: of the report, and of another event
  mailing,       \* the email plugin of the round has not sent yet
  pushed,        \* history: the latest report to a client, while its subscription and what
                 \* is known of it stay
  mailed         \* history: the latest report mailed to an address by this process

reporting == <<nextReport, sender, mailing, pushed, mailed>>
reportVars == <<driver, db, answer, now, failures, reporting>>

Hour == 60
Day  == 24 * Hour

Moments == {Start} \cup Times

Senders == {"report", "event"}
Idle == [stage |-> "idle", sent |-> NoRows, outdated |-> {}]

\* Between two rounds: reportMux is free.
Resting == sender["report"] = Idle /\ ~mailing

InitReports ==
  /\ driver \in Drivers
  /\ db = Empty /\ answer = R!NoAnswer
  /\ now = Start /\ failures = 0
  /\ nextReport = 0
  /\ sender = [p \in Senders |-> Idle]
  /\ mailing = FALSE
  /\ pushed = [c \in Clients |-> Never] /\ mailed = [a \in Addrs |-> Never]

\* One of the outcomes of a call, and the count of failures.
Calls(op, table, k, outcomes) ==
  \E o \in outcomes :
    /\ o.fault => failures < MaxFailures
    /\ failures' = IF o.fault THEN failures + 1 ELSE failures
    /\ Did(op, table, k, o)

MinuteOfDay(t) == t % Day

\* Schedule.ReadySince.  Without a last report it counts as one just less than a day ago.
ReadySince(at, last, t) ==
  LET elapsed == IF last = Never THEN Day - 1 ELSE t - last
      hour    == MinuteOfDay(t) \div Hour
      minute  == MinuteOfDay(t) % Hour
      atHour  == at \div Hour
  IN  /\ elapsed >= 12 * Hour
      /\ \/ elapsed >= Day
         \/ atHour < hour /\ atHour + 3 > hour
         \/ atHour = hour /\ at % Hour <= minute

\* Mutant of NextReportAfter: the round after the next quarter, as from now.
NextReportSoon(t) == (t \div 15) * 15 + 15

NextReportAfter(t) == ((t + 8) \div 15) * 15 + 30

\* What is left to do once the messages are sent.
After(sent, outdated) ==
  IF DOMAIN sent = {} /\ outdated = {} THEN Idle
  ELSE [stage |-> "after", sent |-> sent, outdated |-> outdated]

Sends(p, rows, filter) ==
  sender' = [sender EXCEPT ![p] = [stage |-> "sending", sent |-> Restrict(rows, filter), outdated |-> {}]]

\* A record is taken as sent when it passes the filter, before its message goes.
OnReportStatus ==
  /\ Resting
  /\ now >= nextReport
  /\ nextReport' = NextReportAfter(now)
  /\ \E rows \in ForEachSubscribe :
       LET ready == {c \in DOMAIN rows : /\ "dailyreport" \in rows[c].scopes
                                         /\ ReadySince(rows[c].at, rows[c].last, now)}
       IN  /\ Sends("report", rows, ready)
           /\ pushed' = [c \in Clients |-> IF c \in ready THEN now ELSE pushed[c]]
  /\ mailing' = TRUE
  /\ UNCHANGED <<driver, db, answer, now, failures, mailed>>

\* The email plugin: in the first half of the hour from ten in the evening, to who is enabled.
MailReport ==
  /\ mailing
  /\ mailing' = FALSE
  /\ \E addrs \in ForEachEnabledEmail :
       mailed' = [a \in Addrs |->
         IF /\ a \in addrs /\ "dailyreport" \in db.emails[a].scopes
            /\ MinuteOfDay(now) \div Hour = 22 /\ MinuteOfDay(now) % Hour < 30
         THEN now ELSE mailed[a]]
  /\ UNCHANGED <<driver, db, answer, now, failures, nextReport, sender, pushed>>

\* Any other event; the calls for the cluster's being enabled stand for all.
OnEvent ==
  /\ sender["event"] = Idle
  /\ \E rows \in ForEachSubscribe :
       Sends("event", rows, {c \in DOMAIN rows : "enabled" \in rows[c].scopes})
  /\ UNCHANGED <<driver, db, answer, now, failures, nextReport, mailing, pushed, mailed>>

\* All messages are answered, some with 403.
EndSends(p) ==
  /\ sender[p].stage = "sending"
  /\ \E refused \in SUBSET DOMAIN sender[p].sent :
       sender' = [sender EXCEPT ![p] =
                    After(IF p = "report" THEN sender[p].sent ELSE NoRows, refused)]
  /\ UNCHANGED <<driver, db, answer, now, failures, nextReport, mailing, pushed, mailed>>

RemoveOutdated(p, c) ==
  /\ c \in sender[p].outdated
  /\ Calls("remove", "subscribes", c, RemoveSubscribe(c))
  /\ sender' = [sender EXCEPT ![p] = After(@.sent, @.outdated \ {c})]
  /\ UNCHANGED <<driver, now, nextReport, mailing, pushed, mailed>>

\* The record of the lookup without its endpoint, with the time of this report: no row is made.
WriteSent(c) ==
  LET s == sender["report"] IN
  /\ s.stage = "after" /\ s.outdated = {} /\ c \in DOMAIN s.sent
  /\ Calls("update", "subscribes", c, SetSubscribe(c, FALSE, [s.sent[c] EXCEPT !.last = now]))
  /\ pushed' = IF answer'.err = "failed" THEN [pushed EXCEPT ![c] = Never] ELSE pushed
  /\ sender' = [sender EXCEPT !["report"] = After(Drop(s.sent, c), {})]
  /\ UNCHANGED <<driver, now, nextReport, mailing, mailed>>

\* Time passes between the rounds; the cluster may be off line for most of it.
Tick ==
  /\ Resting /\ sender["event"] = Idle
  /\ \E t \in Times : t > now /\ now' = t
  /\ UNCHANGED <<driver, db, answer, failures, reporting>>

Notify ==
  \/ OnReportStatus \/ MailReport \/ OnEvent
  \/ \E p \in Senders : EndSends(p) \/ \E c \in Clients : RemoveOutdated(p, c)
  \/ \E c \in Clients : WriteSent(c)

ReportsTypeOK ==
  /\ driver \in Drivers
  /\ now \in Moments /\ failures \in 0 .. MaxFailures
  /\ nextReport \in {0} \cup {NextReportAfter(t) : t \in Moments}
  /\ \A p \in Senders :
       /\ sender[p].stage \in {"idle", "sending", "after"}
       /\ DOMAIN sender[p].sent \subseteq Clients /\ sender[p].outdated \subseteq Clients
  /\ mailing \in BOOLEAN
  /\ pushed \in [Clients -> {Never} \cup Moments]
  /\ mailed \in [Addrs -> {Never} \cup Moments]

\* webpush.go:400, db.go:283, manager.go:205: a client whose subscription stays as it is, and whose
\* last report could be written down, has its reports at least twelve hours apart; an address has
\* one mail a day as long as the program is not restarted.
Spaced(before, after, minutes) ==
  \A k \in DOMAIN before :
    before[k] # after[k] /\ before[k] # Never /\ after[k] # Never => after[k] - before[k] >= minutes

ReportSpacing == [][Spaced(pushed, pushed', 12 * Hour) /\ Spaced(mailed, mailed', 23 * Hour)]_reportVars
=============================================================================
