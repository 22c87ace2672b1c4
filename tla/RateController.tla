--------------------------- MODULE RateController ---------------------------
(***************************************************************************)
(* RateController of limited/limited_conn.go with the streams it limits:     *)
(* connections accepted or dialled, readers and writers opened with DoReader  *)
(* and DoWriter.                                                              *)
(*                                                                           *)
(* Bytes are counted in windows of one second, for all streams together.  A   *)
(* read is granted a share before the bytes come and settled afterwards; a    *)
(* write is granted, and counted, at once.  Who goes over the budget sleeps    *)
(* before its next call, so the limit is kept by each stream for itself, with *)
(* the lock held only to count.                                               *)
(*                                                                           *)
(* Every stream is a LimitedConn here; LimitedReader and LimitedWriter are     *)
(* the same code without deadlines.  A stream is opened once.  A sleep may      *)
(* last longer than asked.  Left out: the path of ReadFrom around the limits,  *)
(* for a connection that is no ReaderFrom.                                    *)
(***************************************************************************)
EXTENDS Semaphore, FiniteSets

CONSTANTS
  Streams,
  Dialled,                \* those opened with a context: DoWithContext
  ReadRate, WriteRate,    \* naturals, 0 for no limit
  MinReadRate,            \* of a stream once the budget is used up
  MinWriteRate,           \* of a stream once the budget is used up, at least 1
  ReadSizes, WriteSizes,  \* sizes of the calls' buffers
  CopySizes,              \* sizes of what is copied with ReadFrom
  Copies,                 \* "copy": from a source of known size, "pipe": it is not known
  Second, MaxTime,        \* ticks of a second, and the bound on the clock
  Deadlines               \* times set as deadlines

Never == -1

VARIABLES
  now, closed,
  stream,         \* where opening and closing each stream is
  reads, writes,  \* the windows of the controller
  reader, writer, \* the call of Read, and of Write or ReadFrom, on each stream
  got, sent       \* history: bytes that calls were given in each window

vars == <<used, now, closed, stream, reads, writes, reader, writer, got, sent>>

Idle == [stage |-> "idle", op |-> "none", want |-> 0, until |-> 0, late |-> FALSE, grant |-> 0,
         after |-> Never, deadline |-> Never]

Init ==
  /\ used = 0 /\ now = Second /\ closed = FALSE
  /\ stream = [s \in Streams |-> "new"]
  /\ reads = [last |-> 0, pre |-> 0, count |-> 0]
  /\ writes = [last |-> 0, wrote |-> 0]
  /\ reader = [s \in Streams |-> Idle] /\ writer = [s \in Streams |-> Idle]
  /\ got = 0 /\ sent = 0

Smaller(a, b) == IF a < b THEN a ELSE b

-----------------------------------------------------------------------------
(* Opening and closing. *)

calls == <<now, reads, writes, reader, writer, got, sent>>

Moves(s, from, to) == stream[s] = from /\ stream' = [stream EXCEPT ![s] = to]

Open(s) == Moves(s, "new", "acquiring") /\ UNCHANGED <<used, closed, calls>>

Acquires(s) == Moves(s, "acquiring", "opening") /\ Acquire /\ UNCHANGED <<closed, calls>>

\* closeCh is closed, or the context is done.
Refused(s) ==
  /\ closed \/ s \in Dialled
  /\ Moves(s, "acquiring", "closed")
  /\ UNCHANGED <<used, closed, calls>>

Opened(s) == Moves(s, "opening", "open") /\ UNCHANGED <<used, closed, calls>>

OpenFails(s) == Moves(s, "opening", "closed") /\ Release /\ UNCHANGED <<closed, calls>>

\* A stream closed again releases nothing.
CloseStream(s) == Moves(s, "open", "closed") /\ Release /\ UNCHANGED <<closed, calls>>

\* Close: does not touch the streams that are open.
Close == ~closed /\ closed' = TRUE /\ UNCHANGED <<used, stream, calls>>

-----------------------------------------------------------------------------
(* Counting.  Each of these runs with the lock of its direction held.           *)

HasShare == SlotsTaken > 0
Share == IF HasShare THEN ReadRate \div SlotsTaken ELSE ReadRate

\* What is left of the second that began at last.
Rest(last) == last + Second - now

\* preRead: the window after it, and the bytes granted.
PreRead(n) ==
  LET m == Smaller(n, Share)
      w == IF Rest(reads.last) <= 0 THEN [last |-> now, pre |-> 0, count |-> 0] ELSE reads
  IN  IF ReadRate = 0 THEN [window |-> reads, m |-> n]
      ELSE IF w.pre >= ReadRate THEN [window |-> w, m |-> Smaller(MinReadRate, m)]
      ELSE [window |-> [w EXCEPT !.pre = @ + m], m |-> m]

\* The window after a read, and how long its stream is to sleep: a second after its whole
\* share, else while the window is busy.
Settled(n, less, busy(_)) ==
  LET m == Smaller(n, Share)
      w == IF Rest(reads.last) <= 0 THEN [last |-> now, pre |-> 0, count |-> m]
           ELSE [reads EXCEPT !.pre = @ - less, !.count = @ + m]
  IN  IF ReadRate = 0 THEN [window |-> reads, pause |-> 0]
      ELSE [window |-> w,
            pause  |-> IF m >= Share THEN Second ELSE IF busy(w) THEN Rest(reads.last) ELSE 0]

\* Mutant of AfterRead: only a read of its whole share makes the stream sleep.
AfterReadOfShare(n, less) == Settled(n, less, LAMBDA w : FALSE)

\* afterRead: the window after it, and how long the stream is to sleep.
AfterRead(n, less) == Settled(n, less, LAMBDA w : w.count >= ReadRate)

\* preWrite.
PreWrite(n) ==
  LET fresh == Rest(writes.last) <= 0
      w == IF fresh THEN [last |-> now, wrote |-> 0] ELSE writes
  IN  IF WriteRate = 0 THEN [window |-> writes, m |-> n, pause |-> 0]
      ELSE IF w.wrote >= WriteRate
      THEN [window |-> w, m |-> Smaller(MinWriteRate, n), pause |-> Rest(writes.last)]
      ELSE IF n > WriteRate
      THEN [window |-> [w EXCEPT !.wrote = @ + WriteRate], m |-> WriteRate, pause |-> Second]
      ELSE [window |-> [w EXCEPT !.wrote = @ + n], m |-> n, pause |-> 0]

-----------------------------------------------------------------------------
(* A call sleeps until the time its stream was given, unless a deadline comes      *)
(* first.                                                                          *)

NotBefore(pause) == IF pause > 0 THEN now + pause ELSE Never

\* The call c, of op, with n bytes to go.
Sleeps(c, op, n) ==
  LET late == c.after > now /\ c.deadline # Never /\ c.deadline < c.after
  IN  [c EXCEPT !.stage = "asleep", !.op = op, !.want = n, !.grant = 0, !.late = late,
                !.until = IF late THEN c.deadline ELSE c.after]

Awake(c) == c.stage = "asleep" /\ now >= c.until

Ended(c) == [Idle EXCEPT !.after = c.after, !.deadline = c.deadline]

\* SetReadDeadline and SetWriteDeadline.
SetDeadline(s, t) ==
  /\ stream[s] = "open" /\ t \in Deadlines
  /\ \/ reader' = [reader EXCEPT ![s].deadline = t] /\ UNCHANGED writer
     \/ writer' = [writer EXCEPT ![s].deadline = t] /\ UNCHANGED reader
  /\ UNCHANGED <<used, now, closed, stream, reads, writes, got, sent>>

readVars  == <<reads, reader, got>>
writeVars == <<writes, writer, sent>>
others    == <<used, now, closed, stream>>

Read(s, n) ==
  /\ stream[s] = "open" /\ reader[s].stage = "idle"
  /\ reader' = [reader EXCEPT ![s] = Sleeps(@, "read", n)]
  /\ UNCHANGED <<others, reads, got, writeVars>>

ReadTimesOut(s) ==
  /\ Awake(reader[s]) /\ reader[s].late
  /\ reader' = [reader EXCEPT ![s] = Ended(@)]
  /\ UNCHANGED <<others, reads, got, writeVars>>

ReadGranted(s) ==
  LET p == PreRead(reader[s].want)
  IN  /\ Awake(reader[s]) /\ ~reader[s].late
      /\ reads' = p.window
      /\ reader' = [reader EXCEPT ![s].stage = "busy", ![s].grant = p.m]
      /\ got' = IF p.window.last = reads.last THEN got ELSE 0
      /\ UNCHANGED <<others, writeVars>>

\* The stream below returns n bytes, fewer than granted or none on an error.
ReadReturns(s, n) ==
  LET a == AfterRead(n, reader[s].grant - n)
  IN  /\ reader[s].stage = "busy"
      /\ reads' = a.window
      /\ reader' = [reader EXCEPT ![s] = Ended([@ EXCEPT !.after = NotBefore(a.pause)])]
      /\ got' = n + IF a.window.last = reads.last THEN got ELSE 0
      /\ UNCHANGED <<others, writeVars>>

\* Write gives all its n bytes, ReadFrom the n bytes of its source.
Write(s, op, n) ==
  /\ stream[s] = "open" /\ writer[s].stage = "idle"
  /\ writer' = [writer EXCEPT ![s] = Sleeps(@, op, n)]
  /\ UNCHANGED <<others, writes, sent, readVars>>

WriteTimesOut(s) ==
  /\ Awake(writer[s]) /\ writer[s].late
  /\ writer' = [writer EXCEPT ![s] = Ended(@)]
  /\ UNCHANGED <<others, writes, sent, readVars>>

WriteGranted(s) ==
  LET c == writer[s]
      p == PreWrite(IF c.op = "pipe" \/ c.want = 0 THEN MinWriteRate ELSE c.want)
  IN  /\ Awake(c) /\ ~c.late
      /\ writes' = p.window
      /\ writer' = [writer EXCEPT ![s].stage = "busy", ![s].grant = p.m,
                                  ![s].after = NotBefore(p.pause)]
      /\ sent' = p.m + IF p.window.last = writes.last THEN sent ELSE 0
      /\ UNCHANGED <<others, readVars>>

\* All that was granted is written.  A Write ends with its last byte, a ReadFrom when its
\* source gives less than was granted.
WriteReturns(s) ==
  LET c == writer[s]
      left == c.want - c.grant
      more == IF c.op = "write" THEN left > 0 ELSE left >= 0
  IN  /\ c.stage = "busy"
      /\ writer' = [writer EXCEPT ![s] = IF more THEN Sleeps(c, c.op, left) ELSE Ended(c)]
      /\ UNCHANGED <<others, writes, sent, readVars>>

WriteFails(s) ==
  /\ writer[s].stage = "busy"
  /\ writer' = [writer EXCEPT ![s] = Ended(@)]
  /\ UNCHANGED <<others, writes, sent, readVars>>

Tick == now < MaxTime /\ now' = now + 1
        /\ UNCHANGED <<used, closed, stream, readVars, writeVars>>

Next ==
  \/ Close \/ Tick
  \/ \E s \in Streams :
       \/ Open(s) \/ Acquires(s) \/ Refused(s) \/ Opened(s) \/ OpenFails(s) \/ CloseStream(s)
       \/ \E t \in Deadlines : SetDeadline(s, t)
       \/ \E n \in ReadSizes : Read(s, n)
       \/ ReadTimesOut(s) \/ ReadGranted(s)
       \/ \E n \in 0 .. reader[s].grant : ReadReturns(s, n)
       \/ \E n \in WriteSizes : Write(s, "write", n)
       \/ \E n \in CopySizes, op \in Copies : Write(s, op, n)
       \/ WriteTimesOut(s) \/ WriteGranted(s) \/ WriteReturns(s) \/ WriteFails(s)

Spec == Init /\ [][Next]_vars

-----------------------------------------------------------------------------
\* Limits keep within a window of the budget: a window brings the streams less than the
\* budget and one share for each of them, though grants overlap, fall short, outlive their
\* window and are counted by the shares of another moment (limited_conn.go:136); and it
\* lets them write less than twice the budget and one smallest chunk each
\* (limited_conn.go:178).
RateKept ==
  /\ ReadRate > 0 => got < (Cardinality(Streams) + 1) * ReadRate
  /\ WriteRate > 0 => sent < 2 * WriteRate + Cardinality(Streams) * MinWriteRate
=============================================================================
