---------------------------- MODULE WebdavProofs ----------------------------
(***************************************************************************)
(* For any number of requests, checks, walks, directories and slots: every   *)
(* slot has one owner, a walk that ends is complete, and the checks are       *)
(* spaced and strand no flag.                                                *)
(***************************************************************************)
EXTENDS WebdavStorage, FiniteSetTheorems, TLAPS

-----------------------------------------------------------------------------
(* What goroutines do.  The definitions take a table of jobs: a step that frees a         *)
(* connection changes it twice.                                                       *)

\* The operations that come through each stage.
OpsAt(stage) ==
  CASE stage = "idle" -> {"none"}
    [] stage \in {"enter", "peek", "renew", "serve"} -> {"serve"}
    [] stage = "lock" -> {"check"}
    [] stage \in {"stat", "putConn", "put"} -> {"serve", "check", "measure"}
    [] stage = "get" -> {"serve", "check"}
    [] stage \in {"slot", "last"} -> {"serve", "size", "open"}
    [] stage = "ask" -> {"measure", "create"}
    [] stage = "conn" -> {"serve", "measure", "create"}
    [] stage = "busy" -> Ops

JobType == [op : Ops \cup {"none", "check"}, stage : Stages,
            hash : Hashes \cup {"none"}, at : Nat, saw : Nat]

\* A job that goroutine t may have.  One that is to begin a check has found the last one old.
Fits(t, r) ==
  /\ r \in JobType /\ r.op \in OpsAt(r.stage)
  /\ r.op = "check" => t \in Checkers
  /\ r.op \in Ops => r.hash \in Hashes
  /\ t \in Checkers => r.op \in {"none", "check"}
  /\ r.stage = "lock" => r.at - r.saw > Interval

Jobs(j) == j = [t \in Threads |-> j[t]] /\ \A t \in Threads : Fits(t, j[t])

JobInv == Jobs(job)

\* A request whose check is under way.
Checking(r) == r.op = "serve" /\ r.stage \in {"renew", "stat", "putConn", "put", "get"}

\* The connections for which a goroutine in a stage has not asked yet.
Undialled(stage) ==
  CASE stage \in {"enter", "peek", "renew", "lock", "stat"} -> Waits
    [] stage \in {"putConn", "put", "get", "serve", "slot", "ask"} -> {"conn"}
    [] OTHER -> {}

DialInv == \A t \in Threads : \A k \in Undialled(job[t].stage) : dial[t][k] = "no"

\* The slots a job has: of its own, and of its connection.
Owns(r)  == r.op \in {"serve", "size", "open"} /\ r.stage \in {"conn", "busy", "last"}
Wired(r) == r.stage = "put" \/ (r.stage = "busy" /\ r.op \in {"serve", "measure", "create"})
One(b)   == IF b THEN 1 ELSE 0
Weight(r) == One(Owns(r)) + One(Wired(r))

Owners(j) == {t \in Threads : Owns(j[t])}
OnConns(j) == {t \in Threads : Wired(j[t])}
JobSlots(j) == Cardinality(Owners(j)) + Cardinality(OnConns(j))

\* Connections being dialled, and directories being listed.
Dials(D) == {p \in Threads \X Waits : D[p[1]][p[2]] = "dialing"}
Holding == {"list", "send", "last"}
Holders(L) == {p \in Walks \X Dirs : L[p[1]][p[2]].stage \in Holding}

BalanceInv ==
  MaxConn > 0 =>
    used = JobSlots(job) + idle + Cardinality(Dials(dial)) + Cardinality(Holders(lister))

-----------------------------------------------------------------------------
(* Walks *)

\* The directories of which the entry of done is not taken out yet.
Pending(w) == {d \in Dirs : lister[w][d].stage \in {"slot", "list", "send"}}

CountInv ==
  \A w \in Walks :
    IF walk[w].stage = "none" THEN \A d \in Dirs : lister[w][d].stage = "none"
    ELSE walk[w].done = Cardinality(Pending(w)) + Cardinality(Dirs) - walk[w].count

EndInv == \A w \in Walks : walk[w].stage = "ended" => Pending(w) = {} /\ walk[w].count = 0

KeptInv == \A w \in Walks : walk[w].kept \subseteq stored

\* Where a file that was there all along is.
Covered(w, h) ==
  LET l == lister[w][DirOf[h]]
  IN  \/ h \in walk[w].seen \/ l.skipped \/ l.stage \in {"slot", "list"}
      \/ l.stage = "send" /\ h \in l.files

SeenInv ==
  \A w \in Walks : walk[w].stage \in {"walking", "ended"} =>
    \A h \in walk[w].kept : Covered(w, h)

WalkInv == CountInv /\ EndInv /\ KeptInv /\ SeenInv

JobSide == TypeOK /\ JobInv /\ DialInv /\ BalanceInv /\ BusyIsChecked

IInv == JobSide /\ WalkInv

-----------------------------------------------------------------------------
(* Counting *)

LEMMA FiniteSets ==
  /\ IsFiniteSet(Threads) /\ IsFiniteSet(Threads \X Waits) /\ IsFiniteSet(Walks \X Dirs)
  /\ Cardinality(Dirs) \in Nat
<1>1. IsFiniteSet(Threads)
  BY ThreadsAssumption, FS_Union DEF Threads
<1>2. IsFiniteSet(Waits)
  <2>1. Waits = ({} \cup {"conn"}) \cup {"putConn"}
    BY DEF Waits
  <2>. QED  BY <2>1, FS_EmptySet, FS_AddElement
<1>. QED  BY <1>1, <1>2, DirsAssumption, WalksAssumption, FS_Product, FS_CardinalityType

\* A subset of a finite set in which only whether x is in it changes.
LEMMA CountChanges ==
  ASSUME NEW S, IsFiniteSet(S), NEW A \in SUBSET S, NEW B \in SUBSET S, NEW x \in S,
         \A y \in S : y # x => (y \in A <=> y \in B)
  PROVE  /\ Cardinality(A) \in Nat /\ Cardinality(B) \in Nat
         /\ Cardinality(B) = Cardinality(A) + One(x \in B) - One(x \in A)
<1>1. IsFiniteSet(A) /\ IsFiniteSet(B)
  BY FS_Subset
<1>2. Cardinality(A) \in Nat /\ Cardinality(B) \in Nat
  BY <1>1, FS_CardinalityType
<1>3. CASE x \in B
  <2>1. B = A \cup {x}
    BY <1>3
  <2>. QED  BY <2>1, <1>1, <1>2, <1>3, FS_AddElement DEF One
<1>4. CASE x \notin B
  <2>1. B = A \ {x}
    BY <1>4
  <2>. QED  BY <2>1, <1>1, <1>2, <1>4, FS_RemoveElement DEF One
<1>. QED  BY <1>2, <1>3, <1>4

\* One goroutine goes on.
LEMMA JobSlotsChange ==
  ASSUME NEW j, NEW i, NEW t \in Threads, \A u \in Threads : u # t => i[u] = j[u]
  PROVE  /\ JobSlots(j) \in Nat /\ JobSlots(i) \in Nat
         /\ JobSlots(i) = JobSlots(j) + Weight(i[t]) - Weight(j[t])
<1>1. /\ Cardinality(Owners(j)) \in Nat /\ Cardinality(Owners(i)) \in Nat
      /\ Cardinality(Owners(i)) = Cardinality(Owners(j)) + One(t \in Owners(i)) - One(t \in Owners(j))
  BY FiniteSets, CountChanges DEF Owners
<1>2. /\ Cardinality(OnConns(j)) \in Nat /\ Cardinality(OnConns(i)) \in Nat
      /\ Cardinality(OnConns(i)) = Cardinality(OnConns(j)) + One(t \in OnConns(i)) - One(t \in OnConns(j))
  BY FiniteSets, CountChanges DEF OnConns
<1>3. /\ t \in Owners(i) <=> Owns(i[t])
      /\ t \in Owners(j) <=> Owns(j[t])
      /\ t \in OnConns(i) <=> Wired(i[t])
      /\ t \in OnConns(j) <=> Wired(j[t])
  BY DEF Owners, OnConns
<1>. QED  BY <1>1, <1>2, <1>3 DEF JobSlots, Weight, One

\* One dial goes on.
LEMMA DialsChange ==
  ASSUME dial \in [Threads -> [Waits -> {"no", "waiting", "bound", "dialing"}]],
         NEW t \in Threads, NEW k \in Waits, NEW x, dial' = [dial EXCEPT ![t][k] = x]
  PROVE  /\ Cardinality(Dials(dial)) \in Nat /\ Cardinality(Dials(dial)') \in Nat
         /\ x # "dialing" /\ dial[t][k] # "dialing" => Cardinality(Dials(dial)') = Cardinality(Dials(dial))
         /\ x # "dialing" /\ dial[t][k] = "dialing" => Cardinality(Dials(dial)') = Cardinality(Dials(dial)) - 1
         /\ x = "dialing" /\ dial[t][k] # "dialing" => Cardinality(Dials(dial)') = Cardinality(Dials(dial)) + 1
<1>1. /\ Cardinality(Dials(dial)) \in Nat /\ Cardinality(Dials(dial)') \in Nat
      /\ Cardinality(Dials(dial)') = Cardinality(Dials(dial))
           + One(<<t, k>> \in Dials(dial)') - One(<<t, k>> \in Dials(dial))
  <2>1. \A p \in Threads \X Waits : p # <<t, k>> => (p \in Dials(dial) <=> p \in Dials(dial)')
    BY DEF Dials
  <2>2. /\ Dials(dial) \in SUBSET (Threads \X Waits) /\ Dials(dial)' \in SUBSET (Threads \X Waits)
        /\ <<t, k>> \in Threads \X Waits
    BY DEF Dials
  <2>. DEFINE P == Threads \X Waits
              A == Dials(dial)
              B == Dials(dial)'
              x0 == <<t, k>>
  <2>3. IsFiniteSet(P) /\ A \in SUBSET P /\ B \in SUBSET P /\ x0 \in P
        /\ \A y \in P : y # x0 => (y \in A <=> y \in B)
    BY <2>1, <2>2, FiniteSets
  <2>. HIDE DEF P, A, B, x0
  <2>4. /\ Cardinality(A) \in Nat /\ Cardinality(B) \in Nat
        /\ Cardinality(B) = Cardinality(A) + One(x0 \in B) - One(x0 \in A)
    BY <2>3, CountChanges
  <2>. QED  BY <2>4 DEF A, B, x0
<1>2. (<<t, k>> \in Dials(dial)' <=> x = "dialing") /\ (<<t, k>> \in Dials(dial) <=> dial[t][k] = "dialing")
  BY DEF Dials
<1>. QED  BY <1>1, <1>2 DEF One

\* One goroutine of a walk goes on.
ListerType == [stage : {"none", "slot", "list", "send", "last"},
               files : SUBSET Hashes, skipped : BOOLEAN]
ListerTable == [Walks -> [Dirs -> ListerType]]

LEMMA HoldersChange ==
  ASSUME lister \in ListerTable, NEW w \in Walks, NEW d \in Dirs, NEW l \in ListerType, Lists(w, d, l)
  PROVE  /\ lister' \in ListerTable
         /\ Cardinality(Holders(lister)) \in Nat /\ Cardinality(Holders(lister)') \in Nat
         /\ (l.stage \in Holding <=> lister[w][d].stage \in Holding) =>
              Cardinality(Holders(lister)') = Cardinality(Holders(lister))
         /\ l.stage \notin Holding /\ lister[w][d].stage \in Holding =>
              Cardinality(Holders(lister)') = Cardinality(Holders(lister)) - 1
         /\ l.stage \in Holding /\ lister[w][d].stage \notin Holding =>
              Cardinality(Holders(lister)') = Cardinality(Holders(lister)) + 1
<1>1. /\ Cardinality(Holders(lister)) \in Nat /\ Cardinality(Holders(lister)') \in Nat
      /\ Cardinality(Holders(lister)') = Cardinality(Holders(lister))
           + One(<<w, d>> \in Holders(lister)') - One(<<w, d>> \in Holders(lister))
  <2>1. \A p \in Walks \X Dirs : p # <<w, d>> => (p \in Holders(lister) <=> p \in Holders(lister)')
    BY DEF Holders, ListerTable, Lists
  <2>2. /\ Holders(lister) \in SUBSET (Walks \X Dirs) /\ Holders(lister)' \in SUBSET (Walks \X Dirs)
        /\ <<w, d>> \in Walks \X Dirs
    BY DEF Holders
  <2>. QED  BY <2>1, <2>2, FiniteSets, CountChanges
<1>2. /\ <<w, d>> \in Holders(lister)' <=> l.stage \in Holding
      /\ <<w, d>> \in Holders(lister) <=> lister[w][d].stage \in Holding
  BY DEF Holders, ListerTable, Lists
<1>3. lister' \in ListerTable
  BY DEF Lists, ListerTable
<1>. QED  BY <1>1, <1>2, <1>3 DEF One
-----------------------------------------------------------------------------
(* One goroutine goes on: what its job may become *)

LEMMA IdleFits ==
  ASSUME NEW t \in Threads
  PROVE  Fits(t, Idle) /\ Weight(Idle) = 0
BY DEF Fits, Idle, JobType, Stages, Ops, OpsAt, Weight, Owns, Wired, One

\* A goroutine in a stage has one of the operations of it, and only its stage changes.
LEMMA StageFits ==
  ASSUME NEW t \in Threads, NEW r, Fits(t, r), NEW s \in Stages, s # "lock", r.op \in OpsAt(s)
  PROVE  Fits(t, [r EXCEPT !.stage = s])
BY DEF Fits, JobType

LEMMA ConnectedFits ==
  ASSUME NEW t \in Threads, NEW r, Fits(t, r), r.stage \in Waits
  PROVE  /\ Fits(t, [r EXCEPT !.stage = Connected(@)])
         /\ Weight([r EXCEPT !.stage = Connected(@)]) = Weight(r) + 1
         /\ Weight(r) \in Nat
<1>. DEFINE q == [r EXCEPT !.stage = Connected(@)]
<1>1. CASE r.stage = "conn"
  <2>1. q.stage = "busy" /\ q.op = r.op /\ r.op \in {"serve", "measure", "create"}
    BY <1>1 DEF Fits, JobType, OpsAt, Connected
  <2>2. Fits(t, q)
    <3>1. q = [r EXCEPT !.stage = "busy"] /\ "busy" \in Stages /\ r.op \in OpsAt("busy")
      BY <1>1, <2>1 DEF Connected, Stages, OpsAt, Ops
    <3>. QED  BY <3>1, StageFits
  <2>. QED  BY <1>1, <2>1, <2>2 DEF Weight, Owns, Wired, One
<1>2. CASE r.stage = "putConn"
  <2>1. q.stage = "put" /\ q.op = r.op /\ r.op \in {"serve", "check", "measure"}
    BY <1>2 DEF Fits, JobType, OpsAt, Connected
  <2>2. Fits(t, q)
    <3>1. q = [r EXCEPT !.stage = "put"] /\ "put" \in Stages /\ r.op \in OpsAt("put")
      BY <1>2, <2>1 DEF Connected, Stages, OpsAt
    <3>. QED  BY <3>1, StageFits
  <2>3. ~Owns(r) /\ ~Wired(r) /\ ~Owns(q) /\ Wired(q)
    BY <1>2, <2>1 DEF Owns, Wired
  <2>. QED  BY <2>2, <2>3 DEF Weight, One
<1>. QED  BY <1>1, <1>2 DEF Waits

\* A connection is freed after its goroutine went on: it is closed, kept, or has another job.
LEMMA FreesKeeps ==
  ASSUME used \in 0 .. MaxConn, idle \in 0 .. MaxIdle, NEW jobs, Jobs(jobs), Frees(jobs),
         \A t \in Waiters : jobs[t] = job[t]
  PROVE  /\ Jobs(job') /\ used' \in 0 .. MaxConn /\ idle' \in 0 .. MaxIdle
         /\ MaxConn > 0 => used' - JobSlots(job') - idle' = used - JobSlots(jobs) - idle - 1
         /\ \A t \in Threads : \/ job'[t] = jobs[t]
                               \/ jobs[t].stage \in Waits
                                  /\ job'[t] = [jobs[t] EXCEPT !.stage = Connected(@)]
<1>1. JobSlots(jobs) \in Nat
  BY FiniteSets, FS_Subset, FS_CardinalityType DEF JobSlots, Owners, OnConns
<1>2. CASE Closes(jobs)
  BY <1>1, <1>2, MaxConnAssumption, IdleAssumption DEF Closes, Release
<1>3. CASE Offers(jobs) /\ Waiters = {}
  BY <1>1, <1>3, MaxConnAssumption, IdleAssumption DEF Offers
<1>4. CASE Offers(jobs) /\ Waiters # {}
  <2>1. PICK t \in Waiters : job' = [jobs EXCEPT ![t].stage = Connected(@)] /\ UNCHANGED <<idle, used>>
    BY <1>4 DEF Offers
  <2>2. t \in Threads /\ jobs[t].stage \in Waits
    BY DEF Waiters
  <2>. DEFINE r == [jobs[t] EXCEPT !.stage = Connected(@)]
  <2>3. Fits(t, r) /\ Weight(r) = Weight(jobs[t]) + 1 /\ Weight(jobs[t]) \in Nat
    BY <2>2, ConnectedFits DEF Jobs
  <2>4. job' = [jobs EXCEPT ![t] = r]
    BY <2>1
  <2>5. Jobs(job') /\ job'[t] = r
    BY <2>2, <2>3, <2>4 DEF Jobs
  <2>6. \A u \in Threads : u # t => job'[u] = jobs[u]
    BY <2>4 DEF Jobs
  <2>7. JobSlots(job') = JobSlots(jobs) + Weight(r) - Weight(jobs[t])
    BY <2>2, <2>5, <2>6, JobSlotsChange
  <2>. QED  BY <1>1, <2>1, <2>2, <2>3, <2>5, <2>6, <2>7, MaxConnAssumption, IdleAssumption
<1>. QED  BY <1>2, <1>3, <1>4 DEF Frees

LEMMA Weights ==
  ASSUME NEW t \in Threads, NEW r, Fits(t, r)
  PROVE  /\ Weight(r) \in Nat
         /\ r.stage \notin {"conn", "busy", "last", "put"} => Weight(r) = 0
         /\ r.stage = "conn" => Weight(r) = IF r.op = "serve" THEN 1 ELSE 0
         /\ r.stage = "busy" => Weight(r) = IF r.op = "serve" THEN 2 ELSE 1
         /\ r.stage \in {"put", "last"} => Weight(r) = 1
<1>1. Weight(r) \in Nat
  BY DEF Weight, One
<1>2. r.stage \notin {"conn", "busy", "last", "put"} => ~Owns(r) /\ ~Wired(r)
  BY DEF Owns, Wired
<1>3. r.stage = "conn" => (Owns(r) <=> r.op = "serve") /\ ~Wired(r)
  BY DEF Fits, OpsAt, Owns, Wired
<1>4. r.stage = "busy" => /\ Owns(r) <=> r.op \in {"serve", "size", "open"}
                          /\ Wired(r) <=> r.op \notin {"size", "open"}
  BY DEF Fits, OpsAt, Ops, Owns, Wired
<1>5. r.stage = "put" => ~Owns(r) /\ Wired(r)
  BY DEF Owns, Wired
<1>6. r.stage = "last" => Owns(r) /\ ~Wired(r)
  BY DEF Fits, OpsAt, Owns, Wired
<1>. QED  BY <1>1, <1>2, <1>3, <1>4, <1>5, <1>6 DEF Weight, One

LEMMA OneGoes ==
  ASSUME JobInv, NEW t \in Threads, NEW r, Fits(t, r), job' = [job EXCEPT ![t] = r]
  PROVE  /\ JobInv' /\ job'[t] = r /\ \A u \in Threads : u # t => job'[u] = job[u]
         /\ JobSlots(job) \in Nat /\ JobSlots(job') \in Nat
         /\ JobSlots(job') = JobSlots(job) + Weight(r) - Weight(job[t])
<1>1. JobInv' /\ job'[t] = r /\ \A u \in Threads : u # t => job'[u] = job[u]
  BY DEF JobInv, Jobs
<1>2. /\ JobSlots(job) \in Nat /\ JobSlots(job') \in Nat
      /\ JobSlots(job') = JobSlots(job) + Weight(job'[t]) - Weight(job[t])
  BY <1>1, JobSlotsChange
<1>. QED  BY <1>1, <1>2

DialTable == [Threads -> [Waits -> {"no", "waiting", "bound", "dialing"}]]

\* The state but for what goroutines do and walk over.
Rest == now \in Nat /\ working \in 0 .. 2 /\ lastCheck \in Nat /\ links \subseteq Hashes /\ stored \subseteq Hashes
RestOK == Rest /\ measured \in BOOLEAN

WalkType == [stage : {"none", "walking", "givenUp", "ended"}, count : Nat,
             done : 0 .. Cardinality(Dirs), seen : SUBSET Hashes, kept : SUBSET Hashes]
WalkTable == [Walks -> WalkType]
Typed == /\ RestOK /\ used \in 0 .. MaxConn /\ idle \in 0 .. MaxIdle /\ dial \in DialTable
         /\ job \in [Threads -> JobType] /\ walk \in WalkTable /\ lister \in ListerTable

LEMMA TypeParts == (TypeOK <=> Typed) /\ (TypeOK' <=> Typed')
BY Zenon DEF TypeOK, Typed, RestOK, Rest, DialTable, JobType, WalkTable, WalkType, ListerTable, ListerType

LEMMA JobsTyped == (JobInv => job \in [Threads -> JobType]) /\ (JobInv' => job' \in [Threads -> JobType])
BY DEF JobInv, Jobs, Fits

\* One goroutine goes on, and gives or takes slots and connections.
LEMMA OneStep ==
  ASSUME JobSide, NEW t \in Threads, NEW r, Fits(t, r), job' = [job EXCEPT ![t] = r],
         UNCHANGED walkVars, RestOK',
         used' \in 0 .. MaxConn, idle' \in 0 .. MaxIdle, dial' \in DialTable,
         MaxConn > 0 => used' - Weight(r) - idle' - Cardinality(Dials(dial'))
                          = used - Weight(job[t]) - idle - Cardinality(Dials(dial)),
         \A u \in Threads : u # t => dial'[u] = dial[u],
         \A k \in Undialled(r.stage) : dial'[t][k] = "no",
         working' = 2 => \/ t \in Requests /\ Checking(r)
                         \/ working = 2 /\ (Checking(job[t]) => Checking(r))
  PROVE  JobSide'
<1>1. /\ JobInv' /\ job'[t] = r /\ \A u \in Threads : u # t => job'[u] = job[u]
      /\ JobSlots(job) \in Nat /\ JobSlots(job') \in Nat
      /\ JobSlots(job') = JobSlots(job) + Weight(r) - Weight(job[t])
  BY OneGoes DEF JobSide
<1>2. TypeOK'
  BY <1>1, TypeParts, JobsTyped DEF JobSide, walkVars, Typed
<1>3. DialInv'
  BY <1>1 DEF JobSide, DialInv
<1>4. BalanceInv'
  <2>1. Weight(r) \in Nat /\ Weight(job[t]) \in Nat
    BY Weights DEF JobSide, JobInv, Jobs
  <2>2. Dials(dial) \subseteq Threads \X Waits /\ Dials(dial') \subseteq Threads \X Waits
    BY DEF Dials
  <2>3. Cardinality(Dials(dial)) \in Nat /\ Cardinality(Dials(dial')) \in Nat
    BY <2>2, FiniteSets, FS_Subset, FS_CardinalityType
  <2>4. Holders(lister) \subseteq Walks \X Dirs /\ lister' = lister
    BY DEF Holders, walkVars
  <2>5. Cardinality(Holders(lister)) \in Nat
    BY <2>4, FiniteSets, FS_Subset, FS_CardinalityType
  <2>6. used \in Int /\ used' \in Int /\ idle \in Int /\ idle' \in Int
    BY TypeParts, MaxConnAssumption, IdleAssumption DEF JobSide, Typed
  <2>. QED  BY <1>1, <2>1, <2>3, <2>4, <2>5, <2>6 DEF JobSide, BalanceInv
<1>5. BusyIsChecked'
  BY <1>1 DEF JobSide, BusyIsChecked, Checking, Threads
<1>. QED  BY <1>1, <1>2, <1>3, <1>4, <1>5 DEF JobSide

\* It keeps the slots it has.
LEMMA QuietStep ==
  ASSUME JobSide, NEW t \in Threads, NEW r, Fits(t, r), job' = [job EXCEPT ![t] = r],
         UNCHANGED <<slotVars, walkVars>>, RestOK', Weight(r) = Weight(job[t]),
         Undialled(r.stage) \subseteq Undialled(job[t].stage) \/ dial[t] = NoDial,
         working' = 2 => \/ t \in Requests /\ Checking(r)
                         \/ working = 2 /\ (Checking(job[t]) => Checking(r))
  PROVE  JobSide'
<1>1. used' = used /\ idle' = idle /\ dial' = dial /\ UNCHANGED walkVars
  BY DEF slotVars
<1>2. used \in 0 .. MaxConn /\ idle \in 0 .. MaxIdle /\ dial \in DialTable
  BY TypeParts DEF JobSide, Typed
<1>3. Undialled(r.stage) \subseteq Waits
  BY DEF Undialled, Waits
<1>4. \A k \in Undialled(r.stage) : dial'[t][k] = "no"
  BY <1>1, <1>3 DEF JobSide, DialInv, NoDial
<1>. QED  BY <1>1, <1>2, <1>4, OneStep
-----------------------------------------------------------------------------
(* The steps of a goroutine that take and give back nothing *)

\* Its stage changes, or it ends.
LEMMA Goes1 ==
  ASSUME JobInv, NEW t \in Threads, NEW s \in Stages, s # "lock", job[t].op \in OpsAt(s), Goes(t, s)
  PROVE  LET r == [job[t] EXCEPT !.stage = s]
         IN  /\ Fits(t, r) /\ job' = [job EXCEPT ![t] = r]
             /\ r.stage = s /\ r.op = job[t].op
BY StageFits DEF JobInv, Jobs, Goes, Fits, JobType

LEMMA ServeStep ==
  ASSUME JobSide, NEW t \in Threads, NEW h \in Hashes, Serve(t, h)
  PROVE  JobSide'
<1>. DEFINE r == [Idle EXCEPT !.op = "serve", !.stage = "enter", !.hash = h, !.at = now]
<1>1. job' = [job EXCEPT ![t] = r] /\ t \in Requests /\ job[t].stage = "idle" /\ dial[t] = NoDial
  BY DEF Serve, At
<1>2. t \notin Checkers /\ now \in Nat
  BY <1>1, ThreadsAssumption, TypeParts DEF JobSide, Typed, RestOK, Rest
<1>3. Fits(t, r)
  BY <1>2 DEF Fits, JobType, Ops, Stages, OpsAt, Idle
<1>4. Weight(r) = 0 /\ Weight(job[t]) = 0
  BY <1>1, <1>3, Weights DEF JobSide, JobInv, Jobs, Idle
<1>5. RestOK'
  BY TypeParts DEF JobSide, Typed, RestOK, Rest, Serve, healthVars
<1>6. working' = working /\ ~Checking(job[t])
  BY <1>1 DEF Serve, healthVars, Checking
<1>. HIDE DEF r
<1>. QED  BY <1>1, <1>3, <1>4, <1>5, <1>6, QuietStep DEF Serve

LEMMA CallStep ==
  ASSUME JobSide, NEW t \in Threads, NEW h \in Hashes, NEW op \in Ops \ {"serve"}, Call(t, op, h)
  PROVE  JobSide'
<1>. DEFINE s == CASE op \in {"size", "open"} -> "slot" [] op = "measure" -> "stat" [] op = "create" -> "ask"
            r == [Idle EXCEPT !.op = op, !.stage = s, !.hash = h]
<1>1. job' = [job EXCEPT ![t] = r] /\ t \in Requests /\ job[t].stage = "idle" /\ dial[t] = NoDial
  BY DEF Call, At
<1>2. t \notin Checkers
  BY <1>1, ThreadsAssumption
<1>3. Fits(t, r) /\ r.stage \in {"slot", "stat", "ask"}
  BY <1>2 DEF Fits, JobType, Ops, Stages, OpsAt, Idle
<1>4. Weight(r) = 0 /\ Weight(job[t]) = 0
  BY <1>1, <1>3, Weights DEF JobSide, JobInv, Jobs
<1>5. RestOK'
  BY TypeParts DEF JobSide, Typed, RestOK, Rest, Call, healthVars
<1>6. working' = working /\ ~Checking(job[t])
  BY <1>1 DEF Call, healthVars, Checking
<1>. HIDE DEF r
<1>. QED  BY <1>1, <1>3, <1>4, <1>5, <1>6, QuietStep DEF Call

\* A goroutine in a stage without slots: what may become of it.
LEMMA StageStep ==
  ASSUME JobSide, NEW t \in Threads, NEW s \in Stages, s # "lock", job[t].op \in OpsAt(s), Goes(t, s),
         {job[t].stage, s} \cap {"conn", "busy", "last", "put"} = {},
         UNCHANGED <<slotVars, walkVars>>, RestOK',
         Undialled(s) \subseteq Undialled(job[t].stage),
         working' = 2 => \/ t \in Requests /\ job[t].op = "serve" /\ s \in {"renew", "stat", "get"}
                         \/ working = 2 /\ (Checking(job[t]) => s \in {"renew", "stat", "get"})
  PROVE  JobSide'
<1>. DEFINE r == [job[t] EXCEPT !.stage = s]
<1>1. Fits(t, r) /\ job' = [job EXCEPT ![t] = r] /\ r.stage = s /\ r.op = job[t].op
  BY Goes1 DEF JobSide
<1>2. Fits(t, job[t])
  BY DEF JobSide, JobInv, Jobs
<1>. HIDE DEF r
<1>3. Weight(r) = 0 /\ Weight(job[t]) = 0
  BY <1>1, <1>2, Weights
<1>4. working' = 2 => \/ t \in Requests /\ Checking(r)
                      \/ working = 2 /\ (Checking(job[t]) => Checking(r))
  BY <1>1 DEF Checking
<1>. QED  BY <1>1, <1>3, <1>4, QuietStep

LEMMA EndStep ==
  ASSUME JobSide, NEW t \in Threads, Ends(t), job[t].stage \notin {"conn", "busy", "last", "put"},
         UNCHANGED <<slotVars, walkVars>>, RestOK',
         working' = 2 => working = 2 /\ ~Checking(job[t])
  PROVE  JobSide'
<1>1. Fits(t, job[t])
  BY DEF JobSide, JobInv, Jobs
<1>2. Weight(Idle) = Weight(job[t]) /\ Fits(t, Idle)
  BY <1>1, Weights, IdleFits
<1>3. Undialled(Idle.stage) = {}
  BY DEF Undialled, Idle
<1>4. job' = [job EXCEPT ![t] = Idle]
  BY DEF Ends
<1>. QED  BY <1>2, <1>3, <1>4, QuietStep

LEMMA LookStep ==
  ASSUME JobSide, NEW t \in Threads, Look(t)
  PROVE  JobSide'
<1>1. /\ job[t].stage = "enter" /\ job[t].op = "serve" /\ t \in Requests
      /\ UNCHANGED <<slotVars, lastCheck, measured, walkVars, now, links, stored>>
  BY DEF Look, At, JobSide, JobInv, Jobs, Fits, OpsAt, Threads
<1>2. ~Checking(job[t])
  BY <1>1 DEF Checking
<1>3. RestOK /\ working \in 0 .. 2
  BY TypeParts DEF JobSide, Typed, RestOK, Rest
<1>4. CASE working = 1 /\ Goes(t, "peek") /\ UNCHANGED working
  <2>1. RestOK'
    BY <1>1, <1>3, <1>4 DEF RestOK, Rest
  <2>. QED  BY <1>1, <1>2, <1>4, <2>1, StageStep DEF Stages, OpsAt, Undialled
<1>5. CASE working = 0 /\ working' = 2 /\ Goes(t, "renew")
  <2>1. RestOK'
    BY <1>1, <1>3, <1>5 DEF RestOK, Rest
  <2>. QED  BY <1>1, <1>2, <1>5, <2>1, StageStep DEF Stages, OpsAt, Undialled
<1>6. CASE working # 1 /\ Ends(t) /\ UNCHANGED working
  <2>1. RestOK'
    BY <1>1, <1>3, <1>6 DEF RestOK, Rest
  <2>. QED  BY <1>1, <1>2, <1>6, <2>1, EndStep
<1>. QED  BY <1>4, <1>5, <1>6 DEF Look

\* A check begins now: its time is kept.
LEMMA Begins ==
  ASSUME JobSide, NEW t \in Threads, job[t].stage \in {"renew", "lock"},
         lastCheck' = job[t].at, job' = [job EXCEPT ![t].stage = "stat", ![t].at = now],
         UNCHANGED <<slotVars, working, measured, walkVars, now, links, stored>>
  PROVE  JobSide'
<1>. DEFINE r == [job[t] EXCEPT !.stage = "stat", !.at = now]
<1>1. Fits(t, job[t]) /\ job' = [job EXCEPT ![t] = r] /\ RestOK /\ now \in Nat
  BY TypeParts DEF JobSide, JobInv, Jobs, Typed, RestOK, Rest
<1>2. Fits(t, r) /\ r.stage = "stat" /\ r.op = job[t].op /\ job[t].at \in Nat
  BY <1>1 DEF Fits, JobType, Stages, OpsAt
<1>3. RestOK'
  BY <1>1, <1>2 DEF RestOK, Rest
<1>. HIDE DEF r
<1>4. Weight(r) = 0 /\ Weight(job[t]) = 0
  BY <1>1, <1>2, Weights
<1>5. Undialled(r.stage) \subseteq Undialled(job[t].stage) /\ (Checking(job[t]) => Checking(r))
  BY <1>2 DEF Undialled, Checking
<1>. QED  BY <1>1, <1>2, <1>3, <1>4, <1>5, QuietStep

LEMMA RenewStep ==
  ASSUME JobSide, NEW t \in Threads, Renew(t)
  PROVE  JobSide'
<1>1. CASE job[t].at - lastCheck > Interval
  BY <1>1, Begins DEF Renew, At
<1>2. CASE ~(job[t].at - lastCheck > Interval)
  <2>1. RestOK'
    BY <1>2, TypeParts DEF JobSide, Typed, RestOK, Rest, Renew
  <2>. QED  BY <1>2, <2>1, EndStep DEF Renew, At
<1>. QED  BY <1>1, <1>2

LEMMA LockStep ==
  ASSUME JobSide, NEW t \in Threads, Lock(t)
  PROVE  JobSide'
<1>1. CASE lastCheck = job[t].saw
  BY <1>1, Begins DEF Lock, At
<1>2. CASE lastCheck # job[t].saw
  <2>1. RestOK'
    BY <1>2, TypeParts DEF JobSide, Typed, RestOK, Rest, Lock
  <2>2. ~Checking(job[t])
    BY DEF Lock, At, Checking
  <2>. QED  BY <1>2, <2>1, <2>2, EndStep DEF Lock, At
<1>. QED  BY <1>1, <1>2

\* The request and the goroutine it starts both go on.
LEMMA PeekStep ==
  ASSUME JobSide, NEW t \in Threads, Peek(t)
  PROVE  JobSide'
<1>1. /\ job[t].stage = "peek" /\ job[t].op = "serve" /\ t \in Requests /\ Fits(t, job[t])
      /\ RestOK /\ lastCheck \in Nat
      /\ UNCHANGED <<slotVars, healthVars, walkVars, now, links, stored>>
  BY TypeParts DEF Peek, At, JobSide, JobInv, Jobs, Fits, OpsAt, Threads, Typed, RestOK, Rest
<1>2. RestOK'
  BY <1>1 DEF RestOK, Rest, healthVars
<1>3. CASE Goes(t, "serve")
  BY <1>1, <1>2, <1>3, StageStep DEF Stages, OpsAt, Undialled, Waits, Checking, healthVars
<1>4. CASE job[t].at - lastCheck > Interval
  <2>1. PICK c \in Checkers :
          /\ job[c].stage = "idle" /\ dial[c] = NoDial
          /\ job' = [job EXCEPT ![t].stage = "serve",
                                ![c] = [Idle EXCEPT !.op = "check", !.stage = "lock",
                                                    !.at = job[t].at, !.saw = lastCheck]]
    BY <1>4 DEF Peek, At
  <2>. DEFINE r == [job[t] EXCEPT !.stage = "serve"]
              q == [Idle EXCEPT !.op = "check", !.stage = "lock", !.at = job[t].at, !.saw = lastCheck]
              j == [job EXCEPT ![t] = r]
  <2>2. c \in Threads /\ c # t /\ job' = [j EXCEPT ![c] = q]
    BY <1>1, <2>1 DEF Threads
  <2>3. Fits(t, r) /\ r.stage = "serve" /\ r.op = "serve"
    <3>1. "serve" \in Stages /\ job[t].op \in OpsAt("serve")
      BY <1>1 DEF Stages, OpsAt
    <3>2. Fits(t, r)
      BY <1>1, <3>1, StageFits
    <3>. QED  BY <1>1, <3>2 DEF Fits, JobType
  <2>4. Fits(c, q) /\ q.stage = "lock"
    BY <1>1, <1>4 DEF Fits, JobType, Stages, Ops, OpsAt, Idle
  <2>. HIDE DEF r, q
  <2>5. Jobs(j) /\ j[t] = r /\ j[c] = job[c] /\ \A u \in Threads : u # t => j[u] = job[u]
    BY <2>2, <2>3 DEF JobSide, JobInv, Jobs
  <2>. HIDE DEF j
  <2>6. JobInv' /\ job'[c] = q /\ job'[t] = r /\ \A u \in Threads : u \notin {c, t} => job'[u] = job[u]
    BY <2>2, <2>4, <2>5 DEF JobInv, Jobs
  <2>7. /\ JobSlots(j) = JobSlots(job) + Weight(r) - Weight(job[t])
        /\ JobSlots(job') = JobSlots(j) + Weight(q) - Weight(j[c])
        /\ JobSlots(job) \in Nat
    <3>1. \A u \in Threads : u # c => job'[u] = j[u]
      BY <2>2, <2>5 DEF Jobs
    <3>2. JobSlots(job') = JobSlots(j) + Weight(job'[c]) - Weight(j[c])
      BY <2>2, <3>1, JobSlotsChange
    <3>3. JobSlots(job) \in Nat /\ JobSlots(j) = JobSlots(job) + Weight(j[t]) - Weight(job[t])
      BY <2>5, JobSlotsChange
    <3>. QED  BY <2>5, <2>6, <3>2, <3>3
  <2>8. Weight(r) = 0 /\ Weight(q) = 0 /\ Weight(job[t]) = 0 /\ Weight(job[c]) = 0
    <3>1. Fits(c, job[c])
      BY <2>2 DEF JobSide, JobInv, Jobs
    <3>. QED  BY <1>1, <2>1, <2>2, <2>3, <2>4, <3>1, Weights
  <2>9. BalanceInv'
    <3>1. JobSlots(job') = JobSlots(job)
      BY <2>2, <2>5, <2>7, <2>8
    <3>. QED  BY <1>1, <3>1 DEF JobSide, BalanceInv, slotVars, walkVars
  <2>10. TypeOK'
    BY <1>1, <1>2, <2>6, TypeParts, JobsTyped DEF JobSide, Typed, slotVars, walkVars
  <2>11. DialInv'
    <3>1. ASSUME NEW u \in Threads, NEW k \in Undialled(job'[u].stage) PROVE dial'[u][k] = "no"
      <4>1. CASE u = t
        BY <1>1, <2>3, <2>6, <3>1, <4>1 DEF JobSide, DialInv, Undialled, Waits, slotVars
      <4>2. CASE u = c
        BY <1>1, <2>1, <3>1, <2>4, <2>6, <4>2 DEF NoDial, Undialled, slotVars
      <4>3. CASE u \notin {c, t}
        BY <1>1, <2>6, <3>1, <4>3 DEF JobSide, DialInv, slotVars
      <4>. QED  BY <4>1, <4>2, <4>3
    <3>. QED  BY <3>1 DEF DialInv
  <2>12. BusyIsChecked'
    BY <1>1, <2>1, <2>6 DEF JobSide, BusyIsChecked, healthVars, Threads
  <2>. QED  BY <2>6, <2>9, <2>10, <2>11, <2>12 DEF JobSide
<1>. QED  BY <1>3, <1>4 DEF Peek

LEMMA VerdictStep ==
  ASSUME JobSide, NEW t \in Threads, job[t].stage \in {"stat", "putConn", "get"}, Checks(t),
         working' \in {0, 1}, Ends(t) \/ (t \in Requests /\ Goes(t, "serve")),
         UNCHANGED <<slotVars, lastCheck, measured, walkVars, now, links, stored>>
  PROVE  JobSide'
<1>1. RestOK' /\ working' # 2
  <2>1. now' = now /\ lastCheck' = lastCheck /\ measured' = measured /\ links' = links /\ stored' = stored
    OBVIOUS
  <2>2. RestOK
    BY TypeParts DEF JobSide, Typed
  <2>3. working' \in 0 .. 2 /\ working' # 2
    OBVIOUS
  <2>. QED  BY <2>1, <2>2, <2>3 DEF RestOK, Rest
<1>2. CASE t \in Requests /\ Goes(t, "serve")
  <2>1. job[t].op = "serve"
    BY <1>2, ThreadsAssumption DEF Checks
  <2>2. Undialled("serve") \subseteq Undialled(job[t].stage)
    BY DEF Undialled, Waits
  <2>. QED  BY <1>1, <1>2, <2>1, <2>2, StageStep DEF Stages, OpsAt
<1>3. CASE Ends(t)
  BY <1>1, <1>3, EndStep
<1>. QED  BY <1>2, <1>3

LEMMA GetStep ==
  ASSUME JobSide, NEW t \in Threads, Get(t)
  PROVE  JobSide'
<1>1. Checks(t) /\ job[t].stage = "get"
  BY DEF Get, At, Checks, JobSide, JobInv, Jobs, Fits, OpsAt
<1>2. working' \in {0, 1} /\ (Ends(t) \/ (t \in Requests /\ Goes(t, "serve")))
  BY DEF Get, Verdict
<1>. QED  BY <1>1, <1>2, VerdictStep DEF Get

LEMMA NoMeasureStep ==
  ASSUME JobSide, NEW t \in Threads, job[t].stage \in {"stat", "putConn"}, NoMeasure(t),
         UNCHANGED <<slotVars, lastCheck, measured, walkVars, now, links, stored>>
  PROVE  JobSide'
<1>1. CASE Checks(t)
  <2>1. working' \in {0, 1} /\ Ends(t)
    BY <1>1 DEF NoMeasure, Verdict
  <2>. QED  BY <1>1, <2>1, VerdictStep
<1>2. CASE ~Checks(t)
  <2>1. RestOK' /\ ~Checking(job[t])
    BY <1>2, TypeParts DEF JobSide, Typed, RestOK, Rest, NoMeasure, Checks, Checking
  <2>. QED  BY <1>2, <2>1, EndStep DEF NoMeasure
<1>. QED  BY <1>1, <1>2

LEMMA ServeDownloadStep ==
  ASSUME JobSide, NEW t \in Threads, ServeDownload(t)
  PROVE  JobSide'
<1>1. job[t].stage = "serve" /\ job[t].op = "serve" /\ ~Checking(job[t])
  BY DEF ServeDownload, At, JobSide, JobInv, Jobs, Fits, OpsAt, Checking
<1>2. RestOK' /\ working' = working
  BY TypeParts DEF JobSide, Typed, RestOK, Rest, ServeDownload, healthVars
<1>3. CASE Ends(t)
  BY <1>1, <1>2, <1>3, EndStep DEF ServeDownload
<1>4. CASE Goes(t, "slot")
  BY <1>1, <1>2, <1>4, StageStep DEF ServeDownload, Stages, OpsAt, Undialled
<1>. QED  BY <1>3, <1>4 DEF ServeDownload
-----------------------------------------------------------------------------
(* The steps of a goroutine that take or give back *)

LEMMA WeightIsNat ==
  ASSUME JobInv
  PROVE  \A t \in Threads : Fits(t, job[t]) /\ Weight(job[t]) \in Nat
BY Weights DEF JobInv, Jobs

LEMMA Counts ==
  ASSUME JobSide
  PROVE  /\ used \in 0 .. MaxConn /\ idle \in 0 .. MaxIdle /\ dial \in DialTable /\ RestOK
         /\ used \in Nat /\ idle \in Nat
BY TypeParts, MaxConnAssumption, IdleAssumption DEF JobSide, Typed

\* It has an idle connection, or waits for one to be dialled.
LEMMA ConnectsStep ==
  ASSUME JobSide, NEW t \in Threads, NEW s \in Waits, Connects(t, s),
         job[t].op \in OpsAt(s), Weight(job[t]) = 0,
         dial[t]["conn"] = "no", dial[t][s] = "no", UNCHANGED walkVars, RestOK',
         used' \in 0 .. MaxConn,
         MaxConn > 0 => used' = used + IF s = "conn" /\ job[t].op = "serve" THEN 1 ELSE 0,
         working' = working, s = "conn" => job[t].stage \in {"slot", "ask"}
  PROVE  JobSide'
<1>. DEFINE b == IF s = "conn" /\ job[t].op = "serve" THEN 1 ELSE 0
            r == [job[t] EXCEPT !.stage = s]
            q == [r EXCEPT !.stage = Connected(@)]
<1>1. Fits(t, r) /\ r.stage = s /\ r.op = job[t].op /\ Weight(r) = b
  <2>1. Fits(t, job[t])
    BY WeightIsNat DEF JobSide
  <2>2. s \in Stages /\ s # "lock"
    BY DEF Waits, Stages
  <2>3. Fits(t, r)
    BY <2>1, <2>2, StageFits
  <2>4. r.stage = s /\ r.op = job[t].op
    BY <2>1 DEF Fits, JobType
  <2>. HIDE DEF r
  <2>5. Weight(r) = b
    BY <2>3, <2>4, Weights DEF Waits
  <2>. QED  BY <2>3, <2>4, <2>5
<1>2. Fits(t, q) /\ q.stage = Connected(s) /\ q.op = job[t].op /\ Weight(q) = b + 1
  <2>1. Fits(t, q) /\ Weight(q) = Weight(r) + 1
    BY <1>1, ConnectedFits
  <2>2. q.stage = Connected(r.stage) /\ q.op = r.op
    BY <1>1 DEF Fits, JobType
  <2>. QED  BY <1>1, <2>1, <2>2
<1>3. s = "conn" => ~Checking(job[t])
  BY DEF Checking
<1>4. CASE idle > 0
  <2>1. Goes(t, Connected(s)) /\ idle' = idle - 1 /\ UNCHANGED dial
    BY <1>4 DEF Connects
  <2>2. job' = [job EXCEPT ![t] = q]
    BY <2>1, <1>1, WeightIsNat DEF Goes, JobSide, Fits, JobType
  <2>. HIDE DEF q, r
  <2>3. idle' \in 0 .. MaxIdle /\ dial' \in DialTable
    <3>1. idle \in 0 .. MaxIdle /\ dial \in DialTable /\ idle' = idle - 1 /\ dial' = dial /\ idle > 0
      BY <2>1, <1>4, Counts
    <3>2. idle' \in 0 .. MaxIdle
      BY <3>1, IdleAssumption
    <3>. QED  BY <3>1, <3>2
  <2>4. MaxConn > 0 => used' - Weight(q) - idle' - Cardinality(Dials(dial'))
                         = used - Weight(job[t]) - idle - Cardinality(Dials(dial))
    <3>1. Dials(dial) \subseteq Threads \X Waits
      BY DEF Dials
    <3>2. Cardinality(Dials(dial)) \in Nat
      BY <3>1, FiniteSets, FS_Subset, FS_CardinalityType
    <3>3. b \in {0, 1} /\ Weight(q) = b + 1 /\ (MaxConn > 0 => used' = used + b)
      BY <1>2
    <3>4. idle' = idle - 1 /\ Dials(dial') = Dials(dial) /\ used \in Nat /\ idle \in Nat
      BY <2>1, Counts
    <3>. HIDE DEF b
    <3>5. b \in Nat
      BY <3>3
    <3>6. used - 0 - idle - Cardinality(Dials(dial))
            = (used + b) - (b + 1) - (idle - 1) - Cardinality(Dials(dial))
      BY <3>2, <3>4, <3>5
    <3>. QED  BY <3>3, <3>4, <3>6, Zenon
  <2>5. \A k \in Undialled(q.stage) : dial'[t][k] = "no"
    BY <1>2, <2>1 DEF Waits, Connected, Undialled
  <2>6. Checking(job[t]) => Checking(q)
    BY <1>2, <1>3 DEF Checking, Connected, Waits
  <2>. QED  BY <1>2, <2>1, <2>2, <2>3, <2>4, <2>5, <2>6, OneStep
<1>5. CASE ~(idle > 0)
  <2>1. PICK x \in {"waiting", "bound"} :
          Goes(t, s) /\ UNCHANGED idle /\ dial' = [dial EXCEPT ![t][s] = x]
    BY <1>5 DEF Connects
  <2>2. job' = [job EXCEPT ![t] = r]
    BY <2>1, WeightIsNat DEF Goes, JobSide, Fits, JobType
  <2>. HIDE DEF q, r
  <2>3. idle' \in 0 .. MaxIdle /\ dial' \in DialTable
    BY <2>1, Counts DEF DialTable
  <2>4. /\ Cardinality(Dials(dial)) \in Nat
        /\ Cardinality(Dials(dial')) = Cardinality(Dials(dial))
    <3>1. dial \in [Threads -> [Waits -> {"no", "waiting", "bound", "dialing"}]]
      BY Counts DEF DialTable
    <3>. QED  BY <2>1, <3>1, DialsChange
  <2>5. MaxConn > 0 => used' - Weight(r) - idle' - Cardinality(Dials(dial'))
                         = used - Weight(job[t]) - idle - Cardinality(Dials(dial))
    <3>1. b \in {0, 1} /\ Weight(r) = b /\ (MaxConn > 0 => used' = used + b)
      BY <1>1
    <3>2. idle' = idle /\ used \in Nat /\ idle \in Nat
      BY <2>1, Counts
    <3>. HIDE DEF b
    <3>3. b \in Nat
      BY <3>1
    <3>4. used - 0 - idle - Cardinality(Dials(dial)) = (used + b) - b - idle - Cardinality(Dials(dial))
      BY <2>4, <3>2, <3>3
    <3>. QED  BY <2>4, <3>1, <3>2, <3>4, Zenon
  <2>6. /\ \A k \in Undialled(r.stage) : dial'[t][k] = "no"
        /\ \A u \in Threads : u # t => dial'[u] = dial[u]
    BY <1>1, <2>1, Counts DEF Waits, Undialled, DialTable
  <2>7. Checking(job[t]) => Checking(r)
    BY <1>1, <1>3 DEF Checking, Waits
  <2>. QED  BY <1>1, <2>1, <2>2, <2>3, <2>5, <2>6, <2>7, OneStep
<1>. QED  BY <1>4, <1>5

LEMMA StatStep ==
  ASSUME JobSide, NEW t \in Threads, Stat(t)
  PROVE  JobSide'
<1>. USE DEF Stat
<1>1. /\ job[t].stage = "stat" /\ Fits(t, job[t]) /\ job[t].op \in {"serve", "check", "measure"}
      /\ Weight(job[t]) = 0 /\ dial[t]["conn"] = "no" /\ dial[t]["putConn"] = "no"
      /\ RestOK /\ UNCHANGED <<used, lastCheck, measured, walkVars, now, links, stored>>
  <2>1. job[t].stage = "stat" /\ Fits(t, job[t])
    BY WeightIsNat DEF At, JobSide
  <2>2. job[t].op \in {"serve", "check", "measure"}
    BY <2>1 DEF Fits, OpsAt
  <2>3. dial[t]["conn"] = "no" /\ dial[t]["putConn"] = "no"
    BY <2>1 DEF JobSide, DialInv, Undialled, Waits
  <2>. QED  BY <2>1, <2>2, <2>3, Weights, Counts
<1>2. CASE Goes(t, HasMeasure(t)) /\ UNCHANGED <<working, dial, idle>>
  <2>1. RestOK' /\ UNCHANGED <<slotVars, walkVars>>
    BY <1>1, <1>2 DEF RestOK, Rest, slotVars
  <2>2. CASE Checks(t)
    <3>1. Goes(t, "get") /\ job[t].op \in OpsAt("get")
      BY <1>1, <1>2, <2>2 DEF HasMeasure, Checks, Fits, OpsAt
    <3>. QED  BY <1>1, <1>2, <2>1, <3>1, StageStep DEF Stages, Undialled, Waits
  <2>3. CASE ~Checks(t)
    <3>1. Goes(t, "ask") /\ job[t].op \in OpsAt("ask") /\ ~Checking(job[t])
      BY <1>1, <1>2, <2>3 DEF HasMeasure, Checks, Fits, OpsAt, Checking
    <3>. QED  BY <1>1, <1>2, <2>1, <3>1, StageStep DEF Stages, Undialled, Waits
  <2>. QED  BY <2>2, <2>3
<1>3. CASE NoMeasure(t) /\ UNCHANGED <<dial, idle>>
  BY <1>1, <1>3, NoMeasureStep DEF slotVars
<1>4. CASE Connects(t, "putConn") /\ UNCHANGED working
  <2>1. RestOK' /\ used' \in 0 .. MaxConn /\ used' = used + 0
    <3>1. used' \in 0 .. MaxConn /\ used' = used + 0
      BY <1>1, Counts
    <3>. QED  BY <1>1, <1>4, <3>1 DEF RestOK, Rest
  <2>2. "putConn" \in Waits /\ job[t].op \in OpsAt("putConn")
    BY <1>1 DEF Waits, OpsAt
  <2>. QED  BY <1>1, <1>4, <2>1, <2>2, ConnectsStep
<1>. QED  BY <1>2, <1>3, <1>4

LEMMA AskStep ==
  ASSUME JobSide, NEW t \in Threads, Ask(t)
  PROVE  JobSide'
<1>1. job[t].stage = "ask" /\ Fits(t, job[t]) /\ UNCHANGED <<used, healthVars, walkVars, now, links, stored>>
  BY WeightIsNat DEF At, Ask, JobSide
<1>2. /\ job[t].op \in {"measure", "create"} /\ Weight(job[t]) = 0 /\ dial[t]["conn"] = "no"
      /\ ~Checking(job[t])
  BY <1>1, Weights DEF Fits, OpsAt, JobSide, DialInv, Undialled, Checking
<1>3. "conn" \in Waits /\ job[t].op \in OpsAt("conn")
  BY <1>2 DEF Waits, OpsAt
<1>4. RestOK' /\ used' \in 0 .. MaxConn /\ used' = used + 0 /\ working' = working
  BY <1>1, Counts DEF RestOK, Rest, healthVars
<1>. QED  BY <1>1, <1>2, <1>3, <1>4, ConnectsStep DEF Ask

LEMMA TakeSlotStep ==
  ASSUME JobSide, NEW t \in Threads, TakeSlot(t)
  PROVE  JobSide'
<1>1. /\ job[t].stage = "slot" /\ Fits(t, job[t]) /\ Acquire
      /\ UNCHANGED <<healthVars, walkVars, now, links, stored>>
  BY WeightIsNat DEF At, TakeSlot, JobSide
<1>2. /\ job[t].op \in {"serve", "size", "open"} /\ Weight(job[t]) = 0 /\ dial[t]["conn"] = "no"
      /\ ~Checking(job[t])
  BY <1>1, Weights DEF Fits, OpsAt, JobSide, DialInv, Undialled, Checking
<1>3. RestOK' /\ used' \in 0 .. MaxConn /\ (MaxConn > 0 => used' = used + 1) /\ working' = working
  <2>1. used' \in 0 .. MaxConn /\ (MaxConn > 0 => used' = used + 1)
    BY <1>1, Counts, MaxConnAssumption DEF Acquire
  <2>. QED  BY <1>1, <2>1, Counts DEF RestOK, Rest, healthVars
<1>4. CASE job[t].op = "serve"
  <2>1. "conn" \in Waits /\ job[t].op \in OpsAt("conn")
    BY <1>4 DEF Waits, OpsAt
  <2>. QED  BY <1>1, <1>2, <1>3, <1>4, <2>1, ConnectsStep DEF TakeSlot
<1>5. CASE job[t].op # "serve"
  <2>1. Goes(t, "busy") /\ dial' = dial /\ idle' = idle
    BY <1>5 DEF TakeSlot
  <2>. DEFINE r == [job[t] EXCEPT !.stage = "busy"]
  <2>2. job[t].op \in OpsAt("busy") /\ "busy" \in Stages
    BY <1>2 DEF OpsAt, Ops, Stages
  <2>3. Fits(t, r) /\ job' = [job EXCEPT ![t] = r] /\ r.stage = "busy" /\ r.op = job[t].op
    BY <2>1, <2>2, Goes1 DEF JobSide
  <2>. HIDE DEF r
  <2>4. Weight(r) = 1
    BY <1>5, <2>3, Weights
  <2>5. Cardinality(Dials(dial)) \in Nat
    <3>1. Dials(dial) \subseteq Threads \X Waits
      BY DEF Dials
    <3>. QED  BY <3>1, FiniteSets, FS_Subset, FS_CardinalityType
  <2>6. MaxConn > 0 => used' - Weight(r) - idle' - Cardinality(Dials(dial'))
                         = used - Weight(job[t]) - idle - Cardinality(Dials(dial))
    BY <1>2, <1>3, <2>1, <2>4, <2>5, Counts
  <2>7. \A k \in Undialled(r.stage) : dial'[t][k] = "no"
    BY <2>3 DEF Undialled
  <2>. QED  BY <1>1, <1>2, <1>3, <2>1, <2>3, <2>6, <2>7, Counts, OneStep
<1>. QED  BY <1>4, <1>5
-----------------------------------------------------------------------------
(* A connection is freed *)

LEMMA ConnectedKeeps ==
  ASSUME NEW t \in Threads, NEW r, Fits(t, r), r.stage \in Waits
  PROVE  LET q == [r EXCEPT !.stage = Connected(@)]
         IN  /\ Undialled(q.stage) \subseteq Undialled(r.stage) /\ q.op = r.op
             /\ r.stage = "putConn" => q.stage = "put"
BY DEF Fits, JobType, Undialled, Connected, Waits

LEMMA DialsAreCounted ==
  /\ Cardinality(Dials(dial)) \in Nat /\ Cardinality(Dials(dial')) \in Nat
  /\ Cardinality(Holders(lister)) \in Nat /\ Cardinality(Holders(lister')) \in Nat
<1>1. /\ Dials(dial) \subseteq Threads \X Waits /\ Dials(dial') \subseteq Threads \X Waits
      /\ Holders(lister) \subseteq Walks \X Dirs /\ Holders(lister') \subseteq Walks \X Dirs
  BY DEF Dials, Holders
<1>. QED  BY <1>1, FiniteSets, FS_Subset, FS_CardinalityType

LEMMA SlotsCounted ==
  ASSUME NEW j
  PROVE  JobSlots(j) \in Nat
<1>1. Owners(j) \subseteq Threads /\ OnConns(j) \subseteq Threads
  BY DEF Owners, OnConns
<1>. QED  BY <1>1, FiniteSets, FS_Subset, FS_CardinalityType DEF JobSlots

\* What a connection is freed for: it is a slot less, or one goroutine more.
LEMMA Freed ==
  ASSUME JobSide, NEW jobs, Jobs(jobs), Frees(jobs), \A u \in Waiters : jobs[u] = job[u],
         UNCHANGED walkVars, RestOK', dial' \in DialTable,
         \A u \in Threads : \A k \in Undialled(jobs[u].stage) : dial'[u][k] = "no",
         MaxConn > 0 => JobSlots(jobs) + Cardinality(Dials(dial'))
                          = JobSlots(job) + Cardinality(Dials(dial)) - 1,
         working' = 2 => \E u \in Requests :
           jobs[u].op = "serve" /\ jobs[u].stage \in {"renew", "stat", "putConn", "put", "get"}
  PROVE  JobSide'
<1>1. /\ Jobs(job') /\ used' \in 0 .. MaxConn /\ idle' \in 0 .. MaxIdle
      /\ MaxConn > 0 => used' - JobSlots(job') - idle' = used - JobSlots(jobs) - idle - 1
      /\ \A u \in Threads : \/ job'[u] = jobs[u]
                            \/ jobs[u].stage \in Waits
                               /\ job'[u] = [jobs[u] EXCEPT !.stage = Connected(@)]
  BY Counts, FreesKeeps
<1>2. JobInv'
  BY <1>1 DEF JobInv
<1>3. TypeOK'
  BY <1>1, <1>2, TypeParts, JobsTyped DEF JobSide, Typed, walkVars
<1>4. DialInv'
  <2>1. ASSUME NEW u \in Threads
        PROVE  Undialled(job'[u].stage) \subseteq Undialled(jobs[u].stage)
    BY <1>1, ConnectedKeeps DEF Jobs
  <2>. QED  BY <2>1 DEF DialInv
<1>5. BalanceInv'
  <2>1. JobSlots(jobs) \in Nat /\ JobSlots(job) \in Nat /\ JobSlots(job') \in Nat
    BY SlotsCounted
  <2>2. used' \in Int /\ idle' \in Int /\ used \in Int /\ idle \in Int
    <3>1. used' \in 0 .. MaxConn /\ idle' \in 0 .. MaxIdle /\ used \in Nat /\ idle \in Nat
      BY <1>1, Counts
    <3>. QED  BY <3>1, MaxConnAssumption, IdleAssumption
  <2>3. MaxConn > 0 => used = JobSlots(job) + idle + Cardinality(Dials(dial)) + Cardinality(Holders(lister))
    BY DEF JobSide, BalanceInv
  <2>4. lister' = lister
    BY DEF walkVars
  <2>5. MaxConn > 0 => used' = JobSlots(job') + idle' + Cardinality(Dials(dial')) + Cardinality(Holders(lister))
    <3>1. /\ Cardinality(Dials(dial)) \in Int /\ Cardinality(Dials(dial')) \in Int
          /\ Cardinality(Holders(lister)) \in Int
      BY DialsAreCounted
    <3>2. SUFFICES ASSUME MaxConn > 0
                   PROVE  used' = JobSlots(job') + idle' + Cardinality(Dials(dial')) + Cardinality(Holders(lister))
      OBVIOUS
    <3>3. /\ used' - JobSlots(job') - idle' = used - JobSlots(jobs) - idle - 1
          /\ JobSlots(jobs) + Cardinality(Dials(dial')) = JobSlots(job) + Cardinality(Dials(dial)) - 1
          /\ used = JobSlots(job) + idle + Cardinality(Dials(dial)) + Cardinality(Holders(lister))
      BY <1>1, <2>3, <3>2
    <3>. QED  BY <2>1, <2>2, <3>1, <3>3
  <2>. QED  BY <2>4, <2>5 DEF BalanceInv
<1>6. BusyIsChecked'
  <2>1. ASSUME working' = 2
        PROVE  \E u \in Requests :
                 job'[u].op = "serve" /\ job'[u].stage \in {"renew", "stat", "putConn", "put", "get"}
    <3>1. PICK u \in Requests :
            jobs[u].op = "serve" /\ jobs[u].stage \in {"renew", "stat", "putConn", "put", "get"}
      BY <2>1
    <3>2. u \in Threads
      BY DEF Threads
    <3>3. CASE job'[u] = jobs[u]
      BY <3>1, <3>3
    <3>4. CASE jobs[u].stage \in Waits /\ job'[u] = [jobs[u] EXCEPT !.stage = Connected(@)]
      <4>1. Fits(u, jobs[u]) /\ jobs[u].stage = "putConn"
        BY <3>1, <3>2, <3>4 DEF Waits, Jobs
      <4>2. job'[u].op = "serve" /\ job'[u].stage = "put"
        BY <3>1, <3>2, <3>4, <4>1, ConnectedKeeps
      <4>. QED  BY <4>2
    <3>. QED  BY <1>1, <3>2, <3>3, <3>4
  <2>. QED  BY <2>1 DEF BusyIsChecked
<1>. QED  BY <1>2, <1>3, <1>4, <1>5, <1>6 DEF JobSide

\* A goroutine is done with its connection.
LEMMA FreesStep ==
  ASSUME JobSide, NEW t \in Threads, NEW r, Fits(t, r), Frees([job EXCEPT ![t] = r]),
         job[t].stage \notin Waits, Weight(job[t]) = Weight(r) + 1,
         UNCHANGED <<dial, walkVars>>, RestOK', Undialled(r.stage) \subseteq Undialled(job[t].stage),
         working' = 2 => \/ working = 2 /\ job[t].stage # "put" /\ job[t].stage # "get"
                            /\ job[t].stage \notin {"renew", "stat"}
                         \/ working = 2 /\ r.stage = "get" /\ r.op = job[t].op
                         \/ working = 2 /\ job[t].op # "serve"
  PROVE  JobSide'
<1>. DEFINE jobs == [job EXCEPT ![t] = r]
<1>1. Jobs(jobs) /\ jobs[t] = r /\ \A u \in Threads : u # t => jobs[u] = job[u]
  BY DEF JobSide, JobInv, Jobs
<1>2. Frees(jobs)
  OBVIOUS
<1>. HIDE DEF jobs
<1>3. \A u \in Waiters : jobs[u] = job[u]
  BY <1>1 DEF Waiters
<1>4. JobSlots(jobs) + Cardinality(Dials(dial')) = JobSlots(job) + Cardinality(Dials(dial)) - 1
  <2>1. /\ JobSlots(job) \in Nat /\ JobSlots(jobs) \in Nat
        /\ JobSlots(jobs) = JobSlots(job) + Weight(r) - Weight(job[t])
    BY <1>1, JobSlotsChange
  <2>2. Weight(r) \in Nat
    BY Weights
  <2>. QED  BY <2>1, <2>2, DialsAreCounted
<1>5. \A u \in Threads : \A k \in Undialled(jobs[u].stage) : dial'[u][k] = "no"
  BY <1>1 DEF JobSide, DialInv
<1>6. working' = 2 => \E u \in Requests :
        jobs[u].op = "serve" /\ jobs[u].stage \in {"renew", "stat", "putConn", "put", "get"}
  BY <1>1 DEF JobSide, BusyIsChecked, Threads, Waits
<1>7. dial' \in DialTable /\ UNCHANGED walkVars
  BY Counts
<1>. QED  BY <1>1, <1>2, <1>3, <1>4, <1>5, <1>6, <1>7, Freed

LEMMA PutStep ==
  ASSUME JobSide, NEW t \in Threads, Put(t)
  PROVE  JobSide'
<1>1. /\ job[t].stage = "put" /\ Fits(t, job[t]) /\ job[t].op \in {"serve", "check", "measure"}
      /\ RestOK /\ UNCHANGED <<dial, lastCheck, walkVars, now, links, stored>>
  <2>1. job[t].stage = "put" /\ Fits(t, job[t])
    BY WeightIsNat DEF At, Put, JobSide
  <2>. QED  BY <2>1, Counts DEF Put, Fits, OpsAt
<1>2. Weight(job[t]) = 1 /\ job[t].stage \notin Waits
  BY <1>1, Weights DEF Waits
<1>3. CASE measured' = TRUE /\ Frees([job EXCEPT ![t].stage = HasMeasure(t)]) /\ UNCHANGED working
  <2>. DEFINE s == HasMeasure(t)
              r == [job[t] EXCEPT !.stage = s]
  <2>1. /\ s \in {"get", "ask"} /\ job[t].op \in OpsAt(s)
        /\ s = "ask" => job[t].op # "serve"
    BY <1>1 DEF HasMeasure, Checks, Fits, OpsAt
  <2>2. s \in Stages /\ s # "lock"
    BY <2>1 DEF Stages
  <2>. HIDE DEF s
  <2>3. Fits(t, r)
    BY <1>1, <2>1, <2>2, StageFits
  <2>4. r.stage = s /\ r.op = job[t].op
    BY <1>1 DEF Fits, JobType
  <2>5. Frees([job EXCEPT ![t] = r])
    <3>1. [job EXCEPT ![t].stage = HasMeasure(t)] = [job EXCEPT ![t] = r]
      BY DEF s
    <3>. QED  BY <1>3, <3>1
  <2>. HIDE DEF r
  <2>6. Weight(r) = 0
    BY <2>1, <2>3, <2>4, Weights
  <2>7. Weight(job[t]) = Weight(r) + 1
    BY <1>2, <2>6
  <2>8. RestOK'
    <3>1. measured' \in BOOLEAN
      BY <1>3
    <3>. QED  BY <1>1, <1>3, <3>1 DEF RestOK, Rest
  <2>9. Undialled(r.stage) \subseteq Undialled(job[t].stage)
    BY <1>1, <2>1, <2>4 DEF Undialled
  <2>10. working' = 2 => \/ working = 2 /\ r.stage = "get" /\ r.op = job[t].op
                         \/ working = 2 /\ job[t].op # "serve"
    BY <1>3, <2>1, <2>4
  <2>. QED  BY <1>1, <1>2, <2>3, <2>5, <2>7, <2>8, <2>9, <2>10, FreesStep
<1>4. CASE /\ Frees([job EXCEPT ![t] = Idle]) /\ UNCHANGED measured
           /\ working' = IF Checks(t) THEN 0 ELSE working
  <2>1. Fits(t, Idle) /\ Weight(job[t]) = Weight(Idle) + 1
    BY <1>2, IdleFits
  <2>2. RestOK' /\ (working' = 2 => working = 2 /\ job[t].op # "serve")
    BY <1>1, <1>4 DEF RestOK, Rest, Checks
  <2>3. Undialled(Idle.stage) = {}
    BY DEF Undialled, Idle
  <2>. QED  BY <1>1, <1>2, <1>4, <2>1, <2>2, <2>3, FreesStep
<1>. QED  BY <1>3, <1>4 DEF Put

LEMMA AnsweredStep ==
  ASSUME JobSide, NEW t \in Threads, Answered(t)
  PROVE  JobSide'
<1>. DEFINE r == IF OwnsSlot(t) THEN [job[t] EXCEPT !.stage = "last"] ELSE Idle
<1>1. job[t].stage = "busy" /\ Fits(t, job[t]) /\ job[t].op \in {"serve", "measure", "create"}
  <2>1. job[t].stage = "busy" /\ Fits(t, job[t])
    BY WeightIsNat DEF At, Answered, JobSide
  <2>. QED  BY <2>1 DEF Answered, At, OnConn
<1>2. job[t].op \in Ops /\ job[t].hash \in Hashes /\ job[t].stage \notin Waits
  BY <1>1 DEF Fits, Ops, Waits
<1>3. Fits(t, r) /\ Weight(job[t]) = Weight(r) + 1
  <2>1. CASE job[t].op = "serve"
    <3>1. r = [job[t] EXCEPT !.stage = "last"]
      BY <1>1, <2>1 DEF OwnsSlot
    <3>2. "last" \in Stages /\ "last" # "lock" /\ job[t].op \in OpsAt("last")
      BY <2>1 DEF Stages, OpsAt
    <3>3. Fits(t, r)
      BY <1>1, <3>1, <3>2, StageFits
    <3>4. r.stage = "last"
      BY <1>1, <3>1 DEF Fits, JobType
    <3>. HIDE DEF r
    <3>5. Weight(r) = 1 /\ Weight(job[t]) = 2
      BY <1>1, <2>1, <3>3, <3>4, Weights
    <3>. QED  BY <3>3, <3>5
  <2>2. CASE job[t].op # "serve"
    <3>1. r = Idle
      BY <1>1, <2>2 DEF OwnsSlot
    <3>. HIDE DEF r
    <3>2. Weight(job[t]) = 1
      BY <1>1, <2>2, Weights
    <3>. QED  BY <3>1, <3>2, IdleFits
  <2>. QED  BY <2>1, <2>2
<1>4. Undialled(r.stage) = {}
  BY <1>1 DEF Undialled, Idle, Fits, JobType
<1>5. Frees([job EXCEPT ![t] = r])
  <2>1. [job EXCEPT ![t] = r] = [job EXCEPT ![t] = IF OwnsSlot(t) THEN [@ EXCEPT !.stage = "last"] ELSE Idle]
    OBVIOUS
  <2>. QED  BY <2>1 DEF Answered
<1>. HIDE DEF r
<1>6. UNCHANGED <<dial, walkVars>> /\ RestOK' /\ working' = working
  <2>1. UNCHANGED <<dial, healthVars, walkVars, now>>
    BY DEF Answered
  <2>2. links' \subseteq Hashes /\ stored' \subseteq Hashes
    BY <1>2, Counts DEF Answered, RestOK, Rest
  <2>. QED  BY <2>1, <2>2, Counts DEF RestOK, Rest, healthVars
<1>. QED  BY <1>1, <1>2, <1>3, <1>4, <1>5, <1>6, FreesStep
-----------------------------------------------------------------------------
(* A slot is given back by its owner, and the rest *)

\* A goroutine leaves with the slot it has, or without one.
LEMMA LeavingStep ==
  ASSUME JobSide, NEW t \in Threads, Ends(t), Weight(job[t]) \in {0, 1},
         IF Weight(job[t]) = 1 THEN Release ELSE UNCHANGED used,
         job[t].stage \notin {"renew", "stat", "putConn", "put", "get"},
         UNCHANGED <<dial, idle, healthVars, walkVars, now, links, stored>>
  PROVE  JobSide'
<1>1. job' = [job EXCEPT ![t] = Idle] /\ Fits(t, Idle) /\ Weight(Idle) = 0
  BY IdleFits DEF Ends
<1>2. RestOK' /\ working' = working /\ dial' = dial /\ idle' = idle /\ UNCHANGED walkVars
  BY Counts DEF RestOK, Rest, healthVars
<1>3. used' \in 0 .. MaxConn /\ (MaxConn > 0 => used' = used - Weight(job[t]))
  BY Counts, MaxConnAssumption DEF Release
<1>4. MaxConn > 0 => used' - Weight(Idle) - idle' - Cardinality(Dials(dial'))
                       = used - Weight(job[t]) - idle - Cardinality(Dials(dial))
  <2>1. used \in Nat /\ idle \in Nat /\ Cardinality(Dials(dial)) \in Nat
    BY Counts, DialsAreCounted
  <2>. QED  BY <1>1, <1>2, <1>3, <2>1
<1>5. Undialled(Idle.stage) = {}
  BY DEF Undialled, Idle
<1>6. ~Checking(job[t])
  BY DEF Checking
<1>. QED  BY <1>1, <1>2, <1>3, <1>4, <1>5, <1>6, Counts, OneStep

LEMMA GiveUpStep ==
  ASSUME JobSide, NEW t \in Threads, GiveUp(t)
  PROVE  JobSide'
<1>1. /\ job[t].stage \in {"slot", "conn"} /\ Fits(t, job[t]) /\ job[t].op \in {"serve", "measure"}
      /\ Ends(t) /\ UNCHANGED <<dial, idle, healthVars, walkVars, now, links, stored>>
  BY WeightIsNat DEF At, GiveUp, JobSide, HasContext
<1>2. Weight(job[t]) = IF OwnsSlot(t) THEN 1 ELSE 0
  BY <1>1, Weights DEF OwnsSlot
<1>3. IF Weight(job[t]) = 1 THEN Release ELSE UNCHANGED used
  BY <1>2 DEF GiveUp
<1>. QED  BY <1>1, <1>2, <1>3, LeavingStep

LEMMA LeavesStep ==
  ASSUME JobSide, NEW t \in Threads, Leaves(t)
  PROVE  JobSide'
<1>1. /\ Fits(t, job[t]) /\ Ends(t) /\ Release
      /\ UNCHANGED <<dial, idle, healthVars, walkVars, now, links, stored>>
      /\ job[t].stage = "last" \/ (job[t].stage = "busy" /\ job[t].op # "serve")
  BY WeightIsNat DEF At, Leaves, JobSide, OnConn
<1>2. Weight(job[t]) = 1
  BY <1>1, Weights
<1>. QED  BY <1>1, <1>2, LeavingStep

\* No goroutine goes on: slots change hands, or the rest of the state changes.
LEMMA OtherStep ==
  ASSUME JobSide, UNCHANGED <<job, working>>, RestOK', used' \in 0 .. MaxConn, idle' \in 0 .. MaxIdle,
         dial' \in DialTable, walk' \in WalkTable, lister' \in ListerTable,
         \A t \in Threads : \A k \in Waits : dial[t][k] = "no" => dial'[t][k] = "no",
         MaxConn > 0 => used' - idle' - Cardinality(Dials(dial')) - Cardinality(Holders(lister'))
                          = used - idle - Cardinality(Dials(dial)) - Cardinality(Holders(lister))
  PROVE  JobSide'
<1>1. JobInv' /\ BusyIsChecked'
  BY DEF JobSide, JobInv, BusyIsChecked
<1>2. TypeOK'
  BY <1>1, TypeParts, JobsTyped DEF JobSide, Typed
<1>3. DialInv'
  <2>1. \A t \in Threads : Undialled(job[t].stage) \subseteq Waits
    BY DEF Undialled, Waits
  <2>. QED  BY <2>1 DEF JobSide, DialInv
<1>4. BalanceInv'
  <2>1. used' \in Int /\ idle' \in Int /\ used \in Int /\ idle \in Int /\ JobSlots(job) \in Nat
    BY Counts, SlotsCounted, MaxConnAssumption, IdleAssumption
  <2>. QED  BY <2>1, DialsAreCounted DEF JobSide, BalanceInv
<1>. QED  BY <1>1, <1>2, <1>3, <1>4 DEF JobSide
-----------------------------------------------------------------------------
(* Dials *)

\* A dial goes on: the table, and how many hold a slot.
LEMMA DialGoesOn ==
  ASSUME JobSide, NEW t \in Threads, NEW k \in Waits, NEW x \in {"no", "dialing"}, DialGoes(t, k, x)
  PROVE  /\ dial' \in DialTable /\ dial'[t][k] = x
         /\ \A u \in Threads : \A m \in Waits : <<u, m>> # <<t, k>> => dial'[u][m] = dial[u][m]
         /\ \A u \in Threads : u # t => dial'[u] = dial[u]
         /\ x = "no" /\ dial[t][k] = "bound" => Cardinality(Dials(dial')) = Cardinality(Dials(dial))
         /\ x = "no" /\ dial[t][k] = "dialing" => Cardinality(Dials(dial')) = Cardinality(Dials(dial)) - 1
         /\ x = "dialing" /\ dial[t][k] # "dialing" => Cardinality(Dials(dial')) = Cardinality(Dials(dial)) + 1
<1>1. dial \in [Threads -> [Waits -> {"no", "waiting", "bound", "dialing"}]] /\ dial' = [dial EXCEPT ![t][k] = x]
  BY Counts DEF DialTable, DialGoes
<1>2. /\ x = "no" /\ dial[t][k] = "bound" => Cardinality(Dials(dial')) = Cardinality(Dials(dial))
      /\ x = "no" /\ dial[t][k] = "dialing" => Cardinality(Dials(dial')) = Cardinality(Dials(dial)) - 1
      /\ x = "dialing" /\ dial[t][k] # "dialing" => Cardinality(Dials(dial')) = Cardinality(Dials(dial)) + 1
  BY <1>1, DialsChange
<1>3. /\ dial' \in DialTable /\ dial'[t][k] = x
      /\ \A u \in Threads : \A m \in Waits : <<u, m>> # <<t, k>> => dial'[u][m] = dial[u][m]
      /\ \A u \in Threads : u # t => dial'[u] = dial[u]
  BY <1>1 DEF DialTable
<1>. QED  BY <1>2, <1>3

LEMMA WalksTyped ==
  ASSUME JobSide
  PROVE  walk \in WalkTable /\ lister \in ListerTable
BY TypeParts DEF JobSide, Typed

LEMMA DialSlotStep ==
  ASSUME JobSide, NEW t \in Threads, NEW k \in Waits, DialSlot(t, k)
  PROVE  JobSide'
<1>1. /\ DialGoes(t, k, "dialing") /\ dial[t][k] \in {"waiting", "bound"} /\ Acquire
      /\ UNCHANGED <<idle, healthVars, walkVars, now, job, links, stored>>
  BY DEF DialSlot
<1>2. used' \in 0 .. MaxConn /\ (MaxConn > 0 => used' = used + 1)
  BY <1>1, Counts, MaxConnAssumption DEF Acquire
<1>3. UNCHANGED <<job, working>> /\ RestOK' /\ walk' = walk /\ lister' = lister /\ idle' = idle
  BY <1>1, Counts DEF RestOK, Rest, healthVars, walkVars
<1>4. \A u \in Threads : \A m \in Waits : dial[u][m] = "no" => dial'[u][m] = "no"
  BY <1>1, DialGoesOn
<1>5. dial' \in DialTable /\ Cardinality(Dials(dial')) = Cardinality(Dials(dial)) + 1
  BY <1>1, DialGoesOn
<1>6. MaxConn > 0 => used' - idle' - Cardinality(Dials(dial')) - Cardinality(Holders(lister'))
                       = used - idle - Cardinality(Dials(dial)) - Cardinality(Holders(lister))
  BY <1>2, <1>3, <1>5, Counts, DialsAreCounted
<1>. QED  BY <1>2, <1>3, <1>4, <1>5, <1>6, Counts, WalksTyped, OtherStep

LEMMA DialDroppedStep ==
  ASSUME JobSide, NEW t \in Threads, NEW k \in Waits, DialDropped(t, k)
  PROVE  JobSide'
<1>1. /\ DialGoes(t, k, "no") /\ dial[t][k] = "bound"
      /\ UNCHANGED <<used, idle, healthVars, walkVars, now, job, links, stored>>
  BY DEF DialDropped, Dialling
<1>2. UNCHANGED <<used, job, working>> /\ RestOK' /\ walk' = walk /\ lister' = lister /\ idle' = idle
  BY <1>1, Counts DEF RestOK, Rest, healthVars, walkVars
<1>3. \A u \in Threads : \A m \in Waits : dial[u][m] = "no" => dial'[u][m] = "no"
  BY <1>1, DialGoesOn
<1>4. dial' \in DialTable /\ Cardinality(Dials(dial')) = Cardinality(Dials(dial))
  BY <1>1, DialGoesOn
<1>. QED  BY <1>2, <1>3, <1>4, Counts, WalksTyped, OtherStep

LEMMA ConnDialledStep ==
  ASSUME JobSide, NEW t \in Threads, NEW k \in Waits, ConnDialled(t, k)
  PROVE  JobSide'
<1>1. /\ DialGoes(t, k, "no") /\ dial[t][k] = "dialing"
      /\ UNCHANGED <<healthVars, walkVars, now, links, stored>>
  BY DEF ConnDialled, Dialling
<1>2. RestOK' /\ working' = working /\ UNCHANGED walkVars
  BY <1>1, Counts DEF RestOK, Rest, healthVars
<1>3. /\ dial' \in DialTable /\ Cardinality(Dials(dial')) = Cardinality(Dials(dial)) - 1
      /\ \A u \in Threads : \A m \in Waits : dial[u][m] = "no" => dial'[u][m] = "no"
      /\ \A u \in Threads : u # t => dial'[u] = dial[u]
  BY <1>1, DialGoesOn
<1>4. Cardinality(Dials(dial)) \in Nat /\ Cardinality(Dials(dial')) \in Nat /\ JobSlots(job) \in Nat
  BY DialsAreCounted, SlotsCounted
<1>5. \A s \in Stages : Undialled(s) \subseteq Waits
  BY DEF Undialled, Waits
<1>6. CASE At(t, k)
  <2>. DEFINE r == [job[t] EXCEPT !.stage = Connected(@)]
  <2>1. Fits(t, job[t]) /\ job[t].stage \in Waits /\ job[t].stage = k
    BY <1>6, WeightIsNat DEF JobSide, At
  <2>2. Fits(t, r) /\ Weight(r) = Weight(job[t]) + 1 /\ Weight(job[t]) \in Nat
    BY <2>1, ConnectedFits
  <2>3. Undialled(r.stage) \subseteq Undialled(job[t].stage) /\ (Checking(job[t]) => Checking(r))
    <3>1. Undialled(r.stage) \subseteq Undialled(job[t].stage) /\ r.op = job[t].op
          /\ (job[t].stage = "putConn" => r.stage = "put")
      BY <2>1, ConnectedKeeps
    <3>. QED  BY <2>1, <3>1 DEF Checking, Waits
  <2>4. job' = [job EXCEPT ![t] = r] /\ used' = used /\ idle' = idle
    BY <1>6, <2>1 DEF ConnDialled, Goes
  <2>. HIDE DEF r
  <2>5. \A m \in Undialled(r.stage) : dial'[t][m] = "no"
    BY <1>3, <1>5, <2>1, <2>3 DEF JobSide, DialInv, Fits, JobType
  <2>6. MaxConn > 0 => used' - Weight(r) - idle' - Cardinality(Dials(dial'))
                         = used - Weight(job[t]) - idle - Cardinality(Dials(dial))
    BY <1>3, <1>4, <2>2, <2>4, Counts
  <2>. QED  BY <1>2, <1>3, <2>2, <2>3, <2>4, <2>5, <2>6, Counts, OneStep
<1>7. CASE ~At(t, k)
  <2>1. Frees(job) /\ Jobs(job)
    BY <1>7 DEF ConnDialled, JobSide, JobInv
  <2>2. \A u \in Threads : \A m \in Undialled(job[u].stage) : dial'[u][m] = "no"
    BY <1>3, <1>5 DEF JobSide, DialInv, JobInv, Jobs, Fits, JobType
  <2>3. working' = 2 => \E u \in Requests :
          job[u].op = "serve" /\ job[u].stage \in {"renew", "stat", "putConn", "put", "get"}
    BY <1>2 DEF JobSide, BusyIsChecked
  <2>4. JobSlots(job) + Cardinality(Dials(dial')) = JobSlots(job) + Cardinality(Dials(dial)) - 1
    BY <1>3, <1>4
  <2>. QED  BY <1>2, <1>3, <2>1, <2>2, <2>3, <2>4, Freed
<1>. QED  BY <1>6, <1>7

LEMMA DialFailsStep ==
  ASSUME JobSide, NEW t \in Threads, NEW k \in Waits, DialFails(t, k)
  PROVE  JobSide'
<1>1. /\ DialGoes(t, k, "no") /\ dial[t][k] = "dialing" /\ Release
      /\ UNCHANGED <<idle, lastCheck, measured, walkVars, now, links, stored>>
  BY DEF DialFails, Dialling
<1>2. used' \in 0 .. MaxConn /\ (MaxConn > 0 => used' = used - 1)
  BY <1>1, Counts, MaxConnAssumption DEF Release
<1>3. /\ dial' \in DialTable /\ Cardinality(Dials(dial')) = Cardinality(Dials(dial)) - 1
      /\ \A u \in Threads : \A m \in Waits : dial[u][m] = "no" => dial'[u][m] = "no"
      /\ \A u \in Threads : u # t => dial'[u] = dial[u]
  BY <1>1, DialGoesOn
<1>4. /\ Cardinality(Dials(dial)) \in Nat /\ Cardinality(Dials(dial')) \in Nat
      /\ Cardinality(Holders(lister)) \in Nat /\ used \in Nat /\ idle \in Nat /\ idle' = idle
  BY <1>1, DialsAreCounted, Counts
<1>5. CASE ~At(t, k)
  <2>1. UNCHANGED <<job, working>> /\ RestOK' /\ walk' = walk /\ lister' = lister
    BY <1>1, <1>5, Counts DEF DialFails, RestOK, Rest, walkVars
  <2>2. MaxConn > 0 => used' - idle' - Cardinality(Dials(dial')) - Cardinality(Holders(lister'))
                         = used - idle - Cardinality(Dials(dial)) - Cardinality(Holders(lister))
    BY <1>2, <1>3, <1>4, <2>1
  <2>. QED  BY <1>2, <1>3, <1>4, <2>1, <2>2, Counts, WalksTyped, OtherStep
<1>6. ASSUME At(t, k), NEW r, Fits(t, r), job' = [job EXCEPT ![t] = r], Weight(r) = Weight(job[t]),
             Undialled(r.stage) = {}, RestOK', working' = 2 => working = 2 /\ ~Checking(job[t])
      PROVE  JobSide'
  <2>1. Weight(r) \in Nat
    BY <1>6, Weights
  <2>2. MaxConn > 0 => used' - Weight(r) - idle' - Cardinality(Dials(dial'))
                         = used - Weight(job[t]) - idle - Cardinality(Dials(dial))
    BY <1>2, <1>3, <1>4, <1>6, <2>1
  <2>. QED  BY <1>1, <1>2, <1>3, <1>4, <1>6, <2>2, Counts, OneStep
<1>7. Fits(t, job[t]) /\ RestOK
  BY WeightIsNat, Counts DEF JobSide
<1>8. CASE At(t, k) /\ k = "putConn"
  <2>1. job[t].stage = "putConn" /\ NoMeasure(t)
    BY <1>8 DEF At, DialFails
  <2>2. Weight(Idle) = Weight(job[t]) /\ Fits(t, Idle) /\ Undialled(Idle.stage) = {}
    BY <1>7, <2>1, Weights, IdleFits DEF Undialled, Idle
  <2>3. job' = [job EXCEPT ![t] = Idle] /\ working' = IF Checks(t) THEN 0 ELSE working
    BY <2>1 DEF NoMeasure, Verdict, Ends
  <2>4. RestOK'
    BY <1>1, <1>7, <2>3 DEF RestOK, Rest
  <2>5. working' = 2 => working = 2 /\ ~Checking(job[t])
    BY <2>3 DEF Checks, Checking
  <2>. QED  BY <1>6, <1>8, <2>2, <2>3, <2>4, <2>5
<1>9. CASE At(t, k) /\ k = "conn"
  <2>1. /\ job[t].stage = "conn" /\ working' = working
        /\ IF OwnsSlot(t) THEN Goes(t, "last") ELSE Ends(t)
    BY <1>9 DEF At, DialFails
  <2>2. RestOK' /\ ~Checking(job[t])
    BY <1>1, <1>7, <2>1 DEF RestOK, Rest, Checking
  <2>3. CASE job[t].op = "serve"
    <3>. DEFINE r == [job[t] EXCEPT !.stage = "last"]
    <3>1. Goes(t, "last") /\ "last" \in Stages /\ job[t].op \in OpsAt("last")
      BY <2>1, <2>3 DEF OwnsSlot, Stages, OpsAt
    <3>2. Fits(t, r) /\ job' = [job EXCEPT ![t] = r] /\ r.stage = "last"
      BY <3>1, Goes1 DEF JobSide
    <3>. HIDE DEF r
    <3>3. Weight(r) = Weight(job[t])
      BY <1>7, <2>1, <2>3, <3>2, Weights
    <3>4. Undialled(r.stage) = {}
      BY <3>2 DEF Undialled
    <3>. QED  BY <1>6, <1>9, <2>1, <2>2, <3>2, <3>3, <3>4
  <2>4. CASE job[t].op # "serve"
    <3>1. job[t].op \notin {"size", "open"}
      BY <1>7, <2>1 DEF Fits, OpsAt
    <3>2. job' = [job EXCEPT ![t] = Idle]
      BY <2>1, <2>4, <3>1 DEF OwnsSlot, Ends
    <3>3. Weight(Idle) = Weight(job[t]) /\ Fits(t, Idle) /\ Undialled(Idle.stage) = {}
      BY <1>7, <2>1, <2>4, Weights, IdleFits DEF Undialled, Idle
    <3>. QED  BY <1>6, <1>9, <2>1, <2>2, <3>2, <3>3
  <2>. QED  BY <2>3, <2>4
<1>. QED  BY <1>5, <1>8, <1>9 DEF Waits

LEMMA IdleClosedStep ==
  ASSUME JobSide, IdleClosed
  PROVE  JobSide'
<1>1. UNCHANGED <<job, working, dial>> /\ RestOK' /\ walk' = walk /\ lister' = lister
  BY Counts DEF IdleClosed, RestOK, Rest, healthVars, walkVars
<1>2. used' \in 0 .. MaxConn /\ idle' \in 0 .. MaxIdle
  BY Counts, MaxConnAssumption, IdleAssumption DEF IdleClosed, Release
<1>3. MaxConn > 0 => used' = used - 1 /\ idle' = idle - 1
  BY DEF IdleClosed, Release
<1>4. MaxConn > 0 => used' - idle' - Cardinality(Dials(dial')) - Cardinality(Holders(lister'))
                       = used - idle - Cardinality(Dials(dial)) - Cardinality(Holders(lister))
  BY <1>1, <1>3, Counts, DialsAreCounted
<1>. QED  BY <1>1, <1>2, <1>4, Counts, WalksTyped, OtherStep

\* Neither a slot nor a goroutine is concerned.
LEMMA AsideStep ==
  ASSUME JobSide, UNCHANGED <<slotVars, lister, job, working>>, RestOK', walk' \in WalkTable
  PROVE  JobSide'
<1>1. used' = used /\ dial' = dial /\ idle' = idle
  BY DEF slotVars
<1>. QED  BY <1>1, Counts, WalksTyped, OtherStep
-----------------------------------------------------------------------------
(* Walks *)

WaitsFor == {"slot", "list", "send"}

\* One goroutine of a walk goes on: the entries it owes.
LEMMA PendingChange ==
  ASSUME lister \in ListerTable, NEW w \in Walks, NEW d \in Dirs, NEW l \in ListerType, Lists(w, d, l)
  PROVE  /\ Cardinality(Pending(w)) \in Nat /\ Cardinality(Pending(w)') \in Nat
         /\ lister'[w][d] = l
         /\ \A e \in Dirs : e # d => lister'[w][e] = lister[w][e]
         /\ \A v \in Walks : v # w => lister'[v] = lister[v] /\ Pending(v)' = Pending(v)
         /\ (l.stage \in WaitsFor <=> lister[w][d].stage \in WaitsFor) =>
              /\ Cardinality(Pending(w)') = Cardinality(Pending(w))
              /\ Pending(w)' = Pending(w)
         /\ l.stage \notin WaitsFor /\ lister[w][d].stage \in WaitsFor =>
              /\ Cardinality(Pending(w)') = Cardinality(Pending(w)) - 1
              /\ d \in Pending(w)
<1>1. /\ lister'[w][d] = l
      /\ \A e \in Dirs : e # d => lister'[w][e] = lister[w][e]
      /\ \A v \in Walks : v # w => lister'[v] = lister[v]
  BY DEF Lists, ListerTable
<1>2. /\ Pending(w) \in SUBSET Dirs /\ Pending(w)' \in SUBSET Dirs
      /\ \A e \in Dirs : e # d => (e \in Pending(w) <=> e \in Pending(w)')
      /\ d \in Pending(w) <=> lister[w][d].stage \in WaitsFor
      /\ d \in Pending(w)' <=> l.stage \in WaitsFor
  BY <1>1 DEF Pending, WaitsFor
<1>3. \A v \in Walks : v # w => Pending(v)' = Pending(v)
  BY <1>1 DEF Pending
<1>4. /\ Cardinality(Pending(w)) \in Nat /\ Cardinality(Pending(w)') \in Nat
      /\ Cardinality(Pending(w)') = Cardinality(Pending(w)) + One(d \in Pending(w)') - One(d \in Pending(w))
  BY <1>2, DirsAssumption, CountChanges
<1>5. (l.stage \in WaitsFor <=> lister[w][d].stage \in WaitsFor) => Pending(w)' = Pending(w)
  BY <1>2
<1>. QED  BY <1>1, <1>2, <1>3, <1>4, <1>5 DEF One

LEMMA PendingCounted == \A w \in Walks : Cardinality(Pending(w)) \in Nat
<1>1. \A w \in Walks : Pending(w) \subseteq Dirs
  BY DEF Pending
<1>. QED  BY <1>1, DirsAssumption, FS_Subset, FS_CardinalityType

LEMMA WalkUnmoved ==
  ASSUME WalkInv, UNCHANGED walkVars, stored \subseteq stored'
  PROVE  WalkInv'
<1>1. walk' = walk /\ lister' = lister
  BY DEF walkVars
<1>2. \A w \in Walks : Pending(w)' = Pending(w)
  BY <1>1 DEF Pending
<1>. QED  BY <1>1, <1>2 DEF WalkInv, CountInv, EndInv, KeptInv, SeenInv, Covered

\* A goroutine of a walk that owes its entry still does, and the walk stays as it is.
LEMMA ListerGoesOn ==
  ASSUME IInv, NEW w \in Walks, NEW d \in Dirs, NEW l \in ListerType, Lists(w, d, l),
         UNCHANGED <<walk, stored>>, lister[w][d].stage # "none",
         l.stage \in WaitsFor <=> lister[w][d].stage \in WaitsFor,
         \A h \in walk[w].kept : DirOf[h] = d /\ Covered(w, h) =>
           \/ h \in walk[w].seen \/ l.skipped \/ l.stage \in {"slot", "list"}
           \/ l.stage = "send" /\ h \in l.files
  PROVE  WalkInv'
<1>1. /\ lister'[w][d] = l /\ Pending(w)' = Pending(w)
      /\ \A e \in Dirs : e # d => lister'[w][e] = lister[w][e]
      /\ \A v \in Walks : v # w => lister'[v] = lister[v] /\ Pending(v)' = Pending(v)
  BY WalksTyped, PendingChange DEF IInv
<1>2. CountInv'
  BY <1>1 DEF IInv, WalkInv, CountInv
<1>3. EndInv'
  BY <1>1 DEF IInv, WalkInv, EndInv
<1>4. KeptInv'
  BY DEF IInv, WalkInv, KeptInv
<1>5. SeenInv'
  <2>1. ASSUME NEW v \in Walks, walk[v].stage \in {"walking", "ended"}, NEW h \in walk[v].kept
        PROVE  Covered(v, h)'
    <3>1. h \in Hashes /\ DirOf[h] \in Dirs /\ Covered(v, h)
      BY <2>1, WalksTyped, DirsAssumption DEF IInv, WalkInv, SeenInv, WalkTable, WalkType
    <3>2. CASE v = w /\ DirOf[h] = d
      BY <1>1, <2>1, <3>1, <3>2 DEF Covered
    <3>3. CASE ~(v = w /\ DirOf[h] = d)
      BY <1>1, <3>1, <3>3 DEF Covered
    <3>. QED  BY <3>2, <3>3
  <2>. QED  BY <2>1 DEF SeenInv
<1>. QED  BY <1>2, <1>3, <1>4, <1>5 DEF WalkInv

\* The same for the slots.
LEMMA ListerSlots ==
  ASSUME JobSide, NEW w \in Walks, NEW d \in Dirs, NEW l \in ListerType, Lists(w, d, l),
         UNCHANGED <<dial, idle, healthVars, now, job, links, stored>>, walk' \in WalkTable,
         used' \in 0 .. MaxConn,
         \/ (l.stage \in Holding <=> lister[w][d].stage \in Holding) /\ used' = used
         \/ l.stage \in Holding /\ lister[w][d].stage \notin Holding /\ (MaxConn > 0 => used' = used + 1)
         \/ l.stage \notin Holding /\ lister[w][d].stage \in Holding /\ (MaxConn > 0 => used' = used - 1)
  PROVE  JobSide'
<1>1. UNCHANGED <<job, working, dial, idle>> /\ RestOK'
  BY Counts DEF RestOK, Rest, healthVars
<1>2. /\ lister' \in ListerTable
      /\ (l.stage \in Holding <=> lister[w][d].stage \in Holding) =>
           Cardinality(Holders(lister')) = Cardinality(Holders(lister))
      /\ l.stage \notin Holding /\ lister[w][d].stage \in Holding =>
           Cardinality(Holders(lister')) = Cardinality(Holders(lister)) - 1
      /\ l.stage \in Holding /\ lister[w][d].stage \notin Holding =>
           Cardinality(Holders(lister')) = Cardinality(Holders(lister)) + 1
  BY WalksTyped, HoldersChange
<1>3. MaxConn > 0 => used' - idle' - Cardinality(Dials(dial')) - Cardinality(Holders(lister'))
                       = used - idle - Cardinality(Dials(dial)) - Cardinality(Holders(lister))
  BY <1>1, <1>2, Counts, DialsAreCounted
<1>. QED  BY <1>1, <1>2, <1>3, Counts, OtherStep

LEMMA ListerSlotStep ==
  ASSUME IInv, NEW w \in Walks, NEW d \in Dirs, ListerSlot(w, d)
  PROVE  IInv'
<1>. DEFINE l == [lister[w][d] EXCEPT !.stage = "list"]
<1>1. /\ lister[w][d] \in ListerType /\ lister[w][d].stage = "slot" /\ Lists(w, d, l) /\ Acquire
      /\ UNCHANGED <<dial, idle, healthVars, now, job, links, stored, walk>>
  BY WalksTyped DEF ListerSlot, Lister, Step, others, ListerTable, IInv
<1>2. l \in ListerType /\ l.stage = "list"
  BY <1>1 DEF ListerType
<1>. HIDE DEF l
<1>3. used' \in 0 .. MaxConn /\ (MaxConn > 0 => used' = used + 1) /\ walk' \in WalkTable
  BY <1>1, Counts, WalksTyped, MaxConnAssumption DEF Acquire, IInv
<1>4. JobSide'
  BY <1>1, <1>2, <1>3, ListerSlots DEF IInv, Holding
<1>5. WalkInv'
  BY <1>1, <1>2, ListerGoesOn DEF WaitsFor
<1>. QED  BY <1>4, <1>5 DEF IInv

LEMMA ListStep ==
  ASSUME IInv, NEW w \in Walks, NEW d \in Dirs, List(w, d)
  PROVE  IInv'
<1>1. /\ lister[w][d].stage = "list" /\ used' = used /\ used \in 0 .. MaxConn /\ walk' \in WalkTable
      /\ UNCHANGED <<dial, idle, healthVars, now, job, links, stored, walk>>
  BY WalksTyped, Counts DEF List, Lister, others, slotVars, IInv
<1>2. PICK l : /\ Lists(w, d, l)
               /\ \/ l = [stage |-> "send", files |-> {h \in stored : DirOf[h] = d}, skipped |-> FALSE]
                  \/ l = [stage |-> "send", files |-> {}, skipped |-> TRUE]
  BY DEF List
<1>3. l \in ListerType /\ l.stage = "send"
  <2>1. stored \subseteq Hashes
    BY Counts DEF IInv, RestOK, Rest
  <2>2. ASSUME NEW F \in SUBSET Hashes, NEW b \in BOOLEAN
        PROVE  [stage |-> "send", files |-> F, skipped |-> b] \in ListerType
    BY DEF ListerType
  <2>3. {h \in stored : DirOf[h] = d} \in SUBSET Hashes /\ {} \in SUBSET Hashes
    BY <2>1
  <2>4. l \in ListerType
    BY <1>2, <2>2, <2>3
  <2>. QED  BY <1>2, <2>4
<1>4. \A h \in walk[w].kept : DirOf[h] = d => l.skipped \/ h \in l.files
  <2>1. walk[w].kept \subseteq stored
    BY DEF IInv, WalkInv, KeptInv
  <2>. QED  BY <1>2, <2>1
<1>5. JobSide'
  BY <1>1, <1>2, <1>3, ListerSlots DEF IInv, Holding
<1>6. WalkInv'
  BY <1>1, <1>2, <1>3, <1>4, ListerGoesOn DEF WaitsFor
<1>. QED  BY <1>5, <1>6 DEF IInv

LEMMA ListerLeavesStep ==
  ASSUME IInv, NEW w \in Walks, NEW d \in Dirs, ListerLeaves(w, d)
  PROVE  IInv'
<1>. DEFINE l == [lister[w][d] EXCEPT !.stage = "none"]
<1>1. /\ lister[w][d] \in ListerType /\ lister[w][d].stage = "last" /\ Lists(w, d, l) /\ Release
      /\ UNCHANGED <<dial, idle, healthVars, now, job, links, stored, walk>>
  BY WalksTyped DEF ListerLeaves, Lister, Step, others, ListerTable, IInv
<1>2. l \in ListerType /\ l.stage = "none" /\ l.skipped = lister[w][d].skipped
  BY <1>1 DEF ListerType
<1>. HIDE DEF l
<1>3. used' \in 0 .. MaxConn /\ (MaxConn > 0 => used' = used - 1) /\ walk' \in WalkTable
  BY <1>1, Counts, WalksTyped, MaxConnAssumption DEF Release, IInv
<1>4. JobSide'
  BY <1>1, <1>2, <1>3, ListerSlots DEF IInv, Holding
<1>5. \A h \in walk[w].kept : DirOf[h] = d /\ Covered(w, h) => h \in walk[w].seen \/ l.skipped
  BY <1>1, <1>2 DEF Covered
<1>6. WalkInv'
  BY <1>1, <1>2, <1>5, ListerGoesOn DEF WaitsFor
<1>. QED  BY <1>4, <1>6 DEF IInv

LEMMA ReceiveStep ==
  ASSUME IInv, NEW w \in Walks, NEW d \in Dirs, NEW h \in Hashes, Receive(w, d, h)
  PROVE  IInv'
<1>. DEFINE l == [lister[w][d] EXCEPT !.files = @ \ {h}]
<1>1. /\ lister[w][d] \in ListerType /\ lister[w][d].stage = "send" /\ Lists(w, d, l)
      /\ walk[w].stage = "walking" /\ walk \in WalkTable /\ used' = used
      /\ UNCHANGED <<dial, idle, healthVars, now, job, links, stored>>
  BY WalksTyped DEF Receive, Lister, others, slotVars, ListerTable, IInv
<1>2. l \in ListerType /\ l.stage = "send" /\ l.files = lister[w][d].files \ {h} /\ l.skipped = lister[w][d].skipped
  BY <1>1 DEF ListerType
<1>3. \/ walk' = [walk EXCEPT ![w].seen = @ \cup {h}]
      \/ walk' = [walk EXCEPT ![w].stage = "givenUp"]
  BY DEF Receive
<1>. HIDE DEF l
<1>4. walk' \in WalkTable
  BY <1>1, <1>3 DEF WalkTable, WalkType
<1>5. /\ walk'[w].done = walk[w].done /\ walk'[w].count = walk[w].count /\ walk'[w].kept = walk[w].kept
      /\ \/ walk'[w].seen = walk[w].seen \cup {h} /\ walk'[w].stage = "walking"
         \/ walk'[w].stage = "givenUp"
      /\ \A v \in Walks : v # w => walk'[v] = walk[v]
  BY <1>1, <1>3 DEF WalkTable, WalkType
<1>6. /\ lister'[w][d] = l /\ Pending(w)' = Pending(w)
      /\ \A e \in Dirs : e # d => lister'[w][e] = lister[w][e]
      /\ \A v \in Walks : v # w => lister'[v] = lister[v] /\ Pending(v)' = Pending(v)
  BY <1>1, <1>2, WalksTyped, PendingChange DEF IInv, WaitsFor
<1>7. JobSide'
  <2>1. used' \in 0 .. MaxConn
    BY <1>1, Counts DEF IInv
  <2>. QED  BY <1>1, <1>2, <1>4, <2>1, ListerSlots DEF IInv, Holding
<1>8. CountInv'
  <2>1. ASSUME NEW v \in Walks, v # w
        PROVE  IF walk'[v].stage = "none" THEN \A e \in Dirs : lister'[v][e].stage = "none"
               ELSE walk'[v].done = Cardinality(Pending(v)') + Cardinality(Dirs) - walk'[v].count
    BY <1>5, <1>6, <2>1 DEF IInv, WalkInv, CountInv
  <2>2. walk'[w].stage # "none" /\ walk'[w].done = Cardinality(Pending(w)') + Cardinality(Dirs) - walk'[w].count
    BY <1>1, <1>5, <1>6 DEF IInv, WalkInv, CountInv
  <2>. QED  BY <2>1, <2>2 DEF CountInv
<1>9. EndInv'
  BY <1>5, <1>6 DEF IInv, WalkInv, EndInv
<1>10. KeptInv'
  BY <1>1, <1>5 DEF IInv, WalkInv, KeptInv
<1>11. SeenInv'
  <2>1. ASSUME NEW v \in Walks, walk'[v].stage \in {"walking", "ended"}, NEW g \in walk'[v].kept
        PROVE  Covered(v, g)'
    <3>1. walk[v].stage \in {"walking", "ended"} /\ g \in walk[v].kept
      BY <1>1, <1>5, <2>1
    <3>2. g \in Hashes /\ DirOf[g] \in Dirs /\ Covered(v, g)
      BY <1>1, <3>1, DirsAssumption DEF IInv, WalkInv, SeenInv, WalkTable, WalkType
    <3>3. CASE v = w /\ DirOf[g] = d
      BY <1>1, <1>2, <1>5, <1>6, <2>1, <3>2, <3>3 DEF Covered
    <3>4. CASE v = w /\ DirOf[g] # d
      BY <1>5, <1>6, <2>1, <3>2, <3>4 DEF Covered
    <3>5. CASE v # w
      BY <1>5, <1>6, <3>2, <3>5 DEF Covered
    <3>. QED  BY <3>3, <3>4, <3>5
  <2>. QED  BY <2>1 DEF SeenInv
<1>. QED  BY <1>7, <1>8, <1>9, <1>10, <1>11 DEF IInv, WalkInv

LEMMA ListedStep ==
  ASSUME IInv, NEW w \in Walks, NEW d \in Dirs, Listed(w, d)
  PROVE  IInv'
<1>. DEFINE l == [lister[w][d] EXCEPT !.stage = "last"]
<1>1. /\ lister[w][d] \in ListerType /\ lister[w][d].stage = "send" /\ lister[w][d].files = {} /\ Lists(w, d, l)
      /\ walk[w].done > 0 /\ walk' = [walk EXCEPT ![w].done = @ - 1] /\ walk \in WalkTable /\ used' = used
      /\ UNCHANGED <<dial, idle, healthVars, now, job, links, stored>>
  BY WalksTyped DEF Listed, Lister, Step, others, slotVars, ListerTable, IInv
<1>2. l \in ListerType /\ l.stage = "last" /\ l.skipped = lister[w][d].skipped
  BY <1>1 DEF ListerType
<1>. HIDE DEF l
<1>3. /\ walk' \in WalkTable /\ walk'[w].done = walk[w].done - 1 /\ walk[w].done \in Nat /\ walk[w].count \in Nat
      /\ walk'[w].count = walk[w].count /\ walk'[w].kept = walk[w].kept
      /\ walk'[w].seen = walk[w].seen /\ walk'[w].stage = walk[w].stage
      /\ \A v \in Walks : v # w => walk'[v] = walk[v]
  <2>1. walk[w].done - 1 \in 0 .. Cardinality(Dirs) /\ walk[w].done \in Nat /\ walk[w].count \in Nat
    BY <1>1, FiniteSets DEF WalkTable, WalkType
  <2>. QED  BY <1>1, <2>1 DEF WalkTable, WalkType
<1>4. /\ lister'[w][d] = l /\ d \in Pending(w)
      /\ Cardinality(Pending(w)) \in Nat /\ Cardinality(Pending(w)') = Cardinality(Pending(w)) - 1
      /\ \A e \in Dirs : e # d => lister'[w][e] = lister[w][e]
      /\ \A v \in Walks : v # w => lister'[v] = lister[v] /\ Pending(v)' = Pending(v)
  BY <1>1, <1>2, WalksTyped, PendingChange DEF IInv, WaitsFor
<1>5. JobSide'
  <2>1. used' \in 0 .. MaxConn
    BY <1>1, Counts DEF IInv
  <2>. QED  BY <1>1, <1>2, <1>3, <2>1, ListerSlots DEF IInv, Holding
<1>6. walk[w].stage \notin {"none", "ended"}
  BY <1>1, <1>4 DEF IInv, WalkInv, CountInv, EndInv
<1>7. CountInv'
  <2>1. ASSUME NEW v \in Walks, v # w
        PROVE  IF walk'[v].stage = "none" THEN \A e \in Dirs : lister'[v][e].stage = "none"
               ELSE walk'[v].done = Cardinality(Pending(v)') + Cardinality(Dirs) - walk'[v].count
    BY <1>3, <1>4, <2>1 DEF IInv, WalkInv, CountInv
  <2>2. walk[w].done = Cardinality(Pending(w)) + Cardinality(Dirs) - walk[w].count
    BY <1>6 DEF IInv, WalkInv, CountInv
  <2>3. walk'[w].done = Cardinality(Pending(w)') + Cardinality(Dirs) - walk'[w].count
    BY <1>3, <1>4, <2>2, FiniteSets
  <2>. QED  BY <1>3, <1>6, <2>1, <2>3 DEF CountInv
<1>8. EndInv'
  BY <1>3, <1>4, <1>6 DEF IInv, WalkInv, EndInv
<1>9. KeptInv'
  BY <1>1, <1>3 DEF IInv, WalkInv, KeptInv
<1>10. SeenInv'
  <2>1. ASSUME NEW v \in Walks, walk'[v].stage \in {"walking", "ended"}, NEW g \in walk'[v].kept
        PROVE  Covered(v, g)'
    <3>1. walk[v].stage \in {"walking", "ended"} /\ g \in walk[v].kept
      BY <1>3, <2>1
    <3>2. g \in Hashes /\ DirOf[g] \in Dirs /\ Covered(v, g)
      BY <1>1, <3>1, DirsAssumption DEF IInv, WalkInv, SeenInv, WalkTable, WalkType
    <3>3. CASE v = w /\ DirOf[g] = d
      BY <1>1, <1>2, <1>3, <1>4, <3>2, <3>3 DEF Covered
    <3>4. CASE v = w /\ DirOf[g] # d
      BY <1>3, <1>4, <3>2, <3>4 DEF Covered
    <3>5. CASE v # w
      BY <1>3, <1>4, <3>2, <3>5 DEF Covered
    <3>. QED  BY <3>3, <3>4, <3>5
  <2>. QED  BY <2>1 DEF SeenInv
<1>. QED  BY <1>5, <1>7, <1>8, <1>9, <1>10 DEF IInv, WalkInv

LEMMA CountStep ==
  ASSUME IInv, NEW w \in Walks, Count(w)
  PROVE  IInv'
<1>1. /\ walk[w].stage = "walking" /\ walk[w].done < Cardinality(Dirs) /\ walk \in WalkTable
      /\ walk[w].done \in Nat /\ walk[w].count \in Nat /\ Cardinality(Dirs) \in Nat
      /\ UNCHANGED <<slotVars, lister, healthVars, now, job, links, stored>>
  BY WalksTyped, FiniteSets DEF Count, others, WalkTable, WalkType, IInv
<1>2. walk[w].done = Cardinality(Pending(w)) + Cardinality(Dirs) - walk[w].count /\ Cardinality(Pending(w)) \in Nat
  BY <1>1, PendingCounted DEF IInv, WalkInv, CountInv
<1>3. walk[w].count > 0 /\ walk[w].count - 1 \in Nat /\ walk[w].done + 1 \in 0 .. Cardinality(Dirs)
  BY <1>1, <1>2
<1>4. walk' = [walk EXCEPT ![w].done = @ + 1, ![w].count = @ - 1,
                           ![w].stage = IF walk[w].count = 1 THEN "ended" ELSE @]
  BY DEF Count
<1>5. /\ walk' \in WalkTable /\ walk'[w].done = walk[w].done + 1 /\ walk'[w].count = walk[w].count - 1
      /\ walk'[w].kept = walk[w].kept /\ walk'[w].seen = walk[w].seen
      /\ walk'[w].stage = IF walk[w].count = 1 THEN "ended" ELSE "walking"
      /\ \A v \in Walks : v # w => walk'[v] = walk[v]
  BY <1>1, <1>3, <1>4 DEF WalkTable, WalkType
<1>6. lister' = lister /\ \A v \in Walks : Pending(v)' = Pending(v)
  BY <1>1 DEF Pending
<1>7. JobSide'
  <2>1. UNCHANGED <<slotVars, lister, job, working>> /\ RestOK'
    BY <1>1, Counts DEF IInv, RestOK, Rest, healthVars
  <2>. QED  BY <1>5, <2>1, AsideStep DEF IInv
<1>8. CountInv'
  <2>1. ASSUME NEW v \in Walks, v # w
        PROVE  IF walk'[v].stage = "none" THEN \A e \in Dirs : lister'[v][e].stage = "none"
               ELSE walk'[v].done = Cardinality(Pending(v)') + Cardinality(Dirs) - walk'[v].count
    BY <1>5, <1>6, <2>1 DEF IInv, WalkInv, CountInv
  <2>2. walk'[w].done = Cardinality(Pending(w)') + Cardinality(Dirs) - walk'[w].count
    BY <1>1, <1>2, <1>5, <1>6
  <2>3. walk'[w].stage # "none"
    BY <1>5
  <2>. QED  BY <2>1, <2>2, <2>3 DEF CountInv
<1>9. EndInv'
  <2>1. ASSUME walk[w].count = 1
        PROVE  Pending(w) = {} /\ walk'[w].count = 0
    <3>1. Cardinality(Pending(w)) = 0
      BY <1>1, <1>2, <2>1
    <3>2. IsFiniteSet(Pending(w))
      <4>1. Pending(w) \subseteq Dirs
        BY DEF Pending
      <4>. QED  BY <4>1, DirsAssumption, FS_Subset
    <3>. QED  BY <1>5, <2>1, <3>1, <3>2, FS_EmptySet
  <2>. QED  BY <1>5, <1>6, <2>1 DEF IInv, WalkInv, EndInv
<1>10. KeptInv'
  BY <1>1, <1>5 DEF IInv, WalkInv, KeptInv
<1>11. SeenInv'
  <2>1. ASSUME NEW v \in Walks, walk'[v].stage \in {"walking", "ended"}, NEW g \in walk'[v].kept
        PROVE  Covered(v, g)'
    <3>1. walk[v].stage \in {"walking", "ended"} /\ g \in walk[v].kept /\ walk'[v].seen = walk[v].seen
      BY <1>1, <1>5, <2>1
    <3>2. Covered(v, g)
      BY <3>1 DEF IInv, WalkInv, SeenInv
    <3>. QED  BY <1>6, <3>1, <3>2 DEF Covered
  <2>. QED  BY <2>1 DEF SeenInv
<1>. QED  BY <1>7, <1>8, <1>9, <1>10, <1>11 DEF IInv, WalkInv

LEMMA WalkDirStep ==
  ASSUME IInv, NEW w \in Walks, WalkDir(w)
  PROVE  IInv'
<1>1. /\ walk[w].stage = "none" /\ walk \in WalkTable /\ lister \in ListerTable
      /\ stored \subseteq Hashes /\ stored' = stored /\ Cardinality(Dirs) \in Nat
      /\ UNCHANGED <<slotVars, healthVars, now, job, links>>
  BY WalksTyped, Counts, FiniteSets DEF WalkDir, others, IInv, RestOK, Rest
<1>2. /\ walk' = [walk EXCEPT ![w].stage = "walking", ![w].count = Cardinality(Dirs),
                              ![w].done = Cardinality(Dirs), ![w].kept = stored]
      /\ lister' = [lister EXCEPT ![w] = [d \in Dirs |-> [lister[w][d] EXCEPT !.stage = "slot"]]]
  BY DEF WalkDir
<1>3. /\ walk' \in WalkTable /\ walk'[w].stage = "walking" /\ walk'[w].count = Cardinality(Dirs)
      /\ walk'[w].done = Cardinality(Dirs) /\ walk'[w].kept = stored
      /\ \A v \in Walks : v # w => walk'[v] = walk[v]
  <2>. DEFINE q == [walk[w] EXCEPT !.stage = "walking", !.count = Cardinality(Dirs),
                                 !.done = Cardinality(Dirs), !.kept = stored]
              Q == [stage : {"none", "walking", "givenUp", "ended"}, count : Nat,
                    done : 0 .. Cardinality(Dirs), seen : SUBSET Hashes, kept : SUBSET Hashes]
  <2>1. Cardinality(Dirs) \in 0 .. Cardinality(Dirs)
    BY <1>1
  <2>2. walk[w] \in Q /\ walk \in [Walks -> Q]
    BY <1>1 DEF WalkTable, WalkType
  <2>3. /\ q \in Q /\ q.stage = "walking" /\ q.count = Cardinality(Dirs)
        /\ q.done = Cardinality(Dirs) /\ q.kept = stored
    BY <1>1, <2>1, <2>2
  <2>4. walk' = [walk EXCEPT ![w] = q]
    BY <1>2
  <2>. HIDE DEF q, Q
  <2>5. walk' \in [Walks -> Q] /\ walk'[w] = q /\ \A v \in Walks : v # w => walk'[v] = walk[v]
    BY <2>2, <2>3, <2>4
  <2>. QED  BY <2>3, <2>5 DEF WalkTable, WalkType, Q
<1>4. /\ lister' \in ListerTable /\ \A d \in Dirs : lister'[w][d].stage = "slot"
      /\ \A v \in Walks : v # w => lister'[v] = lister[v]
  <2>. DEFINE row == [d \in Dirs |-> [lister[w][d] EXCEPT !.stage = "slot"]]
  <2>1. ASSUME NEW d \in Dirs
        PROVE  [lister[w][d] EXCEPT !.stage = "slot"] \in ListerType
               /\ [lister[w][d] EXCEPT !.stage = "slot"].stage = "slot"
    <3>1. lister[w][d] \in ListerType
      BY <1>1 DEF ListerTable
    <3>. QED  BY <3>1 DEF ListerType
  <2>2. row \in [Dirs -> ListerType] /\ \A d \in Dirs : row[d].stage = "slot"
    BY <2>1
  <2>3. lister' = [lister EXCEPT ![w] = row]
    BY <1>2
  <2>. HIDE DEF row
  <2>. QED  BY <1>1, <2>2, <2>3 DEF ListerTable
<1>5. \A d \in Dirs : lister[w][d].stage = "none"
  BY <1>1 DEF IInv, WalkInv, CountInv
<1>6. Holders(lister') = Holders(lister)
  BY <1>4, <1>5 DEF Holders, Holding
<1>7. JobSide'
  <2>1. UNCHANGED <<job, working>> /\ RestOK' /\ used' = used /\ idle' = idle /\ dial' = dial
    BY <1>1, Counts DEF IInv, RestOK, Rest, healthVars, slotVars
  <2>2. \A t \in Threads : \A k \in Waits : dial[t][k] = "no" => dial'[t][k] = "no"
    BY <2>1
  <2>3. Cardinality(Holders(lister')) = Cardinality(Holders(lister))
    BY <1>6
  <2>. QED  BY <1>3, <1>4, <2>1, <2>2, <2>3, Counts, OtherStep DEF IInv
<1>8. Pending(w)' = Dirs /\ \A v \in Walks : v # w => Pending(v)' = Pending(v)
  BY <1>4 DEF Pending
<1>9. CountInv'
  <2>1. ASSUME NEW v \in Walks, v # w
        PROVE  IF walk'[v].stage = "none" THEN \A e \in Dirs : lister'[v][e].stage = "none"
               ELSE walk'[v].done = Cardinality(Pending(v)') + Cardinality(Dirs) - walk'[v].count
    BY <1>3, <1>4, <1>8, <2>1 DEF IInv, WalkInv, CountInv
  <2>2. walk'[w].stage # "none" /\ walk'[w].done = Cardinality(Pending(w)') + Cardinality(Dirs) - walk'[w].count
    BY <1>1, <1>3, <1>8
  <2>. QED  BY <2>1, <2>2 DEF CountInv
<1>10. EndInv' /\ KeptInv'
  BY <1>1, <1>3, <1>8 DEF IInv, WalkInv, EndInv, KeptInv
<1>11. SeenInv'
  <2>1. ASSUME NEW v \in Walks, walk'[v].stage \in {"walking", "ended"}, NEW g \in walk'[v].kept
        PROVE  Covered(v, g)'
    <3>1. CASE v = w
      <4>1. DirOf[g] \in Dirs
        BY <1>1, <1>3, <2>1, <3>1, DirsAssumption
      <4>. QED  BY <1>4, <3>1, <4>1 DEF Covered
    <3>2. CASE v # w
      BY <1>3, <1>4, <2>1, <3>2 DEF IInv, WalkInv, SeenInv, Covered
    <3>. QED  BY <3>1, <3>2
  <2>. QED  BY <2>1 DEF SeenInv
<1>. QED  BY <1>7, <1>9, <1>10, <1>11 DEF IInv, WalkInv

LEMMA RemoveStep ==
  ASSUME IInv, NEW h \in Hashes, Remove(h)
  PROVE  IInv'
<1>1. /\ walk \in WalkTable /\ stored' = stored \ {h} /\ stored \subseteq Hashes
      /\ walk' = [w \in Walks |-> [walk[w] EXCEPT !.kept = @ \ {h}]]
      /\ UNCHANGED <<slotVars, healthVars, now, job, links, lister>>
  BY WalksTyped, Counts DEF Remove, others, IInv, RestOK, Rest
<1>2. /\ walk' \in WalkTable
      /\ \A w \in Walks : /\ walk'[w].kept = walk[w].kept \ {h} /\ walk'[w].stage = walk[w].stage
                          /\ walk'[w].done = walk[w].done /\ walk'[w].count = walk[w].count
                          /\ walk'[w].seen = walk[w].seen
  <2>1. ASSUME NEW w \in Walks
        PROVE  /\ walk'[w] = [walk[w] EXCEPT !.kept = walk[w].kept \ {h}]
               /\ walk[w] \in WalkType /\ walk'[w] \in WalkType
    BY <1>1 DEF WalkTable, WalkType
  <2>2. walk' \in WalkTable
    BY <1>1, <2>1 DEF WalkTable, WalkType
  <2>3. ASSUME NEW w \in Walks
        PROVE  /\ walk'[w].kept = walk[w].kept \ {h} /\ walk'[w].stage = walk[w].stage
               /\ walk'[w].done = walk[w].done /\ walk'[w].count = walk[w].count
               /\ walk'[w].seen = walk[w].seen
    <3>. DEFINE q == walk[w]
                k == walk[w].kept \ {h}
                n == [q EXCEPT !.kept = k]
    <3>1. walk'[w] = n /\ q \in WalkType
      BY <2>1
    <3>. HIDE DEF q, k
    <3>2. n.kept = k /\ n.stage = q.stage /\ n.done = q.done /\ n.count = q.count /\ n.seen = q.seen
      BY <3>1 DEF WalkType
    <3>. HIDE DEF n
    <3>. QED  BY <3>1, <3>2 DEF q, k
  <2>. QED  BY <2>2, <2>3
<1>3. lister' = lister /\ \A w \in Walks : Pending(w)' = Pending(w)
  BY <1>1 DEF Pending
<1>4. JobSide'
  <2>1. UNCHANGED <<slotVars, lister, job, working>> /\ RestOK'
    BY <1>1, Counts DEF IInv, RestOK, Rest, healthVars
  <2>. QED  BY <1>2, <2>1, AsideStep DEF IInv
<1>5. CountInv' /\ EndInv'
  BY <1>2, <1>3 DEF IInv, WalkInv, CountInv, EndInv
<1>6. KeptInv' /\ SeenInv'
  BY <1>1, <1>2, <1>3 DEF IInv, WalkInv, KeptInv, SeenInv, Covered
<1>. QED  BY <1>4, <1>5, <1>6 DEF IInv, WalkInv
-----------------------------------------------------------------------------
(* The invariant *)

LEMMA InitInvariant ==
  ASSUME Init
  PROVE  IInv
<1>. USE DEF Init
<1>1. \A t \in Threads : job[t] = Idle /\ Fits(t, job[t]) /\ dial[t] = NoDial
  BY IdleFits
<1>2. JobInv
  BY <1>1 DEF JobInv, Jobs
<1>3. RestOK
  <2>1. links \subseteq Hashes /\ stored \subseteq Hashes /\ now \in Nat
    BY IntervalAssumption
  <2>2. measured \in BOOLEAN
    OBVIOUS
  <2>. QED  BY <2>1, <2>2 DEF RestOK, Rest
<1>4. dial \in DialTable /\ used \in 0 .. MaxConn /\ idle \in 0 .. MaxIdle
  BY MaxConnAssumption, IdleAssumption DEF DialTable, NoDial
<1>5. walk \in WalkTable /\ \A w \in Walks : walk[w].stage = "none" /\ walk[w].kept = {}
  <2>1. 0 \in 0 .. Cardinality(Dirs)
    BY FiniteSets
  <2>. QED  BY <2>1 DEF WalkTable, WalkType
<1>6. lister \in ListerTable /\ \A w \in Walks : \A d \in Dirs : lister[w][d].stage = "none"
  BY DEF ListerTable, ListerType
<1>7. TypeOK
  BY <1>2, <1>3, <1>4, <1>5, <1>6, TypeParts, JobsTyped DEF Typed
<1>8. DialInv
  BY <1>1 DEF DialInv, Undialled, Idle
<1>9. BalanceInv
  <2>1. Owners(job) = {} /\ OnConns(job) = {}
    BY <1>1 DEF Owners, OnConns, Owns, Wired, Idle
  <2>2. Dials(dial) = {}
    BY <1>1 DEF Dials, NoDial
  <2>3. Holders(lister) = {}
    BY <1>6 DEF Holders, Holding
  <2>4. Cardinality(Dials(dial)) = 0 /\ Cardinality(Holders(lister)) = 0
    BY <2>2, <2>3, FS_EmptySet
  <2>5. Cardinality(Owners(job)) = 0 /\ Cardinality(OnConns(job)) = 0
    BY <2>1, FS_EmptySet
  <2>. QED  BY <2>4, <2>5 DEF BalanceInv, JobSlots
<1>10. BusyIsChecked
  BY DEF BusyIsChecked
<1>11. WalkInv
  BY <1>5, <1>6 DEF WalkInv, CountInv, EndInv, KeptInv, SeenInv
<1>. QED  BY <1>2, <1>7, <1>8, <1>9, <1>10, <1>11 DEF IInv, JobSide

\* Steps of requests and checks leave the walks alone; files may be added.
LEMMA ThreadStep ==
  ASSUME IInv, NEW t \in Threads,
         \/ \E h \in Hashes : Serve(t, h) \/ \E op \in Ops \ {"serve"} : Call(t, op, h)
         \/ CheckSteps(t) \/ CallSteps(t) \/ TakeSlot(t)
         \/ \E k \in Waits : DialSlot(t, k) \/ DialSteps(t, k)
  PROVE  IInv'
<1>. USE DEF IInv
<1>1. CASE \E h \in Hashes : Serve(t, h)
  BY <1>1, ServeStep, WalkUnmoved DEF Serve
<1>2. CASE \E h \in Hashes : \E op \in Ops \ {"serve"} : Call(t, op, h)
  BY <1>2, CallStep, WalkUnmoved DEF Call
<1>3. CASE Look(t)
  BY <1>3, LookStep, WalkUnmoved DEF Look
<1>4. CASE Peek(t)
  BY <1>4, PeekStep, WalkUnmoved DEF Peek
<1>5. CASE Renew(t)
  BY <1>5, RenewStep, WalkUnmoved DEF Renew
<1>6. CASE Lock(t)
  BY <1>6, LockStep, WalkUnmoved DEF Lock
<1>7. CASE Stat(t)
  BY <1>7, StatStep, WalkUnmoved DEF Stat
<1>8. CASE Put(t)
  BY <1>8, PutStep, WalkUnmoved DEF Put
<1>9. CASE Get(t)
  BY <1>9, GetStep, WalkUnmoved DEF Get
<1>10. CASE ServeDownload(t)
  BY <1>10, ServeDownloadStep, WalkUnmoved DEF ServeDownload
<1>11. CASE Ask(t)
  BY <1>11, AskStep, WalkUnmoved DEF Ask
<1>12. CASE GiveUp(t)
  BY <1>12, GiveUpStep, WalkUnmoved DEF GiveUp
<1>13. CASE Answered(t)
  BY <1>13, AnsweredStep, WalkUnmoved DEF Answered
<1>14. CASE Leaves(t)
  BY <1>14, LeavesStep, WalkUnmoved DEF Leaves
<1>15. CASE TakeSlot(t)
  BY <1>15, TakeSlotStep, WalkUnmoved DEF TakeSlot
<1>16. CASE \E k \in Waits : DialSlot(t, k)
  BY <1>16, DialSlotStep, WalkUnmoved DEF DialSlot
<1>17. CASE \E k \in Waits : DialDropped(t, k)
  BY <1>17, DialDroppedStep, WalkUnmoved DEF DialDropped
<1>18. CASE \E k \in Waits : ConnDialled(t, k)
  BY <1>18, ConnDialledStep, WalkUnmoved DEF ConnDialled
<1>19. CASE \E k \in Waits : DialFails(t, k)
  BY <1>19, DialFailsStep, WalkUnmoved DEF DialFails
<1>. QED  BY <1>1, <1>2, <1>3, <1>4, <1>5, <1>6, <1>7, <1>8, <1>9, <1>10, <1>11, <1>12, <1>13,
             <1>14, <1>15, <1>16, <1>17, <1>18, <1>19 DEF CheckSteps, CallSteps, DialSteps

LEMMA StutterStep ==
  ASSUME IInv, UNCHANGED vars
  PROVE  IInv'
<1>1. UNCHANGED <<slotVars, healthVars, walkVars, now, job, links, stored>>
  BY DEF vars
<1>2. UNCHANGED <<slotVars, lister, job, working>> /\ RestOK' /\ walk' \in WalkTable
  BY <1>1, Counts, WalksTyped DEF IInv, RestOK, Rest, healthVars, walkVars
<1>3. JobSide'
  BY <1>2, AsideStep DEF IInv
<1>4. WalkInv'
  BY <1>1, WalkUnmoved DEF IInv
<1>. QED  BY <1>3, <1>4 DEF IInv

LEMMA OtherSteps ==
  ASSUME IInv, \/ IdleClosed \/ Tick \/ \E h \in Hashes : LinkExpires(h)
  PROVE  IInv'
<1>1. JobSide /\ WalkInv
  BY DEF IInv
<1>2. CASE IdleClosed
  BY <1>1, <1>2, IdleClosedStep, WalkUnmoved DEF IdleClosed, IInv
<1>3. CASE Tick
  <2>1. UNCHANGED <<slotVars, lister, job, working>> /\ RestOK' /\ walk' \in WalkTable
    BY <1>1, <1>3, Counts, WalksTyped DEF Tick, RestOK, Rest, healthVars, walkVars
  <2>. QED  BY <1>1, <1>3, <2>1, AsideStep, WalkUnmoved DEF Tick, IInv
<1>4. CASE \E h \in Hashes : LinkExpires(h)
  <2>1. UNCHANGED <<slotVars, lister, job, working>> /\ RestOK' /\ walk' \in WalkTable
    BY <1>1, <1>4, Counts, WalksTyped DEF LinkExpires, RestOK, Rest, healthVars, walkVars
  <2>. QED  BY <1>1, <1>4, <2>1, AsideStep, WalkUnmoved DEF LinkExpires, IInv
<1>. QED  BY <1>2, <1>3, <1>4

LEMMA NextInvariant ==
  ASSUME IInv, [Next]_vars
  PROVE  IInv'
<1>1. CASE UNCHANGED vars
  BY <1>1, StutterStep
<1>2. CASE \E w \in Walks : WalkDir(w) \/ WalkSteps(w) \/ \E d \in Dirs : ListerSlot(w, d)
  BY <1>2, WalkDirStep, CountStep, ListStep, ListedStep, ListerLeavesStep, ReceiveStep, ListerSlotStep
     DEF WalkSteps
<1>3. CASE \E h \in Hashes : Remove(h) \/ LinkExpires(h)
  BY <1>3, RemoveStep, OtherSteps
<1>4. CASE IdleClosed \/ Tick
  BY <1>4, OtherSteps
<1>. QED  BY <1>1, <1>2, <1>3, <1>4, ThreadStep DEF Next

LEMMA Invariant == Spec => []IInv
<1>1. IInv /\ [Next]_vars => IInv'
  BY NextInvariant
<1>2. Init => IInv
  BY InitInvariant
<1>. QED  BY <1>1, <1>2, PTL DEF Spec

-----------------------------------------------------------------------------
(* The variables keep their types: what a goroutine does is always one of the stages of    *)
(* storage_webdav.go, and neither the semaphore nor the pool of connections overflows.     *)
THEOREM TypeCorrect == Spec => []TypeOK
BY Invariant, PTL DEF IInv, JobSide

(* Every entry of the dialer's semaphore is owned by one operation, connection or goroutine *)
(* of a walk, on every way out of them.                                                  *)
THEOREM SlotsAreOwned == Spec => []SlotsOwned
<1>1. IInv => SlotsOwned
  <2>1. SUFFICES ASSUME IInv PROVE SlotsOwned
    OBVIOUS
  <2>2. /\ Owners(job) = {t \in Threads : OwnsSlot(t)}
        /\ OnConns(job) = {t \in Threads : OnConn(t)}
    BY DEF Owners, OnConns, Owns, Wired, OwnsSlot, OnConn, At
  <2>3. MaxConn > 0 => used = JobSlots(job) + idle + Cardinality(Dials(dial)) + Cardinality(Holders(lister))
    BY <2>1 DEF IInv, JobSide, BalanceInv
  <2>. QED  BY <2>2, <2>3 DEF SlotsOwned, JobSlots, Dials, Holders, Holding
<1>. QED  BY <1>1, Invariant, PTL

(* A walk that returns nil has seen every file that was there all along, but for directories *)
(* it could not list, and its goroutines have sent all they had.                         *)
THEOREM WalksAreComplete == Spec => []WalkIsComplete
<1>1. IInv => WalkIsComplete
  <2>1. SUFFICES ASSUME IInv, NEW w \in Walks, walk[w].stage = "ended"
                 PROVE  /\ \A h \in walk[w].kept : h \in walk[w].seen \/ lister[w][DirOf[h]].skipped
                        /\ \A d \in Dirs : lister[w][d].stage \in {"last", "none"}
    BY DEF WalkIsComplete
  <2>2. walk \in WalkTable /\ lister \in ListerTable
    BY <2>1, WalksTyped DEF IInv
  <2>3. \A d \in Dirs : lister[w][d].stage \in {"last", "none"}
    <3>1. Pending(w) = {}
      BY <2>1 DEF IInv, WalkInv, EndInv
    <3>2. \A d \in Dirs : lister[w][d].stage \in {"none", "slot", "list", "send", "last"}
      BY <2>2 DEF ListerTable, ListerType
    <3>. QED  BY <3>1, <3>2 DEF Pending
  <2>4. ASSUME NEW h \in walk[w].kept
        PROVE  h \in walk[w].seen \/ lister[w][DirOf[h]].skipped
    <3>1. DirOf[h] \in Dirs
      BY <2>2, DirsAssumption DEF WalkTable, WalkType
    <3>2. Covered(w, h)
      BY <2>1 DEF IInv, WalkInv, SeenInv
    <3>. QED  BY <2>3, <3>1, <3>2 DEF Covered
  <2>. QED  BY <2>3, <2>4
<1>. QED  BY <1>1, Invariant, PTL

(* No request leaves the storage marked as being checked: one of them is about to set the   *)
(* flag, whatever late checks do in between.                                             *)
THEOREM BusyHasChecker == Spec => []BusyIsChecked
BY Invariant, PTL DEF IInv, JobSide

(* The times kept by checks are more than an interval apart, however many requests and      *)
(* goroutines found the last one old.                                                    *)
THEOREM ChecksAreSpaced == Spec => ChecksSpaced
<1>1. IInv /\ [Next]_vars => [lastCheck' # lastCheck => lastCheck' - lastCheck > Interval]_vars
  <2>1. SUFFICES ASSUME IInv, [Next]_vars, lastCheck' # lastCheck
                 PROVE  lastCheck' - lastCheck > Interval
    OBVIOUS
  <2>2. \E t \in Threads : Renew(t) \/ Lock(t)
    <3>1. CASE UNCHANGED vars \/ IdleClosed \/ Tick \/ \E h \in Hashes : Remove(h) \/ LinkExpires(h)
      BY <2>1, <3>1 DEF vars, IdleClosed, Tick, Remove, LinkExpires, healthVars, others
    <3>2. ASSUME NEW t \in Threads,
                 \E h \in Hashes : Serve(t, h) \/ \E op \in Ops \ {"serve"} : Call(t, op, h)
          PROVE  FALSE
      BY <2>1, <3>2 DEF Serve, Call, healthVars, others
    <3>3. ASSUME NEW t \in Threads, CheckSteps(t) PROVE Renew(t) \/ Lock(t)
      BY <2>1, <3>3 DEF CheckSteps, Look, Peek, Stat, Put, Get, healthVars, others
    <3>4. ASSUME NEW t \in Threads, CallSteps(t) PROVE FALSE
      BY <2>1, <3>4 DEF CallSteps, ServeDownload, Ask, GiveUp, Answered, Leaves, healthVars, others
    <3>5. ASSUME NEW t \in Threads, TakeSlot(t) \/ \E k \in Waits : DialSlot(t, k) PROVE FALSE
      BY <2>1, <3>5 DEF TakeSlot, DialSlot, healthVars, others
    <3>6. ASSUME NEW t \in Threads, NEW k \in Waits, DialSteps(t, k) PROVE FALSE
      BY <2>1, <3>6 DEF DialSteps, DialDropped, ConnDialled, DialFails, healthVars, others
    <3>7. ASSUME NEW w \in Walks, WalkDir(w) \/ WalkSteps(w) \/ \E d \in Dirs : ListerSlot(w, d)
          PROVE  FALSE
      BY <2>1, <3>7 DEF WalkDir, WalkSteps, Count, List, Listed, ListerLeaves, Receive, ListerSlot,
         healthVars, others
    <3>. QED  BY <2>1, <3>1, <3>2, <3>3, <3>4, <3>5, <3>6, <3>7 DEF Next
  <2>3. ASSUME NEW t \in Threads, Renew(t)
        PROVE  lastCheck' - lastCheck > Interval
    BY <2>1, <2>3 DEF Renew
  <2>4. ASSUME NEW t \in Threads, Lock(t)
        PROVE  lastCheck' - lastCheck > Interval
    BY <2>1, <2>4 DEF Lock, At, IInv, JobSide, JobInv, Jobs, Fits
  <2>. QED  BY <2>2, <2>3, <2>4
<1>. QED  BY <1>1, Invariant, PTL DEF Spec, ChecksSpaced
=============================================================================
