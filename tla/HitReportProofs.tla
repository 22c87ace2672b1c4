--------------------------- MODULE HitReportProofs ---------------------------
(***************************************************************************)
(* The files of the statistics first: for one call of Save at a time          *)
(* (OneSaver) the totals on disk never go back, and no storage has more hits   *)
(* than there are in total.  The report of the hits does with the statistics   *)
(* what StatsSpec allows, so this holds of it too; and for one call of         *)
(* KeepAlive at a time every hit is reported once.                           *)
(*                                                                           *)
(* Then the tables of the periods, from sums over finite sets and the order   *)
(* of dates: each holds exactly the hits of its period.                      *)
(***************************************************************************)
EXTENDS Statistics, FiniteSetTheorems, TLAPS

\* The properties of the files are those of one call of Save after the other.
OneSaver == \A s, t \in Savers : s = t

\* What Load has found of Main is in memory.
MainLoaded == phase = "up" \/ (phase \in {"read", "repair"} /\ loading # Main)

\* A call of Save is between the renaming of Main and the end of its writing.
MainRenamed == \E s \in Savers : file[s] = Main /\ at[s] \in {"open", "write"}

\* The step a call is at says what its file is, and that the process is up.
SaverInv ==
  \A s \in Savers :
    /\ at[s] # "idle" => phase = "up"
    /\ at[s] = "idle" => file[s] = Main
    /\ at[s] = "write" => fd[s] = "path"
    /\ at[s] = "writeOld" => fd[s] = "old"

\* An old copy of Main is of use only while its first copy is being written.
\* Before that, and after it, the first copy is good if the old one is.
CopiesInv ==
  /\ MainLoaded /\ ~MainRenamed => (Parses(old[Main]) => Parses(path[Main]))
  /\ \A s \in Savers : file[s] = Main /\ at[s] = "open" => path[Main] = Absent
  /\ \A s \in Savers :
       file[s] = Main /\ at[s] \in {"openOld", "writeOld"} => path[Main] = mem[Main]
  /\ \A s \in Savers : file[s] # Main => path[Main] = mem[Main]
  /\ phase = "repair" /\ loading = Main =>
       mem[Main] = old[Main] /\ Parses(old[Main]) /\ path[Main] = Torn

\* The totals in memory are those on disk, or more.
MemoryInv == MainLoaded => mem[Main] >= Recovered(Main)

\* Every copy of a storage's file, and its part in memory.
PartInv ==
  \A f \in Subs :
    /\ path[f] <= Recovered(Main) /\ old[f] <= Recovered(Main)
    /\ mem[f] <= mem[Main]
    /\ ~MainLoaded => mem[f] = 0
    /\ phase = "repair" /\ loading = f => mem[f] = old[f]

MainInv == Main \notin failed => CopiesInv /\ MemoryInv /\ PartInv

IInv == StatsTypeOK /\ SaverInv /\ MainInv
-----------------------------------------------------------------------------
(* Types *)

USE DEF Files, Copies, Absent, Torn, Parses, memory, disk, savers

LEMMA TypeInit == StatsInit => StatsTypeOK
  BY FilesAssumption DEF StatsInit, StatsTypeOK, Steps

LEMMA TypeCount ==
  ASSUME StatsTypeOK, NEW f \in Files, Count(f)
  PROVE  StatsTypeOK'
  BY FilesAssumption DEF StatsTypeOK, Count

LEMMA TypeSave ==
  ASSUME StatsTypeOK, NEW s \in Savers, SaveBegin(s) \/ Save(s)
  PROVE  StatsTypeOK'
<1>. USE DEF StatsTypeOK, Steps
<1>1. CASE SaveBegin(s)  BY <1>1 DEF SaveBegin
<1>2. CASE Remove(s)     BY <1>2 DEF Remove, Relink
<1>3. CASE Rename(s)     BY <1>3 DEF Rename
<1>4. CASE Open(s)       BY <1>4 DEF Open
<1>5. CASE Write(s)      BY <1>5 DEF Write, Fill
<1>6. CASE OpenOld(s)    BY <1>6 DEF OpenOld
<1>7. CASE WriteOld(s)   BY <1>7 DEF WriteOld, Fill, Close
<1>8. CASE SaveFails(s)  BY <1>8 DEF SaveFails, Close
<1>. QED  BY <1>1, <1>2, <1>3, <1>4, <1>5, <1>6, <1>7, <1>8 DEF Save

LEMMA TypeLoad ==
  ASSUME StatsTypeOK, Crash \/ Start \/ Load
  PROVE  StatsTypeOK'
<1>. USE DEF StatsTypeOK, Steps
<1>1. CASE Crash         BY <1>1 DEF Crash
<1>2. CASE Start         BY <1>2 DEF Start
<1>3. CASE ReadFirst     BY <1>3 DEF ReadFirst, Loaded, NextFile, Rest
<1>4. CASE ReadOld       BY <1>4 DEF ReadOld, Loaded
<1>5. CASE PutBack       BY <1>5 DEF PutBack, NextFile, Rest
<1>6. CASE PutBackFails  BY <1>6 DEF PutBackFails, NextFile, Rest
<1>7. CASE ReadNothing   BY <1>7 DEF ReadNothing, Loaded, NextFile, Rest
<1>8. CASE LoadFails     BY <1>8 DEF LoadFails
<1>. QED  BY <1>1, <1>2, <1>3, <1>4, <1>5, <1>6, <1>7, <1>8 DEF Load

\* Every variable of the files has its type, for any number of calls of Save.
THEOREM StatsTypeCorrect == StatsSpec => []StatsTypeOK
<1>1. StatsTypeOK /\ [StatsNext]_statVars => StatsTypeOK'
  <2>1. ASSUME StatsTypeOK, UNCHANGED statVars PROVE StatsTypeOK'
    BY <2>1 DEF StatsTypeOK, statVars
  <2>. QED  BY <2>1, TypeCount, TypeSave, TypeLoad DEF StatsNext
<1>. QED  BY <1>1, TypeInit, PTL DEF StatsSpec
-----------------------------------------------------------------------------
(* Each step keeps the invariant, and takes nothing from the totals *)

Grows == Recovered(Main)' >= Recovered(Main)

Good == CopiesInv' /\ MemoryInv' /\ PartInv' /\ Grows

USE FilesAssumption

LEMMA CountStep ==
  ASSUME IInv, OneSaver, NEW f \in Files, Count(f)
  PROVE  SaverInv' /\ (Main \notin failed' => Good)
<1>. USE DEF OneSaver, Count, Unlocked,
         IInv, StatsTypeOK, SaverInv, MainInv, CopiesInv, MainLoaded, MainRenamed
<1>1. SaverInv'
  OBVIOUS
<1>2. ASSUME Main \notin failed' PROVE CopiesInv'
  BY <1>2
<1>3. ASSUME Main \notin failed' PROVE MemoryInv'
  BY <1>3 DEF MemoryInv, Recovered
<1>4. ASSUME Main \notin failed' PROVE PartInv'
  BY <1>4 DEF MemoryInv, PartInv, Recovered
<1>5. ASSUME Main \notin failed' PROVE Grows
  BY <1>5 DEF MemoryInv, Recovered, Grows
<1>. QED  BY <1>1, <1>2, <1>3, <1>4, <1>5 DEF Good

LEMMA SaveBeginStep ==
  ASSUME IInv, OneSaver, NEW s \in Savers, SaveBegin(s)
  PROVE  SaverInv' /\ (Main \notin failed' => Good)
<1>. USE DEF OneSaver, SaveBegin,
         IInv, StatsTypeOK, SaverInv, MainInv, CopiesInv, MainLoaded, MainRenamed
<1>1. SaverInv'
  OBVIOUS
<1>2. ASSUME Main \notin failed' PROVE CopiesInv'
  BY <1>2
<1>3. ASSUME Main \notin failed' PROVE MemoryInv'
  BY <1>3 DEF MemoryInv, Recovered
<1>4. ASSUME Main \notin failed' PROVE PartInv'
  BY <1>4 DEF MemoryInv, PartInv, Recovered
<1>5. ASSUME Main \notin failed' PROVE Grows
  BY <1>5 DEF MemoryInv, Recovered, Grows
<1>. QED  BY <1>1, <1>2, <1>3, <1>4, <1>5 DEF Good

LEMMA RemoveStep ==
  ASSUME IInv, OneSaver, NEW s \in Savers, Remove(s)
  PROVE  SaverInv' /\ (Main \notin failed' => Good)
<1>. USE DEF OneSaver, Remove, Relink,
         IInv, StatsTypeOK, SaverInv, MainInv, CopiesInv, MainLoaded, MainRenamed
<1>1. SaverInv'
  OBVIOUS
<1>2. ASSUME Main \notin failed' PROVE CopiesInv'
  BY <1>2
<1>3. ASSUME Main \notin failed' PROVE MemoryInv'
  BY <1>3 DEF MemoryInv, Recovered
<1>4. ASSUME Main \notin failed' PROVE PartInv'
  BY <1>4 DEF MemoryInv, PartInv, Recovered
<1>5. ASSUME Main \notin failed' PROVE Grows
  BY <1>5 DEF MemoryInv, Recovered, Grows
<1>. QED  BY <1>1, <1>2, <1>3, <1>4, <1>5 DEF Good

LEMMA RenameStep ==
  ASSUME IInv, OneSaver, NEW s \in Savers, Rename(s)
  PROVE  SaverInv' /\ (Main \notin failed' => Good)
<1>. USE DEF OneSaver, Rename,
         IInv, StatsTypeOK, SaverInv, MainInv, CopiesInv, MainLoaded, MainRenamed
<1>1. SaverInv'
  OBVIOUS
<1>2. ASSUME Main \notin failed' PROVE CopiesInv'
  BY <1>2
<1>3. ASSUME Main \notin failed' PROVE MemoryInv'
  BY <1>3 DEF MemoryInv, Recovered
<1>4. ASSUME Main \notin failed' PROVE PartInv'
  BY <1>4 DEF MemoryInv, PartInv, Recovered
<1>5. ASSUME Main \notin failed' PROVE Grows
  BY <1>5 DEF MemoryInv, Recovered, Grows
<1>. QED  BY <1>1, <1>2, <1>3, <1>4, <1>5 DEF Good

LEMMA OpenStep ==
  ASSUME IInv, OneSaver, NEW s \in Savers, Open(s)
  PROVE  SaverInv' /\ (Main \notin failed' => Good)
<1>. USE DEF OneSaver, Open,
         IInv, StatsTypeOK, SaverInv, MainInv, CopiesInv, MainLoaded, MainRenamed
<1>1. SaverInv'
  OBVIOUS
<1>2. ASSUME Main \notin failed' PROVE CopiesInv'
  BY <1>2
<1>3. ASSUME Main \notin failed' PROVE MemoryInv'
  BY <1>3 DEF MemoryInv, Recovered
<1>4. ASSUME Main \notin failed' PROVE PartInv'
  BY <1>4 DEF MemoryInv, PartInv, Recovered
<1>5. ASSUME Main \notin failed' PROVE Grows
  BY <1>5 DEF MemoryInv, Recovered, Grows
<1>. QED  BY <1>1, <1>2, <1>3, <1>4, <1>5 DEF Good

LEMMA WriteStep ==
  ASSUME IInv, OneSaver, NEW s \in Savers, Write(s)
  PROVE  SaverInv' /\ (Main \notin failed' => Good)
<1>. USE DEF OneSaver, Write, Fill,
         IInv, StatsTypeOK, SaverInv, MainInv, CopiesInv, MainLoaded, MainRenamed
<1>1. SaverInv'
  OBVIOUS
<1>2. ASSUME Main \notin failed' PROVE CopiesInv'
  BY <1>2
<1>3. ASSUME Main \notin failed' PROVE MemoryInv'
  BY <1>3 DEF MemoryInv, Recovered
<1>4. ASSUME Main \notin failed' PROVE PartInv'
  BY <1>4 DEF MemoryInv, PartInv, Recovered
<1>5. ASSUME Main \notin failed' PROVE Grows
  BY <1>5 DEF MemoryInv, Recovered, Grows
<1>. QED  BY <1>1, <1>2, <1>3, <1>4, <1>5 DEF Good

LEMMA OpenOldStep ==
  ASSUME IInv, OneSaver, NEW s \in Savers, OpenOld(s)
  PROVE  SaverInv' /\ (Main \notin failed' => Good)
<1>. USE DEF OneSaver, OpenOld,
         IInv, StatsTypeOK, SaverInv, MainInv, CopiesInv, MainLoaded, MainRenamed
<1>1. SaverInv'
  OBVIOUS
<1>2. ASSUME Main \notin failed' PROVE CopiesInv'
  BY <1>2
<1>3. ASSUME Main \notin failed' PROVE MemoryInv'
  BY <1>3 DEF MemoryInv, Recovered
<1>4. ASSUME Main \notin failed' PROVE PartInv'
  BY <1>4 DEF MemoryInv, PartInv, Recovered
<1>5. ASSUME Main \notin failed' PROVE Grows
  BY <1>5 DEF MemoryInv, Recovered, Grows
<1>. QED  BY <1>1, <1>2, <1>3, <1>4, <1>5 DEF Good

LEMMA WriteOldStep ==
  ASSUME IInv, OneSaver, NEW s \in Savers, WriteOld(s)
  PROVE  SaverInv' /\ (Main \notin failed' => Good)
<1>. USE DEF OneSaver, WriteOld, Fill, Close,
         IInv, StatsTypeOK, SaverInv, MainInv, CopiesInv, MainLoaded, MainRenamed
<1>1. SaverInv'
  OBVIOUS
<1>2. ASSUME Main \notin failed' PROVE CopiesInv'
  BY <1>2
<1>3. ASSUME Main \notin failed' PROVE MemoryInv'
  BY <1>3 DEF MemoryInv, Recovered
<1>4. ASSUME Main \notin failed' PROVE PartInv'
  BY <1>4 DEF MemoryInv, PartInv, Recovered
<1>5. ASSUME Main \notin failed' PROVE Grows
  BY <1>5 DEF MemoryInv, Recovered, Grows
<1>. QED  BY <1>1, <1>2, <1>3, <1>4, <1>5 DEF Good

LEMMA SaveFailsStep ==
  ASSUME IInv, OneSaver, NEW s \in Savers, SaveFails(s)
  PROVE  SaverInv' /\ (Main \notin failed' => Good)
<1>. USE DEF OneSaver, SaveFails, Close,
         IInv, StatsTypeOK, SaverInv, MainInv, CopiesInv, MainLoaded, MainRenamed
<1>1. SaverInv'
  OBVIOUS
<1>2. ASSUME Main \notin failed' PROVE CopiesInv'
  BY <1>2
<1>3. ASSUME Main \notin failed' PROVE MemoryInv'
  BY <1>3 DEF MemoryInv, Recovered
<1>4. ASSUME Main \notin failed' PROVE PartInv'
  BY <1>4 DEF MemoryInv, PartInv, Recovered
<1>5. ASSUME Main \notin failed' PROVE Grows
  BY <1>5 DEF MemoryInv, Recovered, Grows
<1>. QED  BY <1>1, <1>2, <1>3, <1>4, <1>5 DEF Good

LEMMA CrashStep ==
  ASSUME IInv, OneSaver, Crash
  PROVE  SaverInv' /\ (Main \notin failed' => Good)
<1>. USE DEF OneSaver, Crash,
         IInv, StatsTypeOK, SaverInv, MainInv, CopiesInv, MainLoaded, MainRenamed
<1>1. SaverInv'
  OBVIOUS
<1>2. ASSUME Main \notin failed' PROVE CopiesInv'
  BY <1>2
<1>3. ASSUME Main \notin failed' PROVE MemoryInv'
  BY <1>3 DEF MemoryInv, Recovered
<1>4. ASSUME Main \notin failed' PROVE PartInv'
  BY <1>4 DEF MemoryInv, PartInv, Recovered
<1>5. ASSUME Main \notin failed' PROVE Grows
  BY <1>5 DEF MemoryInv, Recovered, Grows
<1>. QED  BY <1>1, <1>2, <1>3, <1>4, <1>5 DEF Good

LEMMA StartStep ==
  ASSUME IInv, OneSaver, Start
  PROVE  SaverInv' /\ (Main \notin failed' => Good)
<1>. USE DEF OneSaver, Start,
         IInv, StatsTypeOK, SaverInv, MainInv, CopiesInv, MainLoaded, MainRenamed
<1>1. SaverInv'
  OBVIOUS
<1>2. ASSUME Main \notin failed' PROVE CopiesInv'
  BY <1>2
<1>3. ASSUME Main \notin failed' PROVE MemoryInv'
  BY <1>3 DEF MemoryInv, Recovered
<1>4. ASSUME Main \notin failed' PROVE PartInv'
  BY <1>4 DEF MemoryInv, PartInv, Recovered
<1>5. ASSUME Main \notin failed' PROVE Grows
  BY <1>5 DEF MemoryInv, Recovered, Grows
<1>. QED  BY <1>1, <1>2, <1>3, <1>4, <1>5 DEF Good

LEMMA ReadFirstStep ==
  ASSUME IInv, OneSaver, ReadFirst
  PROVE  SaverInv' /\ (Main \notin failed' => Good)
<1>. USE DEF OneSaver, ReadFirst, Loaded, NextFile, Rest,
         IInv, StatsTypeOK, SaverInv, MainInv, CopiesInv, MainLoaded, MainRenamed
<1>1. SaverInv'
  OBVIOUS
<1>2. ASSUME Main \notin failed' PROVE CopiesInv'
  BY <1>2
<1>3. ASSUME Main \notin failed' PROVE MemoryInv'
  BY <1>3 DEF MemoryInv, Recovered
<1>4. ASSUME Main \notin failed' PROVE PartInv'
  BY <1>4 DEF MemoryInv, PartInv, Recovered
<1>5. ASSUME Main \notin failed' PROVE Grows
  BY <1>5 DEF MemoryInv, Recovered, Grows
<1>. QED  BY <1>1, <1>2, <1>3, <1>4, <1>5 DEF Good

LEMMA ReadOldStep ==
  ASSUME IInv, OneSaver, ReadOld
  PROVE  SaverInv' /\ (Main \notin failed' => Good)
<1>. USE DEF OneSaver, ReadOld, Loaded,
         IInv, StatsTypeOK, SaverInv, MainInv, CopiesInv, MainLoaded, MainRenamed
<1>1. SaverInv'
  OBVIOUS
<1>2. ASSUME Main \notin failed' PROVE CopiesInv'
  BY <1>2
<1>3. ASSUME Main \notin failed' PROVE MemoryInv'
  BY <1>3 DEF MemoryInv, Recovered
<1>4. ASSUME Main \notin failed' PROVE PartInv'
  BY <1>4 DEF MemoryInv, PartInv, Recovered
<1>5. ASSUME Main \notin failed' PROVE Grows
  BY <1>5 DEF MemoryInv, Recovered, Grows
<1>. QED  BY <1>1, <1>2, <1>3, <1>4, <1>5 DEF Good

LEMMA PutBackStep ==
  ASSUME IInv, OneSaver, PutBack
  PROVE  SaverInv' /\ (Main \notin failed' => Good)
<1>. USE DEF OneSaver, PutBack, NextFile, Rest,
         IInv, StatsTypeOK, SaverInv, MainInv, CopiesInv, MainLoaded, MainRenamed
<1>1. SaverInv'
  OBVIOUS
<1>2. ASSUME Main \notin failed' PROVE CopiesInv'
  BY <1>2
<1>3. ASSUME Main \notin failed' PROVE MemoryInv'
  BY <1>3 DEF MemoryInv, Recovered
<1>4. ASSUME Main \notin failed' PROVE PartInv'
  BY <1>4 DEF MemoryInv, PartInv, Recovered
<1>5. ASSUME Main \notin failed' PROVE Grows
  BY <1>5 DEF MemoryInv, Recovered, Grows
<1>. QED  BY <1>1, <1>2, <1>3, <1>4, <1>5 DEF Good

LEMMA PutBackFailsStep ==
  ASSUME IInv, OneSaver, PutBackFails
  PROVE  SaverInv' /\ (Main \notin failed' => Good)
<1>. USE DEF OneSaver, PutBackFails, NextFile, Rest,
         IInv, StatsTypeOK, SaverInv, MainInv, CopiesInv, MainLoaded, MainRenamed
<1>1. SaverInv'
  OBVIOUS
<1>2. ASSUME Main \notin failed' PROVE CopiesInv'
  BY <1>2
<1>3. ASSUME Main \notin failed' PROVE MemoryInv'
  BY <1>3 DEF MemoryInv, Recovered
<1>4. ASSUME Main \notin failed' PROVE PartInv'
  BY <1>4 DEF MemoryInv, PartInv, Recovered
<1>5. ASSUME Main \notin failed' PROVE Grows
  BY <1>5 DEF MemoryInv, Recovered, Grows
<1>. QED  BY <1>1, <1>2, <1>3, <1>4, <1>5 DEF Good

LEMMA ReadNothingStep ==
  ASSUME IInv, OneSaver, ReadNothing
  PROVE  SaverInv' /\ (Main \notin failed' => Good)
<1>. USE DEF OneSaver, ReadNothing, Loaded, NextFile, Rest,
         IInv, StatsTypeOK, SaverInv, MainInv, CopiesInv, MainLoaded, MainRenamed
<1>1. SaverInv'
  OBVIOUS
<1>2. ASSUME Main \notin failed' PROVE CopiesInv'
  BY <1>2
<1>3. ASSUME Main \notin failed' PROVE MemoryInv'
  BY <1>3 DEF MemoryInv, Recovered
<1>4. ASSUME Main \notin failed' PROVE PartInv'
  BY <1>4 DEF MemoryInv, PartInv, Recovered
<1>5. ASSUME Main \notin failed' PROVE Grows
  BY <1>5 DEF MemoryInv, Recovered, Grows
<1>. QED  BY <1>1, <1>2, <1>3, <1>4, <1>5 DEF Good

LEMMA LoadFailsStep ==
  ASSUME IInv, OneSaver, LoadFails
  PROVE  SaverInv' /\ (Main \notin failed' => Good)
<1>. USE DEF OneSaver, LoadFails,
         IInv, StatsTypeOK, SaverInv, MainInv, CopiesInv, MainLoaded, MainRenamed
<1>1. SaverInv'
  OBVIOUS
<1>2. ASSUME Main \notin failed' PROVE CopiesInv'
  BY <1>2
<1>3. ASSUME Main \notin failed' PROVE MemoryInv'
  BY <1>3 DEF MemoryInv, Recovered
<1>4. ASSUME Main \notin failed' PROVE PartInv'
  BY <1>4 DEF MemoryInv, PartInv, Recovered
<1>5. ASSUME Main \notin failed' PROVE Grows
  BY <1>5 DEF MemoryInv, Recovered, Grows
<1>. QED  BY <1>1, <1>2, <1>3, <1>4, <1>5 DEF Good

-----------------------------------------------------------------------------
(* Together *)

LEMMA InitInv == StatsInit => IInv
<1>1. StatsInit => SaverInv
  BY DEF StatsInit, SaverInv
<1>2. StatsInit => MainInv
  BY DEF StatsInit, MainInv, CopiesInv, MemoryInv, PartInv, Recovered, MainLoaded, MainRenamed
<1>. QED  BY <1>1, <1>2, TypeInit DEF IInv

LEMMA StepInv ==
  ASSUME IInv, OneSaver, StatsNext
  PROVE  IInv' /\ (Grows \/ Main \in failed')
<1>1. StatsTypeOK'
  BY TypeCount, TypeSave, TypeLoad DEF IInv, StatsNext
<1>2. SaverInv' /\ (Main \notin failed' => Good)
  BY CountStep, SaveBeginStep, RemoveStep, RenameStep, OpenStep, WriteStep, OpenOldStep,
     WriteOldStep, SaveFailsStep, CrashStep, StartStep, ReadFirstStep, ReadOldStep,
     PutBackStep, PutBackFailsStep, ReadNothingStep, LoadFailsStep
  DEF StatsNext, Save, Load
<1>. QED  BY <1>1, <1>2 DEF IInv, MainInv, Good

LEMMA StutterInv ==
  ASSUME IInv, UNCHANGED statVars
  PROVE  IInv' /\ Recovered(Main)' = Recovered(Main)
  BY DEF IInv, StatsTypeOK, SaverInv, MainInv, CopiesInv, MemoryInv, PartInv, Recovered,
         MainLoaded, MainRenamed, statVars

LEMMA NoMoreThanTotalInv == IInv => NoMoreThanTotal
  BY DEF IInv, StatsTypeOK, MainInv, PartInv, NoMoreThanTotal, Recovered

LEMMA StatsInvariant == ASSUME OneSaver PROVE StatsSpec => []IInv
<1>1. IInv /\ [StatsNext]_statVars => IInv'
  BY StepInv, StutterInv
<1>. QED  BY <1>1, InitInv, PTL DEF StatsSpec

\* The totals on disk never go back, wherever Save or Load is stopped, unless the
\* first copy of their file could not be written.
THEOREM TotalsKept == ASSUME OneSaver PROVE StatsSpec => TotalsNeverGoBack
<1>1. IInv /\ [StatsNext]_statVars =>
        [Recovered(Main)' >= Recovered(Main) \/ Main \in failed']_statVars
  BY StepInv DEF Grows
<1>. QED  BY <1>1, StatsInvariant, PTL DEF StatsSpec, TotalsNeverGoBack

\* No storage has more hits than the totals, in memory and on disk.
THEOREM PartsBelowTotal == ASSUME OneSaver PROVE StatsSpec => []NoMoreThanTotal
  BY StatsInvariant, NoMoreThanTotalInv, PTL
-----------------------------------------------------------------------------
(* The report *)


USE DEF counters, requests, reads, history, statVars
-----------------------------------------------------------------------------
(* Types *)

Jobs == {"idle", "last", "only", "emit", "save", "wait", "store", "settle"}

\* The counters and the requests; the statistics have StatsTypeOK.
CounterTypes ==
  /\ hits \in Nat /\ lastHits \in Nat /\ statOnlyHits \in Int
  /\ served \in Nat /\ acked \in Int

RequestTypes ==
  /\ req \in [Requests -> {"idle", "count", "only"}]
  /\ only \in [Requests -> BOOLEAN]
  /\ sub \in [Requests -> Files]

JobTypes ==
  /\ job \in [Savers -> Jobs]
  /\ seenHits \in [Savers -> Nat] /\ seenLast \in [Savers -> Nat]
  /\ seenOnly \in [Savers -> Int]
  /\ \A s \in Savers : at[s] # "idle" => job[s] = "save"

LEMMA ReportTypeInit == Init => TypeOK
<1>. SUFFICES ASSUME Init PROVE TypeOK
  OBVIOUS
<1>1. StatsTypeOK   BY TypeInit DEF Init
<1>2. CounterTypes  BY DEF Init, CounterTypes
<1>3. RequestTypes  BY DEF Init, RequestTypes, Files
<1>4. JobTypes      BY DEF Init, StatsInit, JobTypes, Jobs
<1>. QED  BY <1>1, <1>2, <1>3, <1>4 DEF TypeOK, CounterTypes, RequestTypes, JobTypes, Jobs

LEMMA RequestKeepsTypes ==
  ASSUME StatsTypeOK, CounterTypes, RequestTypes, JobTypes, NEW r \in Requests, Request(r)
  PROVE  StatsTypeOK' /\ CounterTypes' /\ RequestTypes' /\ JobTypes'
<1>1. CASE AddHits(r)
  <2>1. StatsTypeOK'  BY <1>1 DEF AddHits, StatsTypeOK, memory, disk, savers
  <2>2. CounterTypes' /\ RequestTypes' /\ JobTypes'
    BY <1>1 DEF AddHits, CounterTypes, RequestTypes, JobTypes, savers
  <2>. QED  BY <2>1, <2>2
<1>2. CASE CountHit(r)
  <2>1. StatsTypeOK'  BY <1>2, TypeCount DEF CountHit, RequestTypes
  <2>2. CounterTypes' /\ RequestTypes' /\ JobTypes'
    BY <1>2 DEF CountHit, Count, Done, CounterTypes, RequestTypes, JobTypes, savers, Files
  <2>. QED  BY <2>1, <2>2
<1>3. CASE AddStatOnly(r)
  <2>1. StatsTypeOK'  BY <1>3 DEF AddStatOnly, StatsTypeOK, memory, disk, savers
  <2>2. CounterTypes' /\ RequestTypes' /\ JobTypes'
    BY <1>3 DEF AddStatOnly, Done, CounterTypes, RequestTypes, JobTypes, savers, Files
  <2>. QED  BY <2>1, <2>2
<1>. QED  BY <1>1, <1>2, <1>3 DEF Request

LEMMA KeepAliveKeepsTypes ==
  ASSUME StatsTypeOK, CounterTypes, RequestTypes, JobTypes, NEW s \in Savers, KeepAlive(s)
  PROVE  StatsTypeOK' /\ CounterTypes' /\ RequestTypes' /\ JobTypes'
<1>1. StatsTypeOK'
  BY TypeSave DEF KeepAlive, ReadHits, ReadLast, ReadOnly, Emit, SaveStep, Saved, Answered,
     Unanswered, StoreLast, SettleOnly, StatsTypeOK, memory, disk, savers
<1>2. CounterTypes'
  BY DEF KeepAlive, ReadHits, ReadLast, ReadOnly, Emit, SaveStep, Saved, Answered,
     Unanswered, StoreLast, SettleOnly, Sent, Return, CounterTypes, JobTypes
<1>3. RequestTypes'
  BY DEF KeepAlive, ReadHits, ReadLast, ReadOnly, Emit, SaveStep, Saved, Answered,
     Unanswered, StoreLast, SettleOnly, RequestTypes, Files
<1>4. JobTypes'
  <2>1. CASE ReadHits(s) \/ ReadLast(s) \/ ReadOnly(s) \/ Saved(s) \/ Answered(s)
    BY <2>1 DEF ReadHits, ReadLast, ReadOnly, Saved, Answered, Goto, JobTypes, Jobs,
       CounterTypes, savers
  <2>2. CASE Unanswered(s) \/ StoreLast(s) \/ SettleOnly(s)
    BY <2>2 DEF Unanswered, StoreLast, SettleOnly, Goto, Return, JobTypes, Jobs,
       CounterTypes, savers
  <2>3. CASE Emit(s)
    BY <2>3 DEF Emit, SaveBegin, Goto, JobTypes, Jobs, StatsTypeOK
  <2>4. CASE SaveStep(s)
    BY <2>4 DEF SaveStep, Save, Remove, Rename, Open, Write, OpenOld, WriteOld, SaveFails,
       Close, JobTypes, Jobs, StatsTypeOK
  <2>. QED  BY <2>1, <2>2, <2>3, <2>4 DEF KeepAlive
<1>. QED  BY <1>1, <1>2, <1>3, <1>4

LEMMA ProcessKeepsTypes ==
  ASSUME StatsTypeOK, CounterTypes, RequestTypes, JobTypes, Stop \/ Restart
  PROVE  StatsTypeOK' /\ CounterTypes' /\ RequestTypes' /\ JobTypes'
<1>1. StatsTypeOK'
  BY TypeLoad DEF Stop, Restart
<1>2. CASE Stop
  BY <1>1, <1>2 DEF Stop, Crash, CounterTypes, RequestTypes, JobTypes, Jobs, Files
<1>3. CASE Restart
  BY <1>1, <1>3 DEF Restart, Start, Load, ReadFirst, ReadOld, PutBack, PutBackFails,
     ReadNothing, LoadFails, CounterTypes, RequestTypes, JobTypes, Jobs, Files, savers
<1>. QED  BY <1>2, <1>3

LEMMA ReportTypeNext == TypeOK /\ [Next]_vars => TypeOK'
<1>. SUFFICES ASSUME StatsTypeOK, CounterTypes, RequestTypes, JobTypes, [Next]_vars
              PROVE  StatsTypeOK' /\ CounterTypes' /\ RequestTypes' /\ JobTypes'
  BY DEF TypeOK, CounterTypes, RequestTypes, JobTypes, Jobs
<1>1. CASE UNCHANGED vars
  BY <1>1 DEF vars, StatsTypeOK, CounterTypes, RequestTypes, JobTypes, memory, disk, savers,
     Files
<1>. QED
  BY <1>1, RequestKeepsTypes, KeepAliveKeepsTypes, ProcessKeepsTypes DEF Next

\* Every variable has its type, and a save runs only in KeepAlive.
THEOREM ReportTypeCorrect == Spec => []TypeOK
  BY ReportTypeInit, ReportTypeNext, PTL DEF Spec
-----------------------------------------------------------------------------
(* The statistics, as StatsSpec has them *)

LEMMA ReportSteps == TypeOK /\ [Next]_vars => [StatsNext]_statVars
<1>. SUFFICES ASSUME TypeOK, [Next]_vars PROVE [StatsNext]_statVars
  OBVIOUS
<1>1. ASSUME NEW r \in Requests, Request(r) PROVE [StatsNext]_statVars
  <2>1. CASE AddHits(r)      BY <2>1 DEF AddHits
  <2>2. CASE CountHit(r)     BY <2>2 DEF CountHit, StatsNext, TypeOK
  <2>3. CASE AddStatOnly(r)  BY <2>3 DEF AddStatOnly
  <2>. QED  BY <1>1, <2>1, <2>2, <2>3 DEF Request
<1>2. ASSUME NEW s \in Savers, KeepAlive(s) PROVE [StatsNext]_statVars
  <2>1. CASE Emit(s)      BY <2>1 DEF Emit, StatsNext
  <2>2. CASE SaveStep(s)  BY <2>2 DEF SaveStep, StatsNext
  <2>3. CASE ReadHits(s) \/ ReadLast(s) \/ ReadOnly(s) \/ Saved(s)
    BY <2>3 DEF ReadHits, ReadLast, ReadOnly, Saved
  <2>4. CASE Answered(s) \/ Unanswered(s) \/ StoreLast(s) \/ SettleOnly(s)
    BY <2>4 DEF Answered, Unanswered, StoreLast, SettleOnly
  <2>. QED  BY <1>2, <2>1, <2>2, <2>3, <2>4 DEF KeepAlive
<1>3. CASE Stop     BY <1>3 DEF Stop, StatsNext
<1>4. CASE Restart  BY <1>4 DEF Restart, StatsNext
<1>5. CASE UNCHANGED vars  BY <1>5 DEF vars
<1>. QED  BY <1>1, <1>2, <1>3, <1>4, <1>5 DEF Next

\* The report of the hits, with the requests and the answers of the server, is an
\* implementation of the statistics' files alone.
THEOREM ReportImplementsStats == Spec => StatsSpec
<1>1. Init => StatsInit
  BY DEF Init
<1>. QED  BY <1>1, ReportSteps, ReportTypeCorrect, PTL DEF Spec, StatsSpec

\* In the whole report the totals on disk never go back, wherever the process stops.
THEOREM ReportKeepsTotals == ASSUME OneSaver PROVE Spec => TotalsNeverGoBack
  BY TotalsKept, ReportImplementsStats

\* And no storage has more hits than the totals, in memory and on disk.
THEOREM ReportKeepsParts == ASSUME OneSaver PROVE Spec => []NoMoreThanTotal
  BY PartsBelowTotal, ReportImplementsStats
-----------------------------------------------------------------------------
(* Each hit is reported once *)

\* What the next packet would carry of the counters, beyond what the server has
\* acknowledged, against the hits served.
Excess == acked + (hits - lastHits - statOnlyHits) - (served + Cardinality(NotYetOnly))

\* The counters balance but while an answer is being settled: the server has what
\* was sent, and lastHits, then statOnlyHits, are yet to follow.
Balance ==
  /\ (\A s \in Savers : job[s] \notin {"store", "settle"}) => Excess = 0
  /\ \A s \in Savers : job[s] = "store" => Excess = Sent(s)
  /\ \A s \in Savers : job[s] = "settle" => Excess = 0 - seenOnly[s]

\* lastHits stays what KeepAlive has read until it stores it anew.
LastSeen ==
  \A s \in Savers : job[s] \in {"only", "emit", "save", "wait", "store"} =>
    seenLast[s] = lastHits

\* A request is at statOnlyHits only if it is for the statistics only.
OnlyMarked == \A r \in Requests : req[r] = "only" => only[r]

OnceInv == TypeOK /\ OnlyMarked /\ LastSeen /\ Balance

LEMMA NotYetOnlyFinite == IsFiniteSet(NotYetOnly)
  BY RequestsAssumption, FS_Subset DEF NotYetOnly, Busy

LEMMA OnceInit == Init => OnceInv
<1>. SUFFICES ASSUME Init PROVE OnlyMarked /\ LastSeen /\ Balance
  BY ReportTypeInit DEF OnceInv
<1>1. NotYetOnly = {}
  BY DEF Init, NotYetOnly, Busy
<1>2. Excess = 0
  BY <1>1, FS_EmptySet DEF Init, Excess
<1>. QED  BY <1>2 DEF Init, OnlyMarked, LastSeen, Balance

LEMMA RequestKeepsOnce ==
  ASSUME OnceInv, NEW r \in Requests, Request(r)
  PROVE  OnlyMarked' /\ LastSeen' /\ Balance'
<1>. USE DEF OnceInv, TypeOK
<1>1. UNCHANGED <<job, reads, lastHits, acked>>
  BY DEF Request, AddHits, CountHit, AddStatOnly
<1>2. Cardinality(NotYetOnly) \in Nat
  BY NotYetOnlyFinite, FS_CardinalityType
<1>3. Excess' = Excess
  <2>1. CASE AddHits(r)
    <3>1. PICK o \in BOOLEAN : /\ only' = [only EXCEPT ![r] = o]
                               /\ served' = IF o THEN served ELSE served + 1
      BY <2>1 DEF AddHits
    <3>2. NotYetOnly' = IF o THEN NotYetOnly \union {r} ELSE NotYetOnly
      BY <2>1, <3>1 DEF AddHits, NotYetOnly, Busy
    <3>3. r \notin NotYetOnly
      BY <2>1 DEF AddHits, NotYetOnly, Busy
    <3>4. Cardinality(NotYetOnly)' = Cardinality(NotYetOnly) + (IF o THEN 1 ELSE 0)
      <4>1. CASE o   BY <3>2, <3>3, <4>1, NotYetOnlyFinite, FS_AddElement
      <4>2. CASE ~o  BY <3>2, <4>2, <1>2
      <4>. QED  BY <4>1, <4>2
    <3>. QED  BY <1>1, <1>2, <2>1, <3>1, <3>4 DEF AddHits, Excess
  <2>2. CASE CountHit(r)
    <3>1. NotYetOnly' = NotYetOnly
      BY <2>2 DEF CountHit, Done, NotYetOnly, Busy
    <3>. QED  BY <1>1, <2>2, <3>1 DEF CountHit, Excess
  <2>3. CASE AddStatOnly(r)
    <3>1. r \in NotYetOnly
      BY <2>3 DEF AddStatOnly, OnlyMarked, NotYetOnly, Busy
    <3>2. NotYetOnly' = NotYetOnly \ {r}
      BY <2>3 DEF AddStatOnly, Done, NotYetOnly, Busy
    <3>3. Cardinality(NotYetOnly)' = Cardinality(NotYetOnly) - 1
      BY <3>1, <3>2, NotYetOnlyFinite, FS_RemoveElement
    <3>. QED  BY <1>1, <1>2, <2>3, <3>3 DEF AddStatOnly, Excess
  <2>. QED  BY <2>1, <2>2, <2>3 DEF Request
<1>4. OnlyMarked'
  BY DEF Request, AddHits, CountHit, AddStatOnly, Done, OnlyMarked
<1>. QED  BY <1>1, <1>3, <1>4 DEF LastSeen, Balance, Sent

LEMMA KeepAliveKeepsOnce ==
  ASSUME OnceInv, OneSaver, NEW s \in Savers, KeepAlive(s)
  PROVE  OnlyMarked' /\ LastSeen' /\ Balance'
<1>. USE DEF OnceInv, TypeOK, OneSaver
<1>1. UNCHANGED <<requests, hits, served>>
  BY DEF KeepAlive, ReadHits, ReadLast, ReadOnly, Emit, SaveStep, Saved, Answered,
     Unanswered, StoreLast, SettleOnly
<1>2. NotYetOnly' = NotYetOnly
  BY <1>1 DEF NotYetOnly, Busy
<1>3. Cardinality(NotYetOnly) \in Nat
  BY NotYetOnlyFinite, FS_CardinalityType
<1>4. OnlyMarked'
  BY <1>1 DEF OnlyMarked
<1>5. LastSeen'
  BY DEF KeepAlive, ReadHits, ReadLast, ReadOnly, Emit, SaveStep, Saved, Answered,
     Unanswered, StoreLast, SettleOnly, Goto, Return, LastSeen
<1>6. Balance'
  <2>1. CASE ReadHits(s) \/ ReadLast(s) \/ ReadOnly(s)
    BY <1>2, <2>1 DEF ReadHits, ReadLast, ReadOnly, Goto, Balance, Excess
  <2>2. CASE Emit(s) \/ SaveStep(s) \/ Saved(s) \/ Unanswered(s)
    BY <1>2, <2>2 DEF Emit, SaveStep, Saved, Unanswered, Goto, Return, Balance, Excess
  <2>3. CASE Answered(s)
    BY <1>2, <1>3, <2>3 DEF Answered, Goto, Balance, Excess, Sent
  <2>4. CASE StoreLast(s)
    BY <1>2, <1>3, <2>4 DEF StoreLast, Goto, Balance, Excess, Sent, LastSeen
  <2>5. CASE SettleOnly(s)
    BY <1>2, <1>3, <2>5 DEF SettleOnly, Goto, Return, Balance, Excess
  <2>. QED  BY <2>1, <2>2, <2>3, <2>4, <2>5 DEF KeepAlive
<1>. QED  BY <1>4, <1>5, <1>6

LEMMA ProcessKeepsOnce ==
  ASSUME OnceInv, Stop \/ Restart
  PROVE  OnlyMarked' /\ LastSeen' /\ Balance'
<1>1. CASE Stop
  <2>1. NotYetOnly' = {}
    BY <1>1 DEF Stop, NotYetOnly, Busy
  <2>2. Excess' = 0
    BY <1>1, <2>1, FS_EmptySet DEF Stop, Excess
  <2>. QED  BY <1>1, <2>2 DEF Stop, OnlyMarked, LastSeen, Balance
<1>2. CASE Restart
  BY <1>2 DEF Restart, OnceInv, OnlyMarked, LastSeen, Balance, Excess, NotYetOnly, Busy, Sent
<1>. QED  BY <1>1, <1>2

LEMMA OnceNext == ASSUME OneSaver PROVE OnceInv /\ [Next]_vars => OnceInv'
<1>. SUFFICES ASSUME OnceInv, [Next]_vars PROVE OnlyMarked' /\ LastSeen' /\ Balance'
  BY ReportTypeNext DEF OnceInv
<1>1. CASE UNCHANGED vars
  BY <1>1 DEF vars, OnceInv, OnlyMarked, LastSeen, Balance, Excess, NotYetOnly, Busy, Sent
<1>. QED
  BY <1>1, RequestKeepsOnce, KeepAliveKeepsOnce, ProcessKeepsOnce DEF Next

LEMMA OnceEnough == OnceInv => EachHitOnce
<1>1. Cardinality(NotYetOnly) \in Nat
  BY NotYetOnlyFinite, FS_CardinalityType
<1>. QED  BY <1>1 DEF OnceInv, TypeOK, Balance, Excess, EachHitOnce

\* Between two reports the hits acknowledged and those to be sent are the hits
\* served, whatever the requests did while a packet was on its way.
THEOREM HitsReportedOnce == ASSUME OneSaver PROVE Spec => []EachHitOnce
  BY OnceInit, OnceNext, OnceEnough, PTL DEF Spec

-----------------------------------------------------------------------------
(* Sums over finite sets.  The walk of MapThenFoldSet over the subsets of a set exists by   *)
(* induction on their sizes, and induction is a least number.                            *)

\* Among finite subsets some are minimal: strict inclusion is well founded on them.
LEMMA Minimal ==
  ASSUME NEW S, NEW T, T \subseteq FiniteSubsetsOf(S), T # {}
  PROVE  \E s \in T : \A t \in T : t \subseteq s => t = s
<1>1. PICK s \in T : \A t \in T : ~(<<t, s>> \in StrictSubsetOrdering(S))
  <2>. HIDE DEF StrictSubsetOrdering, FiniteSubsetsOf
  <2>. QED  BY FS_StrictSubsetOrderingWellFounded, WFMin
<1>2. ASSUME NEW t \in T, t \subseteq s PROVE t = s
  <2>1. t \in SUBSET S /\ s \in SUBSET S
    BY DEF FiniteSubsetsOf
  <2>2. t # s => <<t, s>> \in StrictSubsetOrdering(S)
    BY <1>2, <2>1 DEF StrictSubsetOrdering
  <2>. QED  BY <1>1, <2>2
<1>. QED  BY <1>2

\* A set of numbers has a least one.
LEMMA Least == ASSUME NEW T, T \subseteq Nat, T # {} PROVE \E n \in T : \A m \in T : n <= m
<1>. DEFINE Below == {0 .. n - 1 : n \in T}
<1>1. Below \subseteq FiniteSubsetsOf(Nat)
  <2>1. \A n \in T : 0 .. n - 1 \in SUBSET Nat /\ IsFiniteSet(0 .. n - 1)
    BY FS_Interval
  <2>. QED  BY <2>1 DEF FiniteSubsetsOf
<1>2. PICK s \in Below : \A t \in Below : t \subseteq s => t = s
  <2>. HIDE DEF Below
  <2>1. Below # {}
    BY DEF Below
  <2>. QED  BY <1>1, <2>1, Minimal
<1>3. PICK n \in T : s = 0 .. n - 1
  OBVIOUS
<1>4. ASSUME NEW m \in T, m < n PROVE FALSE
  <2>1. 0 .. m - 1 \subseteq s /\ 0 .. m - 1 \in Below
    BY <1>3, <1>4
  <2>2. 0 .. m - 1 = s
    BY <1>2, <2>1
  <2>3. m \in s /\ m \notin 0 .. m - 1
    BY <1>3, <1>4
  <2>. QED  BY <2>2, <2>3
<1>. QED  BY <1>4

\* A set of numbers that has the successors of what it has, and 0.
LEMMA Induction ==
  ASSUME NEW T, 0 \in T, \A n \in Nat : n \in T => n + 1 \in T PROVE Nat \subseteq T
<1> SUFFICES ASSUME Nat \ T # {} PROVE FALSE
  OBVIOUS
<1>1. PICK n \in Nat \ T : \A m \in Nat \ T : n <= m
  BY Least
<1>2. n - 1 \in Nat
  BY <1>1
<1>3. n - 1 \in T
  BY <1>1, <1>2
<1>. QED  BY <1>1, <1>2, <1>3

Sum(f, S) == Periods!MapThenSumSet(LAMBDA i : f[i], S)

\* The walk: what it makes of a subset, and that it does so of those with n elements at most.
Body(f, g, s) == IF s = {} THEN 0 ELSE f[CHOOSE x \in s : TRUE] + g[s \ {CHOOSE x \in s : TRUE}]
Walks(f, S, g, n) == \A s \in SUBSET S : Cardinality(s) <= n => g[s] = Body(f, g, s)

\* A set without the element that the walk takes first is one smaller.
LEMMA FirstOut ==
  ASSUME NEW S, IsFiniteSet(S), NEW s \in SUBSET S, s # {}
  PROVE  LET t == s \ {CHOOSE x \in s : TRUE}
         IN  t \in SUBSET S /\ IsFiniteSet(t) /\ Cardinality(t) \in Nat /\ Cardinality(s) = Cardinality(t) + 1
<1>. DEFINE x == CHOOSE x \in s : TRUE
<1>1. IsFiniteSet(s) /\ x \in s
  BY FS_Subset
<1>. HIDE DEF x
<1>2. IsFiniteSet(s \ {x}) /\ Cardinality(s \ {x}) = Cardinality(s) - 1
  BY <1>1, FS_RemoveElement
<1>3. Cardinality(s) \in Nat /\ Cardinality(s \ {x}) \in Nat
  BY <1>1, <1>2, FS_CardinalityType
<1>4. s \ {x} \in SUBSET S /\ Cardinality(s) = Cardinality(s \ {x}) + 1
  BY <1>2, <1>3
<1>. QED  BY <1>2, <1>3, <1>4 DEF x

\* A walk over the sets of n elements goes on to those of n + 1.
LEMMA WalkOn ==
  ASSUME NEW f, NEW S, IsFiniteSet(S), NEW n \in Nat, NEW g, Walks(f, S, g, n)
  PROVE  \E h : Walks(f, S, h, n + 1)
<1>. DEFINE h == [s \in SUBSET S |-> IF Cardinality(s) <= n THEN g[s] ELSE Body(f, g, s)]
<1>1. ASSUME NEW s \in SUBSET S, Cardinality(s) <= n + 1 PROVE h[s] = Body(f, h, s)
  <2>1. CASE s = {}
    BY <2>1, FS_EmptySet DEF Walks, Body
  <2>2. CASE s # {}
    <3>1. h[s] = Body(f, g, s)
      BY DEF Walks
    <3>. DEFINE t == s \ {CHOOSE x \in s : TRUE}
    <3>2. h[t] = g[t]
      <4>1. t \in SUBSET S /\ Cardinality(t) \in Nat /\ Cardinality(s) = Cardinality(t) + 1
        BY <2>2, FirstOut
      <4>. QED  BY <1>1, <4>1
    <3>. QED  BY <2>2, <3>1, <3>2 DEF Body
  <2>. QED  BY <2>1, <2>2
<1>. QED  BY <1>1 DEF Walks

\* So there is one over all subsets of a finite set.
LEMMA WalkExists ==
  ASSUME NEW f, NEW S, IsFiniteSet(S)
  PROVE  \E g : g = [s \in SUBSET S |-> Body(f, g, s)]
<1>. DEFINE T == {n \in Nat : \E g : Walks(f, S, g, n)}
<1>1. 0 \in T
  <2>1. \A s \in SUBSET S : Cardinality(s) <= 0 => s = {}
    BY FS_Subset, FS_EmptySet, FS_CardinalityType
  <2>2. Walks(f, S, [s \in SUBSET S |-> 0], 0)
    BY <2>1 DEF Walks, Body
  <2>. QED  BY <2>2
<1>2. \A n \in Nat : n \in T => n + 1 \in T
  BY WalkOn
<1>3. Cardinality(S) \in T
  BY <1>1, <1>2, Induction, FS_CardinalityType
<1>4. PICK g : Walks(f, S, g, Cardinality(S))
  BY <1>3
<1>. DEFINE h == [s \in SUBSET S |-> g[s]]
<1>5. ASSUME NEW s \in SUBSET S PROVE h[s] = Body(f, h, s)
  <2>1. g[s] = Body(f, g, s)
    BY <1>4, FS_Subset DEF Walks
  <2>2. s # {} => s \ {CHOOSE x \in s : TRUE} \in SUBSET S
    OBVIOUS
  <2>. QED  BY <2>1, <2>2 DEF Body
<1>6. h = [s \in SUBSET S |-> Body(f, h, s)]
  BY <1>5
<1>. QED  BY <1>6

Walk(f, S) == CHOOSE g : g = [s \in SUBSET S |-> Body(f, g, s)]

\* The sum is what the walk that CHOOSE finds makes of the whole set.
LEMMA SumIsWalk == \A f, S : Sum(f, S) = Walk(f, S)[S]
BY DEF Sum, Periods!MapThenSumSet, Periods!MapThenFoldSet, Walk, Body

\* Which takes a step as it should.
LEMMA WalkStep ==
  ASSUME NEW f, NEW S, IsFiniteSet(S), NEW s \in SUBSET S
  PROVE  Walk(f, S)[s] = Body(f, Walk(f, S), s)
<1>1. Walk(f, S) = [t \in SUBSET S |-> Body(f, Walk(f, S), t)]
  BY WalkExists DEF Walk
<1>. QED  BY <1>1

\* What a walk over a larger set makes of a subset is the subset's own sum.
LEMMA WalkIsSum ==
  ASSUME NEW f, NEW S, IsFiniteSet(S), NEW s \in SUBSET S
  PROVE  Walk(f, S)[s] = Sum(f, s)
<1>. DEFINE T == {n \in Nat : \A u \in SUBSET s : Cardinality(u) = n => Walk(f, S)[u] = Walk(f, s)[u]}
<1>1. IsFiniteSet(s)
  BY FS_Subset
<1>2. 0 \in T
  <2>1. ASSUME NEW u \in SUBSET s, Cardinality(u) = 0 PROVE Walk(f, S)[u] = Walk(f, s)[u]
    <3>1. u = {} /\ u \in SUBSET S
      BY <1>1, <2>1, FS_Subset, FS_EmptySet
    <3>. QED  BY <1>1, <3>1, WalkStep DEF Body
  <2>. QED  BY <2>1
<1>3. ASSUME NEW n \in Nat, n \in T PROVE n + 1 \in T
  <2>1. ASSUME NEW u \in SUBSET s, Cardinality(u) = n + 1 PROVE Walk(f, S)[u] = Walk(f, s)[u]
    <3>. DEFINE t == u \ {CHOOSE x \in u : TRUE}
    <3>1. u # {} /\ u \in SUBSET S
      BY <2>1, FS_EmptySet
    <3>2. t \in SUBSET s /\ Cardinality(t) \in Nat /\ Cardinality(u) = Cardinality(t) + 1
      BY <1>1, <3>1, FirstOut
    <3>3. Walk(f, S)[t] = Walk(f, s)[t]
      BY <1>3, <2>1, <3>2
    <3>4. Walk(f, S)[u] = Body(f, Walk(f, S), u) /\ Walk(f, s)[u] = Body(f, Walk(f, s), u)
      BY <1>1, <3>1, WalkStep
    <3>. QED  BY <3>1, <3>3, <3>4 DEF Body
  <2>. QED  BY <2>1
<1>4. Cardinality(s) \in T
  BY <1>1, <1>2, <1>3, Induction, FS_CardinalityType
<1>. QED  BY <1>4, SumIsWalk

\* The sum of nothing.
LEMMA SumOfNone == \A f : Sum(f, {}) = 0
  <1>1. \A f : Walk(f, {})[{}] = 0
    BY FS_EmptySet, WalkStep DEF Body
  <1>. QED  BY <1>1, SumIsWalk

\* A sum is its first element and the sum of the rest.
LEMMA SumFirst ==
  ASSUME NEW f, NEW S, IsFiniteSet(S), S # {}
  PROVE  LET x == CHOOSE x \in S : TRUE IN Sum(f, S) = f[x] + Sum(f, S \ {x})
<1>. DEFINE t == S \ {CHOOSE x \in S : TRUE}
<1>1. Walk(f, S)[S] = Body(f, Walk(f, S), S)
  BY WalkStep
<1>2. Walk(f, S)[t] = Sum(f, t)
  BY WalkIsSum
<1>. QED  BY <1>1, <1>2, SumIsWalk DEF Body

\* Numbers: the sum is one, and any element can be taken out first.
Numbers(f, S) == \A i \in S : f[i] \in Nat

\* The sum of numbers is a number.
LEMMA SumType ==
  ASSUME NEW f, NEW S, IsFiniteSet(S), Numbers(f, S)
  PROVE  Sum(f, S) \in Nat
<1>. DEFINE T == {n \in Nat : \A s \in SUBSET S : Cardinality(s) = n => Sum(f, s) \in Nat}
<1>1. 0 \in T
  <2>1. ASSUME NEW s \in SUBSET S, Cardinality(s) = 0 PROVE Sum(f, s) \in Nat
    <3>1. s = {}
      BY <2>1, FS_Subset, FS_EmptySet
    <3>. QED  BY <3>1, SumOfNone
  <2>. QED  BY <2>1
<1>2. ASSUME NEW n \in Nat, n \in T PROVE n + 1 \in T
  <2>1. ASSUME NEW s \in SUBSET S, Cardinality(s) = n + 1 PROVE Sum(f, s) \in Nat
    <3>. DEFINE x == CHOOSE x \in s : TRUE
    <3>1. IsFiniteSet(s) /\ s # {}
      BY <2>1, FS_Subset, FS_EmptySet
    <3>2. s \ {x} \in SUBSET S /\ Cardinality(s \ {x}) = n
      BY <2>1, <3>1, FirstOut
    <3>3. Sum(f, s \ {x}) \in Nat
      BY <1>2, <3>2
    <3>4. Sum(f, s) = f[x] + Sum(f, s \ {x})
      BY <3>1, SumFirst
    <3>5. f[x] \in Nat
      BY <3>1 DEF Numbers
    <3>. QED  BY <3>3, <3>4, <3>5
  <2>. QED  BY <2>1
<1>3. Cardinality(S) \in T
  BY <1>1, <1>2, Induction, FS_CardinalityType
<1>. QED  BY <1>3

\* Any element can be the first.
LEMMA SumTakesOut ==
  ASSUME NEW f, NEW S, IsFiniteSet(S), Numbers(f, S), NEW y \in S
  PROVE  Sum(f, S) = f[y] + Sum(f, S \ {y})
<1>. DEFINE Out(s) == \A z \in s : Sum(f, s) = f[z] + Sum(f, s \ {z})
            T == {n \in Nat : \A s \in SUBSET S : Cardinality(s) = n => Out(s)}
<1>1. 0 \in T
  <2>1. ASSUME NEW s \in SUBSET S, Cardinality(s) = 0 PROVE Out(s)
    BY <2>1, FS_Subset, FS_EmptySet
  <2>. QED  BY <2>1
<1>2. ASSUME NEW n \in Nat, n \in T PROVE n + 1 \in T
  <2>1. ASSUME NEW s \in SUBSET S, Cardinality(s) = n + 1 PROVE Out(s)
    <3>. DEFINE x == CHOOSE x \in s : TRUE
    <3>1. IsFiniteSet(s) /\ s # {} /\ x \in s
      BY <2>1, FS_Subset, FS_EmptySet
    <3>2. ASSUME NEW z \in s PROVE Out(s \ {z})
      <4>1. Cardinality(s \ {z}) = Cardinality(s) - 1
        BY <3>1, FS_RemoveElement
      <4>2. s \ {z} \in SUBSET S /\ Cardinality(s \ {z}) = n
        BY <2>1, <4>1
      <4>. QED  BY <1>2, <4>2
    <3>3. Sum(f, s) = f[x] + Sum(f, s \ {x})
      BY <3>1, SumFirst
    <3>. HIDE DEF x
    <3>4. ASSUME NEW z \in s, z # x PROVE Sum(f, s) = f[z] + Sum(f, s \ {z})
      <4>. DEFINE rest == s \ {x, z}
      <4>1. z \in s \ {x} /\ x \in s \ {z} /\ (s \ {x}) \ {z} = rest /\ (s \ {z}) \ {x} = rest
        BY <3>1, <3>4
      <4>2. Sum(f, s \ {x}) = f[z] + Sum(f, (s \ {x}) \ {z})
        BY <3>1, <3>2, <4>1
      <4>3. Sum(f, s \ {z}) = f[x] + Sum(f, (s \ {z}) \ {x})
        BY <3>2, <4>1
      <4>4. Sum(f, rest) \in Nat /\ f[x] \in Nat /\ f[z] \in Nat
        <5>1. IsFiniteSet(rest) /\ Numbers(f, rest) /\ x \in S /\ z \in S
          BY <3>1, FS_Subset DEF Numbers
        <5>. QED  BY <5>1, SumType DEF Numbers
      <4>. HIDE DEF rest
      <4>. QED  BY <3>3, <4>1, <4>2, <4>3, <4>4
    <3>. QED  BY <3>3, <3>4
  <2>. QED  BY <2>1
<1>3. Cardinality(S) \in T
  BY <1>1, <1>2, Induction, FS_CardinalityType
<1>. QED  BY <1>3

\* Induction over the subsets of a finite set.
LEMMA SubsetInduction ==
  ASSUME NEW S, IsFiniteSet(S), NEW T, {} \in T,
         \A s \in SUBSET S, x \in S : s \in T /\ x \notin s => s \cup {x} \in T
  PROVE  S \in T
<1>. DEFINE N == {n \in Nat : \A s \in SUBSET S : Cardinality(s) = n => s \in T}
<1>1. 0 \in N
  <2>1. ASSUME NEW s \in SUBSET S, Cardinality(s) = 0 PROVE s \in T
    BY <2>1, FS_Subset, FS_EmptySet
  <2>. QED  BY <2>1
<1>2. ASSUME NEW n \in Nat, n \in N PROVE n + 1 \in N
  <2>1. ASSUME NEW s \in SUBSET S, Cardinality(s) = n + 1 PROVE s \in T
    <3>. DEFINE x == CHOOSE x \in s : TRUE
    <3>1. s # {}
      <4>1. n + 1 # 0 /\ Cardinality({}) = 0
        BY FS_EmptySet
      <4>. QED  BY <2>1, <4>1
    <3>2. s \ {x} \in SUBSET S /\ Cardinality(s \ {x}) = n
      <4>1. /\ s \ {x} \in SUBSET S /\ Cardinality(s \ {x}) \in Nat
            /\ Cardinality(s) = Cardinality(s \ {x}) + 1
        BY <3>1, FirstOut
      <4>. QED  BY <2>1, <4>1
    <3>4. x \in s
      BY <3>1
    <3>. HIDE DEF x
    <3>3. (s \ {x}) \cup {x} = s
      BY <3>4
    <3>. QED  BY <1>2, <3>2, <3>3, <3>4
  <2>. QED  BY <2>1
<1>3. Cardinality(S) \in N
  BY <1>1, <1>2, Induction, FS_CardinalityType
<1>. QED  BY <1>3

\* An element more.
LEMMA SumPutsIn ==
  ASSUME NEW f, NEW S, IsFiniteSet(S), NEW x, x \notin S, Numbers(f, S \cup {x})
  PROVE  Sum(f, S \cup {x}) = f[x] + Sum(f, S) /\ Sum(f, S) \in Nat /\ f[x] \in Nat
<1>1. IsFiniteSet(S \cup {x}) /\ (S \cup {x}) \ {x} = S
  BY FS_AddElement
<1>2. Numbers(f, S) /\ f[x] \in Nat
  BY DEF Numbers
<1>. QED  BY <1>1, <1>2, SumTakesOut, SumType

\* One function is below another.
LEMMA SumBelow ==
  ASSUME NEW f, NEW g, NEW S, IsFiniteSet(S), Numbers(f, S), Numbers(g, S),
         \A i \in S : f[i] <= g[i]
  PROVE  Sum(f, S) <= Sum(g, S)
<1>. DEFINE T == {s \in SUBSET S : Sum(f, s) <= Sum(g, s)}
<1>1. {} \in T
  BY SumOfNone
<1>2. ASSUME NEW s \in SUBSET S, NEW x \in S, s \in T, x \notin s PROVE s \cup {x} \in T
  <2>1. IsFiniteSet(s) /\ Numbers(f, s \cup {x}) /\ Numbers(g, s \cup {x})
    BY FS_Subset DEF Numbers
  <2>2. /\ Sum(f, s \cup {x}) = f[x] + Sum(f, s) /\ Sum(f, s) \in Nat /\ f[x] \in Nat
        /\ Sum(g, s \cup {x}) = g[x] + Sum(g, s) /\ Sum(g, s) \in Nat /\ g[x] \in Nat
    BY <1>2, <2>1, SumPutsIn
  <2>. QED  BY <1>2, <2>2
<1>3. S \in T
  <2>. HIDE DEF T
  <2>. QED  BY <1>1, <1>2, SubsetInduction
<1>. QED  BY <1>3

\* Functions that are the same on a set have the same sum.
LEMMA SumSame ==
  ASSUME NEW f, NEW g, NEW S, IsFiniteSet(S), Numbers(f, S), \A i \in S : f[i] = g[i]
  PROVE  Sum(f, S) = Sum(g, S)
<1>1. Numbers(g, S)
  BY DEF Numbers
<1>2. Sum(f, S) <= Sum(g, S) /\ Sum(g, S) <= Sum(f, S)
  <2>1. \A i \in S : f[i] <= g[i] /\ g[i] <= f[i]
    BY <1>1 DEF Numbers
  <2>. QED  BY <1>1, <2>1, SumBelow
<1>. QED  BY <1>1, <1>2, SumType

\* Two parts.
LEMMA SumOfParts ==
  ASSUME NEW f, NEW A, NEW B, IsFiniteSet(A), IsFiniteSet(B), A \cap B = {}, Numbers(f, A \cup B)
  PROVE  Sum(f, A \cup B) = Sum(f, A) + Sum(f, B)
<1>. DEFINE T == {s \in SUBSET B : Sum(f, A \cup s) = Sum(f, A) + Sum(f, s)}
<1>1. {} \in T
  <2>1. Sum(f, A) \in Nat /\ A \cup {} = A
    BY SumType DEF Numbers
  <2>. QED  BY <2>1, SumOfNone
<1>2. ASSUME NEW s \in SUBSET B, NEW x \in B, s \in T, x \notin s PROVE s \cup {x} \in T
  <2>1. /\ IsFiniteSet(s) /\ IsFiniteSet(A \cup s) /\ x \notin A \cup s
        /\ Numbers(f, s \cup {x}) /\ Numbers(f, (A \cup s) \cup {x}) /\ Numbers(f, A)
    BY <1>2, FS_Subset, FS_Union DEF Numbers
  <2>2. /\ Sum(f, s \cup {x}) = f[x] + Sum(f, s) /\ Sum(f, s) \in Nat /\ f[x] \in Nat
        /\ Sum(f, (A \cup s) \cup {x}) = f[x] + Sum(f, A \cup s) /\ Sum(f, A) \in Nat
    BY <1>2, <2>1, SumPutsIn, SumType
  <2>3. A \cup (s \cup {x}) = (A \cup s) \cup {x}
    OBVIOUS
  <2>4. Sum(f, A \cup s) = Sum(f, A) + Sum(f, s)
    BY <1>2
  <2>5. Sum(f, A \cup (s \cup {x})) = Sum(f, A) + Sum(f, s \cup {x})
    <3>1. Sum(f, A \cup (s \cup {x})) = f[x] + Sum(f, A \cup s)
      BY <2>2, <2>3
    <3>. QED  BY <2>2, <2>4, <3>1
  <2>. QED  BY <1>2, <2>5
<1>3. B \in T
  <2>. HIDE DEF T
  <2>. QED  BY <1>1, <1>2, SubsetInduction
<1>. QED  BY <1>3

\* The sum of a part is no more than the whole.
LEMMA SumOfSome ==
  ASSUME NEW f, NEW A, NEW B, IsFiniteSet(B), A \subseteq B, Numbers(f, B)
  PROVE  Sum(f, A) <= Sum(f, B) /\ Sum(f, A) \in Nat /\ Sum(f, B) \in Nat
<1>1. /\ IsFiniteSet(A) /\ IsFiniteSet(B \ A) /\ Numbers(f, A) /\ Numbers(f, B \ A)
      /\ A \cup (B \ A) = B
  BY FS_Subset DEF Numbers
<1>2. Sum(f, A) \in Nat /\ Sum(f, B \ A) \in Nat
  BY <1>1, SumType
<1>3. Sum(f, A \cup (B \ A)) = Sum(f, A) + Sum(f, B \ A)
  <2>1. A \cap (B \ A) = {} /\ Numbers(f, A \cup (B \ A))
    BY <1>1
  <2>. QED  BY <1>1, <2>1, SumOfParts
<1>4. Sum(f, B) = Sum(f, A) + Sum(f, B \ A)
  BY <1>1, <1>3
<1>. QED  BY <1>2, <1>4

\* The sum of zeros.
LEMMA SumOfNothing ==
  ASSUME NEW f, NEW S, IsFiniteSet(S), \A i \in S : f[i] = 0 PROVE Sum(f, S) = 0
<1>. DEFINE T == {s \in SUBSET S : Sum(f, s) = 0}
<1>1. {} \in T
  BY SumOfNone
<1>2. ASSUME NEW s \in SUBSET S, NEW x \in S, s \in T, x \notin s PROVE s \cup {x} \in T
  <2>1. IsFiniteSet(s) /\ Numbers(f, s \cup {x}) /\ f[x] = 0
    BY FS_Subset DEF Numbers
  <2>2. Sum(f, s \cup {x}) = f[x] + Sum(f, s)
    BY <1>2, <2>1, SumPutsIn
  <2>. QED  BY <1>2, <2>1, <2>2
<1>3. S \in T
  <2>. HIDE DEF T
  <2>. QED  BY <1>1, <1>2, SubsetInduction
<1>. QED  BY <1>3

\* A function that is another but at one place.
LEMMA SumWithOne ==
  ASSUME NEW f, NEW g, NEW S, IsFiniteSet(S), Numbers(f, S), NEW x \in S, g[x] \in Nat,
         \A i \in S : i # x => g[i] = f[i]
  PROVE  Sum(g, S) = Sum(f, S) - f[x] + g[x] /\ Sum(g, S) \in Nat
<1>1. /\ Numbers(g, S) /\ IsFiniteSet(S \ {x}) /\ Numbers(f, S \ {x}) /\ Numbers(g, S \ {x})
      /\ f[x] \in Nat
  BY FS_Subset DEF Numbers
<1>2. Sum(f, S) = f[x] + Sum(f, S \ {x}) /\ Sum(g, S) = g[x] + Sum(g, S \ {x})
  BY <1>1, SumTakesOut
<1>3. Sum(f, S \ {x}) = Sum(g, S \ {x})
  BY <1>1, SumSame
<1>4. Sum(f, S \ {x}) \in Nat
  BY <1>1, SumType
<1>. QED  BY <1>1, <1>2, <1>3, <1>4

\* A table whose entries are sums of their own parts: its sum is that of the whole.
LEMMA SumOfSums ==
  ASSUME NEW D, IsFiniteSet(D), NEW l, Numbers(l, D), NEW key, NEW A, IsFiniteSet(A), NEW f,
         \A k \in A : f[k] = Sum(l, {d \in D : key[d] = k})
  PROVE  Sum(f, A) = Sum(l, {d \in D : key[d] \in A})
<1>. DEFINE T == {s \in SUBSET A : Sum(f, s) = Sum(l, {d \in D : key[d] \in s})}
<1>0. \A k \in A : f[k] \in Nat
  <2>1. ASSUME NEW k \in A PROVE Sum(l, {d \in D : key[d] = k}) \in Nat
    BY SumOfSome
  <2>. QED  BY <2>1
<1>1. {} \in T
  <2>1. {d \in D : key[d] \in {}} = {}
    OBVIOUS
  <2>. QED  BY <2>1, SumOfNone
<1>2. ASSUME NEW s \in SUBSET A, NEW x \in A, s \in T, x \notin s PROVE s \cup {x} \in T
  <2>. DEFINE P == {d \in D : key[d] \in s}
              Q == {d \in D : key[d] = x}
  <2>1. IsFiniteSet(s) /\ Numbers(f, s \cup {x})
    BY <1>0, FS_Subset DEF Numbers
  <2>2. Sum(f, s \cup {x}) = f[x] + Sum(f, s)
    BY <1>2, <2>1, SumPutsIn
  <2>3. /\ IsFiniteSet(P) /\ IsFiniteSet(Q) /\ P \cap Q = {} /\ Numbers(l, P \cup Q)
        /\ {d \in D : key[d] \in s \cup {x}} = P \cup Q
    BY <1>2, FS_Subset DEF Numbers
  <2>4. Sum(l, P \cup Q) = Sum(l, P) + Sum(l, Q)
    BY <2>3, SumOfParts
  <2>5. Sum(l, P) \in Nat /\ Sum(l, Q) \in Nat /\ f[x] = Sum(l, Q) /\ Sum(f, s) = Sum(l, P)
    BY <1>2, SumOfSome
  <2>6. Sum(f, s \cup {x}) = Sum(l, P \cup Q)
    <3>. HIDE DEF P, Q
    <3>. QED  BY <2>2, <2>4, <2>5
  <2>. QED  BY <2>3, <2>6
<1>3. A \in T
  <2>. HIDE DEF T
  <2>. QED  BY <1>1, <1>2, SubsetInduction
<1>. QED  BY <1>3

-----------------------------------------------------------------------------
(* The calendar. *)

\* Hours and months are finitely many numbers, and each month has days.
LEMMA NumberTypes ==
  /\ IsFiniteSet(Periods!Hours) /\ Periods!Hours \subseteq Nat /\ 0 \in Periods!Hours
  /\ IsFiniteSet(Periods!Months) /\ Periods!Months \subseteq Nat /\ 0 \in Periods!Months
  /\ Periods!LastMonth \in Periods!Months /\ \A m \in Periods!Months : m <= Periods!LastMonth
  /\ \A m \in Periods!Months : DaysOf[m] \in Nat \ {0}
  /\ DOMAIN DaysOf = Periods!Months
<1>1. HoursOfDay - 1 \in Nat /\ MonthsOfYear - 1 \in Nat
  BY CalendarAssumption
<1>2. IsFiniteSet(0 .. HoursOfDay - 1) /\ IsFiniteSet(0 .. MonthsOfYear - 1)
  BY <1>1, FS_Interval
<1>3. DOMAIN DaysOf = Periods!Months /\ \A m \in Periods!Months : DaysOf[m] \in Nat \ {0}
  BY CalendarAssumption DEF Periods!Months
<1>. QED  BY <1>1, <1>2, <1>3 DEF Periods!Hours, Periods!Months, Periods!LastMonth

\* The longest month.
LEMMA LongestMonth ==
  \E b \in Nat : /\ b \in {DaysOf[m] : m \in Periods!Months}
                 /\ \A m \in Periods!Months : DaysOf[m] <= b
<1>. DEFINE T == {n \in Nat : \E b \in Nat : \A m \in Periods!Months : m < n => DaysOf[m] <= b}
            U == {b \in Nat : \A m \in Periods!Months : DaysOf[m] <= b}
<1>1. 0 \in T
  BY NumberTypes
<1>2. ASSUME NEW n \in Nat, n \in T PROVE n + 1 \in T
  <2>1. PICK b \in Nat : \A m \in Periods!Months : m < n => DaysOf[m] <= b
    BY <1>2
  <2>2. CASE n \notin Periods!Months
    <3>1. \A m \in Periods!Months : m < n + 1 => m < n
      BY <2>2, NumberTypes
    <3>. QED  BY <2>1, <3>1
  <2>3. CASE n \in Periods!Months
    <3>. DEFINE c == b + DaysOf[n]
    <3>1. c \in Nat /\ DaysOf[n] \in Nat
      BY <2>3, NumberTypes
    <3>2. ASSUME NEW m \in Periods!Months, m < n + 1 PROVE DaysOf[m] <= c
      <4>1. DaysOf[m] \in Nat /\ (m < n \/ m = n)
        BY <3>2, NumberTypes
      <4>. QED  BY <2>1, <3>1, <4>1
    <3>. HIDE DEF c
    <3>. QED  BY <3>1, <3>2
  <2>. QED  BY <2>2, <2>3
<1>3. MonthsOfYear \in T
  <2>. HIDE DEF T
  <2>1. Nat \subseteq T
    BY <1>1, <1>2, Induction
  <2>. QED  BY <2>1, CalendarAssumption
<1>4. \A m \in Periods!Months : m < MonthsOfYear
  BY CalendarAssumption DEF Periods!Months
<1>5. U # {}
  BY <1>3, <1>4
<1>6. PICK b \in U : \A c \in U : b <= c
  <2>. HIDE DEF U
  <2>1. U \subseteq Nat
    BY DEF U
  <2>. QED  BY <1>5, <2>1, Least
<1>7. ASSUME \A m \in Periods!Months : DaysOf[m] # b PROVE FALSE
  <2>1. b - 1 \in U
    <3>1. DaysOf[0] \in Nat \ {0} /\ DaysOf[0] <= b
      BY <1>6, NumberTypes
    <3>2. b - 1 \in Nat
      BY <1>6, <3>1
    <3>3. ASSUME NEW m \in Periods!Months PROVE DaysOf[m] <= b - 1
      <4>1. DaysOf[m] \in Nat /\ DaysOf[m] <= b /\ DaysOf[m] # b
        BY <1>6, <1>7, NumberTypes
      <4>. QED  BY <1>6, <4>1
    <3>. QED  BY <3>2, <3>3
  <2>. QED  BY <1>6, <2>1
<1>. QED  BY <1>6, <1>7

\* So are the days, up to those of the longest month.
LEMMA DaysType == IsFiniteSet(Periods!Days) /\ Periods!Days \subseteq Nat
<1>. DEFINE S == {DaysOf[m] : m \in Periods!Months}
<1>1. PICK b \in Nat : b \in S /\ \A c \in S : c <= b
  BY LongestMonth
<1>2. Periods!Max(S) \in S
  <2>. HIDE DEF S
  <2>1. S \subseteq Nat => \A c \in S : b >= c
    BY <1>1
  <2>2. S \subseteq Nat
    BY NumberTypes DEF S
  <2>. QED  BY <1>1, <2>1, <2>2 DEF Periods!Max
<1>3. Periods!Max(S) - 1 \in Int
  BY <1>2, NumberTypes
<1>. QED  BY <1>3, FS_Interval DEF Periods!Days

\* What a date is made of.
LEMMA DateTypes ==
  ASSUME NEW d \in Periods!Dates
  PROVE  /\ d.year \in Years /\ d.year \in Nat \ {0}
         /\ d.month \in Periods!Months /\ d.month \in Nat
         /\ d.day \in Periods!Days /\ d.day \in Nat /\ d.day < DaysOf[d.month]
         /\ DaysOf[d.month] \in Nat
         /\ d.hour \in Periods!Hours /\ d.hour \in Nat
BY NumberTypes, DaysType, CalendarAssumption DEF Periods!Dates

\* There are finitely many dates.
LEMMA DatesFinite == IsFiniteSet(Periods!Dates)
<1>. DEFINE S == (Years \X Periods!Months) \X (Periods!Days \X Periods!Hours)
            T == [year : Years, month : Periods!Months, day : Periods!Days, hour : Periods!Hours]
            f == [q \in S |-> [year |-> q[1][1], month |-> q[1][2], day |-> q[2][1], hour |-> q[2][2]]]
<1>1. IsFiniteSet(S)
  <2>1. IsFiniteSet(Years \X Periods!Months) /\ IsFiniteSet(Periods!Days \X Periods!Hours)
    BY NumberTypes, DaysType, CalendarAssumption, FS_Product
  <2>. QED  BY <2>1, FS_Product
<1>2. f \in [S -> T]
  OBVIOUS
<1>3. ASSUME NEW d \in T PROVE \E q \in S : f[q] = d
  <2>1. <<<<d.year, d.month>>, <<d.day, d.hour>>>> \in S
    OBVIOUS
  <2>2. f[<<<<d.year, d.month>>, <<d.day, d.hour>>>>] = d
    BY <2>1
  <2>. QED  BY <2>1, <2>2
<1>4. f \in Surjection(S, T)
  <2>. HIDE DEF f, S, T
  <2>. QED  BY <1>2, <1>3 DEF Surjection
<1>5. IsFiniteSet(T)
  <2>. HIDE DEF f, S, T
  <2>. QED  BY <1>1, <1>4, FS_Surjection
<1>6. Periods!Dates \subseteq T
  BY DEF Periods!Dates
<1>. QED  BY <1>5, <1>6, FS_Subset

-----------------------------------------------------------------------------
(* The numbers of days and months, by the dates they stand for. *)

SameYear(d, e)  == d.year = e.year
SameMonth(d, e) == d.year = e.year /\ d.month = e.month
SameDay(d, e)   == SameMonth(d, e) /\ d.day = e.day

MonthBefore(d, e) == d.year < e.year \/ (d.year = e.year /\ d.month < e.month)
DayBefore(d, e)   == MonthBefore(d, e) \/ (SameMonth(d, e) /\ d.day < e.day)

LastMonthBefore(d, e) ==
  \/ d.year = e.year /\ e.month = d.month + 1
  \/ e.year = d.year + 1 /\ e.month = 0 /\ d.month = Periods!LastMonth
LastDayBefore(d, e) ==
  \/ SameMonth(d, e) /\ e.day = d.day + 1
  \/ LastMonthBefore(d, e) /\ e.day = 0 /\ Periods!IsLastDay(d)

Upto(m) == {i \in Periods!Months : i <= m}

\* What a number of a month is.
LEMMA MonthNumbers ==
  /\ MonthsOfYear \in Nat \ {0}
  /\ \A m : m \in Periods!Months <=> m \in Nat /\ m < MonthsOfYear
BY CalendarAssumption DEF Periods!Months

\* SumTo as a sum.
LEMMA SumToIs == ASSUME NEW f, NEW k PROVE Periods!SumTo(f, k) = Sum(f, {i \in DOMAIN f : i <= k})
BY DEF Periods!SumTo, Sum

\* The days of the year before a month, and with it.
DaysBefore(m) == Periods!SumTo(DaysOf, m - 1)
DaysWith(m) == Periods!SumTo(DaysOf, m)

\* The months of a year follow one another.
LEMMA DaysOfMonths ==
  /\ \A m \in Periods!Months : /\ DaysBefore(m) \in Nat /\ DaysWith(m) \in Nat
                               /\ DaysWith(m) = DaysBefore(m) + DaysOf[m]
  /\ DaysBefore(0) = 0
  /\ \A m, n \in Periods!Months : /\ n = m + 1 => DaysBefore(n) = DaysWith(m)
                                  /\ m < n => DaysWith(m) <= DaysBefore(n)
<1>1. \A k : Periods!SumTo(DaysOf, k) = Sum(DaysOf, Upto(k))
  BY SumToIs, NumberTypes DEF Upto
<1>2. \A k : IsFiniteSet(Upto(k)) /\ Numbers(DaysOf, Upto(k))
  <2>1. \A k : Upto(k) \subseteq Periods!Months
    BY DEF Upto
  <2>. QED  BY <2>1, NumberTypes, FS_Subset DEF Numbers
<1>3. \A k : Sum(DaysOf, Upto(k)) \in Nat
  BY <1>2, SumType
<1>4. ASSUME NEW m \in Periods!Months PROVE Sum(DaysOf, Upto(m)) = Sum(DaysOf, Upto(m - 1)) + DaysOf[m]
  <2>1. m \notin Upto(m - 1) /\ Upto(m) = Upto(m - 1) \cup {m}
    BY MonthNumbers DEF Upto
  <2>2. Numbers(DaysOf, Upto(m - 1) \cup {m}) /\ IsFiniteSet(Upto(m - 1))
    BY <1>2, <2>1
  <2>3. /\ Sum(DaysOf, Upto(m - 1) \cup {m}) = DaysOf[m] + Sum(DaysOf, Upto(m - 1))
        /\ DaysOf[m] \in Nat
    BY <2>1, <2>2, SumPutsIn
  <2>. QED  BY <1>3, <2>1, <2>3
<1>5. Sum(DaysOf, Upto(0 - 1)) = 0
  <2>1. Upto(0 - 1) = {}
    BY MonthNumbers DEF Upto
  <2>. QED  BY <2>1, SumOfNone
<1>6. ASSUME NEW m \in Periods!Months, NEW n \in Periods!Months, m < n
      PROVE  Sum(DaysOf, Upto(m)) <= Sum(DaysOf, Upto(n - 1))
  <2>1. Upto(m) \subseteq Upto(n - 1)
    BY <1>6, MonthNumbers DEF Upto
  <2>. QED  BY <1>2, <2>1, SumOfSome
<1>7. ASSUME NEW m \in Periods!Months, NEW n \in Periods!Months, n = m + 1
      PROVE  Upto(n - 1) = Upto(m)
  BY <1>7, MonthNumbers DEF Upto
<1>. QED  BY <1>1, <1>3, <1>4, <1>5, <1>6, <1>7 DEF DaysBefore, DaysWith

YearLength == Periods!SumTo(DaysOf, Periods!LastMonth)
Place(d) == DaysBefore(d.month) + d.day

\* A day's place in its year, the first and the last one.
LEMMA Places ==
  ASSUME NEW d \in Periods!Dates
  PROVE  /\ YearLength \in Nat \ {0} /\ Place(d) \in Nat /\ Place(d) < YearLength
         /\ Place(d) = 0 <=> d.month = 0 /\ d.day = 0
         /\ Place(d) = YearLength - 1 <=> d.month = Periods!LastMonth /\ Periods!IsLastDay(d)
         /\ Place(d) < DaysWith(d.month)
<1>1. /\ d.month \in Periods!Months /\ d.day \in Nat /\ d.day < DaysOf[d.month]
      /\ d.month \in Nat /\ DaysOf[d.month] \in Nat
  BY DateTypes
<1>2. /\ DaysBefore(d.month) \in Nat /\ DaysWith(d.month) = DaysBefore(d.month) + DaysOf[d.month]
      /\ DaysBefore(0) = 0
  BY <1>1, DaysOfMonths
<1>3. Periods!LastMonth \in Periods!Months /\ Periods!LastMonth \in Nat /\ d.month <= Periods!LastMonth
  BY <1>1, NumberTypes
<1>4. /\ YearLength = DaysBefore(Periods!LastMonth) + DaysOf[Periods!LastMonth]
      /\ DaysBefore(Periods!LastMonth) \in Nat /\ DaysOf[Periods!LastMonth] \in Nat \ {0}
      /\ DaysWith(Periods!LastMonth) = YearLength
  BY <1>3, DaysOfMonths, NumberTypes DEF YearLength, DaysWith
<1>5. Place(d) \in Nat /\ Place(d) < DaysWith(d.month) /\ YearLength \in Nat \ {0}
  BY <1>1, <1>2, <1>4 DEF Place
<1>6. d.month < Periods!LastMonth => DaysWith(d.month) <= DaysBefore(Periods!LastMonth)
  BY <1>1, <1>3, DaysOfMonths
<1>7. 0 \in Periods!Months /\ DaysWith(0) = DaysBefore(0) + DaysOf[0] /\ DaysOf[0] \in Nat \ {0}
  BY NumberTypes, DaysOfMonths
<1>8. d.month # 0 => DaysWith(0) <= DaysBefore(d.month)
  BY <1>1, <1>7, DaysOfMonths
<1>9. Place(d) < YearLength
  BY <1>1, <1>2, <1>3, <1>4, <1>5, <1>6
<1>10. Place(d) = 0 <=> d.month = 0 /\ d.day = 0
  BY <1>1, <1>2, <1>7, <1>8 DEF Place
<1>11. Place(d) = YearLength - 1 <=> d.month = Periods!LastMonth /\ Periods!IsLastDay(d)
  <2>1. CASE d.month = Periods!LastMonth
    BY <1>1, <1>2, <1>4, <2>1 DEF Place, Periods!IsLastDay
  <2>2. CASE d.month # Periods!LastMonth
    <3>1. d.month < Periods!LastMonth
      BY <1>1, <1>3, <2>2
    <3>. QED  BY <1>1, <1>2, <1>4, <1>5, <1>6, <2>2, <3>1
  <2>. QED  BY <2>1, <2>2
<1>. QED  BY <1>5, <1>9, <1>10, <1>11

\* Years of n days, or months, each.
LEMMA YearsApart ==
  ASSUME NEW y \in Nat, NEW z \in Nat, y < z, NEW n \in Nat
  PROVE  /\ z * n \in Nat /\ y * n \in Nat /\ z * n >= y * n + n
         /\ z = y + 1 => z * n = y * n + n
         /\ z # y + 1 => z * n >= y * n + 2 * n
<1>1. \A i, j \in Nat : (i + j) * n = i * n + j * n /\ i * n \in Nat /\ j * n \in Nat
  OBVIOUS
<1>2. \A j \in Nat : j >= 1 => j * n >= n
  OBVIOUS
<1>3. \A j \in Nat : j >= 2 => j * n >= 2 * n
  OBVIOUS
<1>. DEFINE k == z - y
<1>4. k \in Nat /\ k >= 1 /\ y + k = z /\ (z # y + 1 => k >= 2) /\ (z = y + 1 => k = 1)
  OBVIOUS
<1>. HIDE DEF k
<1>5. z * n = y * n + k * n /\ y * n \in Nat /\ k * n \in Nat
  BY <1>1, <1>4
<1>6. k * n >= n /\ (z # y + 1 => k * n >= 2 * n) /\ (z = y + 1 => k * n = n)
  BY <1>2, <1>3, <1>4
<1>. QED  BY <1>5, <1>6

\* The number of a later day is larger, and the next one if it is the day after.
LEMMA LaterDay ==
  ASSUME NEW d \in Periods!Dates, NEW e \in Periods!Dates, DayBefore(d, e)
  PROVE  /\ Periods!DayNo(d) \in Nat /\ Periods!DayNo(e) \in Nat
         /\ Periods!DayNo(d) < Periods!DayNo(e)
         /\ Periods!DayNo(e) = Periods!DayNo(d) + 1 <=> LastDayBefore(d, e)
<1>. DEFINE Y == YearLength
<1>1. /\ Y \in Nat \ {0} /\ Place(d) \in Nat /\ Place(d) < Y /\ Place(e) \in Nat /\ Place(e) < Y
      /\ d.year \in Nat /\ e.year \in Nat
      /\ d.month \in Nat /\ e.month \in Nat /\ d.day \in Nat /\ e.day \in Nat
      /\ d.month \in Periods!Months /\ e.month \in Periods!Months
  BY Places, DateTypes
<1>2. /\ Periods!DayNo(d) = d.year * Y + Place(d) /\ Periods!DayNo(e) = e.year * Y + Place(e)
      /\ d.year * Y \in Nat /\ e.year * Y \in Nat
  <2>1. \A i, j \in Nat : i * j \in Nat
    OBVIOUS
  <2>2. d.year * Y \in Nat /\ e.year * Y \in Nat
    BY <1>1, <2>1
  <2>3. DaysBefore(d.month) \in Nat /\ DaysBefore(e.month) \in Nat
    BY <1>1, DaysOfMonths
  <2>. HIDE DEF Y
  <2>. QED  BY <1>1, <2>2, <2>3 DEF Periods!DayNo, Place, DaysBefore, Y, YearLength
<1>3. CASE d.year < e.year
  <2>1. /\ e.year * Y >= d.year * Y + Y
        /\ e.year = d.year + 1 => e.year * Y = d.year * Y + Y
        /\ e.year # d.year + 1 => e.year * Y >= d.year * Y + 2 * Y
    BY <1>1, <1>3, YearsApart
  <2>2. LastDayBefore(d, e) <=> e.year = d.year + 1 /\ Place(e) = 0 /\ Place(d) = Y - 1
    BY <1>1, <1>3, Places DEF LastDayBefore, SameMonth, LastMonthBefore
  <2>. HIDE DEF Y
  <2>3. Periods!DayNo(d) < Periods!DayNo(e)
    BY <1>1, <1>2, <2>1
  <2>4. Periods!DayNo(e) = Periods!DayNo(d) + 1 <=> e.year = d.year + 1 /\ Place(e) = 0 /\ Place(d) = Y - 1
    BY <1>1, <1>2, <2>1
  <2>. QED  BY <1>1, <1>2, <2>2, <2>3, <2>4
<1>4. CASE d.year = e.year /\ d.month < e.month
  <2>1. DaysWith(d.month) <= DaysBefore(e.month) /\ DaysBefore(e.month) \in Nat /\ DaysWith(d.month) \in Nat
    BY <1>1, <1>4, DaysOfMonths
  <2>2. e.month = d.month + 1 => DaysBefore(e.month) = DaysWith(d.month)
    BY <1>1, DaysOfMonths
  <2>3. e.month # d.month + 1 => DaysWith(d.month) < DaysBefore(e.month)
    <3>. SUFFICES ASSUME e.month # d.month + 1 PROVE DaysWith(d.month) < DaysBefore(e.month)
      OBVIOUS
    <3>1. d.month + 1 \in Periods!Months /\ d.month + 1 < e.month
      BY <1>1, <1>4, MonthNumbers
    <3>2. /\ DaysBefore(d.month + 1) = DaysWith(d.month)
          /\ DaysWith(d.month + 1) = DaysBefore(d.month + 1) + DaysOf[d.month + 1]
          /\ DaysWith(d.month + 1) <= DaysBefore(e.month)
      BY <1>1, <3>1, DaysOfMonths
    <3>3. DaysOf[d.month + 1] \in Nat \ {0}
      BY <3>1, NumberTypes
    <3>. QED  BY <2>1, <3>2, <3>3
  <2>3a. Periods!IsLastDay(d) <=> Place(d) = DaysWith(d.month) - 1
    <3>1. /\ DaysWith(d.month) = DaysBefore(d.month) + DaysOf[d.month] /\ DaysBefore(d.month) \in Nat
          /\ DaysOf[d.month] \in Nat
      BY <1>1, DaysOfMonths, NumberTypes
    <3>. QED  BY <1>1, <3>1 DEF Place, Periods!IsLastDay
  <2>4. LastDayBefore(d, e) <=> e.month = d.month + 1 /\ e.day = 0 /\ Place(d) = DaysWith(d.month) - 1
    BY <1>1, <1>4, <2>3a DEF LastDayBefore, SameMonth, LastMonthBefore
  <2>5. Place(d) < DaysWith(d.month) /\ Place(e) = DaysBefore(e.month) + e.day
    BY Places DEF Place
  <2>. HIDE DEF Y
  <2>. QED  BY <1>1, <1>2, <1>4, <2>1, <2>2, <2>3, <2>4, <2>5
<1>5. CASE SameMonth(d, e) /\ d.day < e.day
  <2>1. LastDayBefore(d, e) <=> e.day = d.day + 1
    BY <1>1, <1>5 DEF LastDayBefore, SameMonth, LastMonthBefore
  <2>2. /\ d.year = e.year /\ Place(d) = DaysBefore(d.month) + d.day
        /\ Place(e) = DaysBefore(d.month) + e.day /\ DaysBefore(d.month) \in Nat
    BY <1>1, <1>5, DaysOfMonths DEF Place, SameMonth
  <2>. HIDE DEF Y
  <2>. QED  BY <1>1, <1>2, <1>5, <2>1, <2>2
<1>. QED  BY <1>3, <1>4, <1>5 DEF DayBefore, MonthBefore

\* The order of the numbers of days is that of the dates.
LEMMA DayOrder ==
  ASSUME NEW d \in Periods!Dates, NEW e \in Periods!Dates
  PROVE  /\ Periods!DayNo(d) = Periods!DayNo(e) <=> SameDay(d, e)
         /\ Periods!DayNo(d) < Periods!DayNo(e) <=> DayBefore(d, e)
         /\ Periods!DayNo(d) = Periods!DayNo(e) - 1 <=> LastDayBefore(d, e)
         /\ LastDayBefore(d, e) => DayBefore(d, e)
<1>1. /\ d.year \in Nat /\ e.year \in Nat /\ d.month \in Nat /\ e.month \in Nat
      /\ d.day \in Nat /\ e.day \in Nat
  BY DateTypes
<1>2. LastDayBefore(d, e) => DayBefore(d, e)
  BY <1>1 DEF LastDayBefore, LastMonthBefore, DayBefore, MonthBefore, SameMonth
<1>3. SameDay(d, e) \/ DayBefore(d, e) \/ DayBefore(e, d)
  BY <1>1 DEF SameDay, DayBefore, MonthBefore, SameMonth
<1>4. /\ ~(SameDay(d, e) /\ DayBefore(d, e)) /\ ~(SameDay(d, e) /\ DayBefore(e, d))
      /\ ~(DayBefore(d, e) /\ DayBefore(e, d))
  BY <1>1 DEF SameDay, DayBefore, MonthBefore, SameMonth
<1>5. SameDay(d, e) => Periods!DayNo(d) = Periods!DayNo(e)
  BY DEF SameDay, SameMonth, Periods!DayNo
<1>6. Periods!DayNo(d) \in Nat /\ Periods!DayNo(e) \in Nat
  <2>1. \A i, j \in Nat : i * j \in Nat
    OBVIOUS
  <2>2. YearLength \in Nat
    BY Places
  <2>3. d.year * YearLength \in Nat /\ e.year * YearLength \in Nat
    BY <1>1, <2>1, <2>2
  <2>4. DaysBefore(d.month) \in Nat /\ DaysBefore(e.month) \in Nat
    BY DateTypes, DaysOfMonths
  <2>. QED  BY <1>1, <2>3, <2>4 DEF Periods!DayNo, DaysBefore, YearLength
<1>7. DayBefore(d, e) => /\ Periods!DayNo(d) < Periods!DayNo(e)
                         /\ Periods!DayNo(e) = Periods!DayNo(d) + 1 <=> LastDayBefore(d, e)
  BY LaterDay
<1>8. DayBefore(e, d) => Periods!DayNo(e) < Periods!DayNo(d)
  BY LaterDay
<1>. QED  BY <1>2, <1>3, <1>4, <1>5, <1>6, <1>7, <1>8

\* The order of the numbers of months is that of the dates.
LEMMA MonthOrder ==
  ASSUME NEW d \in Periods!Dates, NEW e \in Periods!Dates
  PROVE  /\ Periods!MonthNo(d) \in Nat /\ Periods!MonthNo(e) \in Nat
         /\ Periods!MonthNo(d) = Periods!MonthNo(e) <=> SameMonth(d, e)
         /\ Periods!MonthNo(d) < Periods!MonthNo(e) <=> MonthBefore(d, e)
         /\ Periods!MonthNo(d) = Periods!MonthNo(e) - 1 <=> LastMonthBefore(d, e)
<1>. DEFINE M == MonthsOfYear
<1>1. /\ d.year \in Nat /\ e.year \in Nat /\ d.month \in Nat /\ e.month \in Nat
      /\ d.month < M /\ e.month < M /\ M \in Nat \ {0} /\ Periods!LastMonth = M - 1
  BY DateTypes, MonthNumbers DEF Periods!LastMonth
<1>2. /\ Periods!MonthNo(d) = d.year * M + d.month /\ Periods!MonthNo(e) = e.year * M + e.month
      /\ d.year * M \in Nat /\ e.year * M \in Nat
  <2>1. \A i, j \in Nat : i * j \in Nat
    OBVIOUS
  <2>. QED  BY <1>1, <2>1 DEF Periods!MonthNo
<1>3. SameMonth(d, e) => Periods!MonthNo(d) = Periods!MonthNo(e)
  BY DEF SameMonth, Periods!MonthNo
<1>4. SameMonth(d, e) => ~MonthBefore(d, e) /\ ~MonthBefore(e, d) /\ ~LastMonthBefore(d, e)
  BY <1>1 DEF SameMonth, MonthBefore, LastMonthBefore
<1>5. SameMonth(d, e) \/ MonthBefore(d, e) \/ MonthBefore(e, d)
  BY <1>1 DEF SameMonth, MonthBefore
<1>6. ASSUME MonthBefore(d, e)
      PROVE  /\ Periods!MonthNo(d) < Periods!MonthNo(e)
             /\ Periods!MonthNo(e) = Periods!MonthNo(d) + 1 <=> LastMonthBefore(d, e)
  <2>1. CASE d.year < e.year
    <3>1. /\ e.year * M >= d.year * M + M
          /\ e.year = d.year + 1 => e.year * M = d.year * M + M
          /\ e.year # d.year + 1 => e.year * M >= d.year * M + 2 * M
      BY <1>1, <2>1, YearsApart
    <3>2. LastMonthBefore(d, e) <=> e.year = d.year + 1 /\ e.month = 0 /\ d.month = M - 1
      BY <1>1, <2>1 DEF LastMonthBefore
    <3>. HIDE DEF M
    <3>. QED  BY <1>1, <1>2, <3>1, <3>2
  <2>2. CASE d.year = e.year /\ d.month < e.month
    <3>1. LastMonthBefore(d, e) <=> e.month = d.month + 1
      BY <1>1, <2>2 DEF LastMonthBefore
    <3>. HIDE DEF M
    <3>. QED  BY <1>1, <1>2, <2>2, <3>1
  <2>. QED  BY <1>6, <2>1, <2>2 DEF MonthBefore
<1>7. ASSUME MonthBefore(e, d)
      PROVE  Periods!MonthNo(e) < Periods!MonthNo(d) /\ ~MonthBefore(d, e) /\ ~LastMonthBefore(d, e)
  <2>1. ~MonthBefore(d, e) /\ ~LastMonthBefore(d, e)
    BY <1>1, <1>7 DEF MonthBefore, LastMonthBefore
  <2>2. CASE e.year < d.year
    <3>1. d.year * M >= e.year * M + M
      BY <1>1, <2>2, YearsApart
    <3>. HIDE DEF M
    <3>. QED  BY <1>1, <1>2, <2>1, <3>1
  <2>3. CASE d.year = e.year /\ e.month < d.month
    <3>. HIDE DEF M
    <3>. QED  BY <1>1, <1>2, <2>1, <2>3
  <2>. QED  BY <1>7, <2>2, <2>3 DEF MonthBefore
<1>8. Periods!MonthNo(d) \in Nat /\ Periods!MonthNo(e) \in Nat
  BY <1>1, <1>2
<1>. QED  BY <1>3, <1>4, <1>5, <1>6, <1>7, <1>8

\* The hit at d is no later than e.
Past(d, e) == DayBefore(d, e) \/ (SameDay(d, e) /\ d.hour <= e.hour)

\* NotBefore is the order of the dates, with the hours.
LEMMA PastOrder ==
  /\ \A d, e \in Periods!Dates : Periods!NotBefore(e, d) <=> Past(d, e)
  /\ \A d \in Periods!Dates : Past(d, d)
  /\ \A d, e, t \in Periods!Dates : Past(d, e) /\ Past(e, t) => Past(d, t)
<1>1. ASSUME NEW d \in Periods!Dates, NEW e \in Periods!Dates
      PROVE  Periods!NotBefore(e, d) <=> Past(d, e)
  <2>1. d.hour \in Nat /\ e.hour \in Nat
    BY DateTypes
  <2>. QED  BY <2>1, DayOrder DEF Periods!NotBefore, Past
<1>2. ASSUME NEW d \in Periods!Dates PROVE Past(d, d)
  BY DateTypes DEF Past, SameDay, SameMonth
<1>3. ASSUME NEW d \in Periods!Dates, NEW e \in Periods!Dates, NEW t \in Periods!Dates,
             Past(d, e), Past(e, t)
      PROVE  Past(d, t)
  <2>1. /\ d.year \in Nat /\ d.month \in Nat /\ d.day \in Nat /\ d.hour \in Nat
        /\ e.year \in Nat /\ e.month \in Nat /\ e.day \in Nat /\ e.hour \in Nat
        /\ t.year \in Nat /\ t.month \in Nat /\ t.day \in Nat /\ t.hour \in Nat
    BY DateTypes
  <2>. QED  BY <1>3, <2>1 DEF Past, DayBefore, MonthBefore, SameDay, SameMonth
<1>. QED  BY <1>1, <1>2, <1>3

-----------------------------------------------------------------------------
(* What a table holds at t, when the hits are l. *)

D == Periods!Dates

HoursAt(f, t, l)  == \A h \in Periods!Hours : f[h] = Sum(l, {d \in D : SameDay(d, t) /\ d.hour = h})
DaysAt(f, t, l)   == \A k \in Periods!Days :
  f[k] = Sum(l, {d \in D : SameMonth(d, t) /\ d.day = k /\ k < t.day})
MonthsAt(f, t, l) == \A m \in Periods!Months :
  f[m] = Sum(l, {d \in D : SameYear(d, t) /\ d.month = m /\ m < t.month})
YearsAt(f, t, l)  == \A y \in Years : f[y] = Sum(l, {d \in D : d.year = y /\ y < t.year})

YearBefore(d, t) == d.year = t.year - 1
DaysHit(t, l)    == {d.day : d \in {e \in D : LastMonthBefore(e, t) /\ l[e] > 0}}
MonthsHit(t, l)  == {d.month : d \in {e \in D : YearBefore(e, t) /\ l[e] > 0}}

HoursYesterday(f, t, l) == \A h \in Periods!Hours :
  f[h] = Sum(l, {d \in D : LastDayBefore(d, t) /\ d.hour = h})
DaysLastMonth(f, t, l)  == \A k \in Periods!Days :
  f[k] = Sum(l, {d \in D : LastMonthBefore(d, t) /\ d.day = k /\ k # Periods!Max({-1} \cup DaysHit(t, l))})
MonthsLastYear(f, t, l) == \A m \in Periods!Months :
  f[m] = Sum(l, {d \in D : YearBefore(d, t) /\ d.month = m /\ m # Periods!Max({-1} \cup MonthsHit(t, l))})

\* The statements of StatPeriods, from its numbers of days and months, are these.
LEMMA ExactIs ==
  ASSUME date \in D
  PROVE  /\ HoursAt(hours, date, log) /\ HoursYesterday(prev.hours, date, log) <=> Periods!HoursExact
         /\ DaysAt(days, date, log) /\ DaysLastMonth(prev.days, date, log) <=> Periods!DaysExact
         /\ MonthsAt(months, date, log) /\ MonthsLastYear(prev.months, date, log) <=> Periods!MonthsExact
         /\ YearsAt(years, date, log) <=> Periods!YearsExact
<1>1. \A S : Periods!Total(S) = Sum(log, S)
  BY DEF Periods!Total, Sum
<1>2. Periods!OnDay(Periods!DayNo(date)) = {d \in D : SameDay(d, date)}
  BY DayOrder DEF Periods!OnDay, D
<1>3. Periods!OnDay(Periods!DayNo(date) - 1) = {d \in D : LastDayBefore(d, date)}
  BY DayOrder DEF Periods!OnDay, D
<1>4. Periods!InMonth(Periods!MonthNo(date)) = {d \in D : SameMonth(d, date)}
  BY MonthOrder DEF Periods!InMonth, D
<1>5. Periods!InMonth(Periods!MonthNo(date) - 1) = {d \in D : LastMonthBefore(d, date)}
  BY MonthOrder DEF Periods!InMonth, D
<1>6. /\ Periods!InYear(date.year) = {d \in D : SameYear(d, date)}
      /\ Periods!InYear(date.year - 1) = {d \in D : YearBefore(d, date)}
      /\ \A y : Periods!InYear(y) = {d \in D : d.year = y}
  BY DEF Periods!InYear, D, SameYear, YearBefore
<1>7. HoursAt(hours, date, log) /\ HoursYesterday(prev.hours, date, log) <=> Periods!HoursExact
  <2>1. \A h : {d \in {e \in D : SameDay(e, date)} : d.hour = h} = {d \in D : SameDay(d, date) /\ d.hour = h}
    OBVIOUS
  <2>2. \A h : {d \in {e \in D : LastDayBefore(e, date)} : d.hour = h} = {d \in D : LastDayBefore(d, date) /\ d.hour = h}
    OBVIOUS
  <2>3. \A h : Periods!Total({d \in Periods!OnDay(Periods!DayNo(date)) : d.hour = h})
               = Sum(log, {d \in D : SameDay(d, date) /\ d.hour = h})
    BY <1>1, <1>2, <2>1
  <2>4. \A h : Periods!Total({d \in Periods!OnDay(Periods!DayNo(date) - 1) : d.hour = h})
               = Sum(log, {d \in D : LastDayBefore(d, date) /\ d.hour = h})
    BY <1>1, <1>3, <2>2
  <2>. DEFINE Today(h)     == hours[h] = Periods!Total({d \in Periods!OnDay(Periods!DayNo(date)) : d.hour = h})
              Yesterday(h) == prev.hours[h]
                                = Periods!Total({d \in Periods!OnDay(Periods!DayNo(date) - 1) : d.hour = h})
  <2>5. Periods!HoursExact <=> \A h \in Periods!Hours : Today(h) /\ Yesterday(h)
    BY DEF Periods!HoursExact
  <2>6. HoursAt(hours, date, log) <=> \A h \in Periods!Hours : Today(h)
    BY <2>3 DEF HoursAt
  <2>7. HoursYesterday(prev.hours, date, log) <=> \A h \in Periods!Hours : Yesterday(h)
    BY <2>4 DEF HoursYesterday
  <2>. HIDE DEF Today, Yesterday
  <2>. QED  BY <2>5, <2>6, <2>7
<1>8. DaysAt(days, date, log) /\ DaysLastMonth(prev.days, date, log) <=> Periods!DaysExact
  <2>1. \A k : {d \in {e \in D : SameMonth(e, date)} : d.day = k /\ k < date.day}
               = {d \in D : SameMonth(d, date) /\ d.day = k /\ k < date.day}
    OBVIOUS
  <2>2. \A k, n : {d \in {e \in D : LastMonthBefore(e, date)} : d.day = k /\ k # n}
                  = {d \in D : LastMonthBefore(d, date) /\ d.day = k /\ k # n}
    OBVIOUS
  <2>3. Periods!LastDay({d \in D : LastMonthBefore(d, date)}) = Periods!Max({-1} \cup DaysHit(date, log))
    <3>1. {e \in {d \in D : LastMonthBefore(d, date)} : log[e] > 0} = {e \in D : LastMonthBefore(e, date) /\ log[e] > 0}
      OBVIOUS
    <3>. QED  BY <3>1 DEF Periods!LastDay, DaysHit
  <2>4. DaysAt(days, date, log) <=> \A k \in Periods!Days :
          days[k] = Periods!Total({d \in Periods!InMonth(Periods!MonthNo(date)) : d.day = k /\ k < date.day})
    BY <1>1, <1>4, <2>1 DEF DaysAt
  <2>5. DaysLastMonth(prev.days, date, log) <=> \A k \in Periods!Days :
          LET before == Periods!InMonth(Periods!MonthNo(date) - 1)
          IN  prev.days[k] = Periods!Total({d \in before : d.day = k /\ k # Periods!LastDay(before)})
    <3>. DEFINE n == Periods!Max({-1} \cup DaysHit(date, log))
                before == Periods!InMonth(Periods!MonthNo(date) - 1)
                Sums(k) == Sum(log, {d \in D : LastMonthBefore(d, date) /\ d.day = k /\ k # n})
    <3>1. before = {d \in D : LastMonthBefore(d, date)} /\ Periods!LastDay(before) = n
      BY <1>5, <2>3
    <3>2. DaysLastMonth(prev.days, date, log) <=> \A k \in Periods!Days : prev.days[k] = Sums(k)
      BY DEF DaysLastMonth
    <3>3. \A k : {d \in before : d.day = k /\ k # Periods!LastDay(before)}
                 = {d \in D : LastMonthBefore(d, date) /\ d.day = k /\ k # n}
      <4>. HIDE DEF n, before
      <4>. QED  BY <3>1
    <3>4. \A k : Periods!Total({d \in before : d.day = k /\ k # Periods!LastDay(before)}) = Sums(k)
      BY <1>1, <3>3
    <3>. HIDE DEF n, Sums
    <3>. QED  BY <3>2, <3>4
  <2>. QED  BY <2>4, <2>5 DEF Periods!DaysExact
<1>9. MonthsAt(months, date, log) /\ MonthsLastYear(prev.months, date, log) <=> Periods!MonthsExact
  <2>1. \A m : {d \in {e \in D : SameYear(e, date)} : d.month = m /\ m < date.month}
               = {d \in D : SameYear(d, date) /\ d.month = m /\ m < date.month}
    OBVIOUS
  <2>2. \A m, n : {d \in {e \in D : YearBefore(e, date)} : d.month = m /\ m # n}
                  = {d \in D : YearBefore(d, date) /\ d.month = m /\ m # n}
    OBVIOUS
  <2>3. Periods!LastMonthIn({d \in D : YearBefore(d, date)}) = Periods!Max({-1} \cup MonthsHit(date, log))
    <3>1. {e \in {d \in D : YearBefore(d, date)} : log[e] > 0} = {e \in D : YearBefore(e, date) /\ log[e] > 0}
      OBVIOUS
    <3>. QED  BY <3>1 DEF Periods!LastMonthIn, MonthsHit
  <2>4. MonthsAt(months, date, log) <=> \A m \in Periods!Months :
          months[m] = Periods!Total({d \in Periods!InYear(date.year) : d.month = m /\ m < date.month})
    BY <1>1, <1>6, <2>1 DEF MonthsAt
  <2>5. MonthsLastYear(prev.months, date, log) <=> \A m \in Periods!Months :
          LET before == Periods!InYear(date.year - 1)
          IN  prev.months[m] = Periods!Total({d \in before : d.month = m /\ m # Periods!LastMonthIn(before)})
    <3>. DEFINE n == Periods!Max({-1} \cup MonthsHit(date, log))
                before == Periods!InYear(date.year - 1)
                Sums(m) == Sum(log, {d \in D : YearBefore(d, date) /\ d.month = m /\ m # n})
    <3>1. before = {d \in D : YearBefore(d, date)} /\ Periods!LastMonthIn(before) = n
      BY <1>6, <2>3
    <3>2. MonthsLastYear(prev.months, date, log) <=> \A m \in Periods!Months : prev.months[m] = Sums(m)
      BY DEF MonthsLastYear
    <3>3. \A m : {d \in before : d.month = m /\ m # Periods!LastMonthIn(before)}
                 = {d \in D : YearBefore(d, date) /\ d.month = m /\ m # n}
      <4>. HIDE DEF n, before
      <4>. QED  BY <3>1
    <3>4. \A m : Periods!Total({d \in before : d.month = m /\ m # Periods!LastMonthIn(before)}) = Sums(m)
      BY <1>1, <3>3
    <3>. HIDE DEF n, Sums
    <3>. QED  BY <3>2, <3>4
  <2>. QED  BY <2>4, <2>5 DEF Periods!MonthsExact
<1>10. YearsAt(years, date, log) <=> Periods!YearsExact
  <2>1. \A y : {d \in {e \in D : e.year = y} : y < date.year} = {d \in D : d.year = y /\ y < date.year}
    OBVIOUS
  <2>. QED  BY <1>1, <1>6, <2>1 DEF Periods!YearsExact, YearsAt
<1>. QED  BY <1>7, <1>8, <1>9, <1>10

\* Two sets of dates with the same hits.
LEMMA SumOfHits ==
  ASSUME NEW l, Numbers(l, D), NEW A, A \subseteq D, NEW B, B \subseteq D,
         \A d \in D : l[d] > 0 => (d \in A <=> d \in B)
  PROVE  Sum(l, A) = Sum(l, B)
<1>1. ASSUME NEW P, P \subseteq D, NEW Q, Q \subseteq D, \A d \in D : l[d] > 0 => (d \in P => d \in Q)
      PROVE  Sum(l, P) = Sum(l, P \cap Q)
  <2>1. /\ IsFiniteSet(P \cap Q) /\ IsFiniteSet(P \ Q) /\ (P \cap Q) \cap (P \ Q) = {}
        /\ (P \cap Q) \cup (P \ Q) = P /\ Numbers(l, (P \cap Q) \cup (P \ Q))
    BY <1>1, DatesFinite, FS_Subset DEF Numbers, D
  <2>2. Sum(l, (P \cap Q) \cup (P \ Q)) = Sum(l, P \cap Q) + Sum(l, P \ Q)
    BY <2>1, SumOfParts
  <2>3. \A d \in P \ Q : l[d] = 0
    BY <1>1 DEF Numbers
  <2>4. Sum(l, P \ Q) = 0
    BY <2>1, <2>3, SumOfNothing
  <2>5. Sum(l, P \cap Q) \in Nat
    BY <2>1, SumType DEF Numbers
  <2>6. Sum(l, P) = Sum(l, P \cap Q) + Sum(l, P \ Q)
    BY <2>1, <2>2
  <2>. QED  BY <2>4, <2>5, <2>6
<1>2. Sum(l, A) = Sum(l, A \cap B) /\ Sum(l, B) = Sum(l, B \cap A) /\ A \cap B = B \cap A
  BY <1>1
<1>. QED  BY <1>2

\* A table moved up by one that has no part of the sum.
LEMMA SumRaised ==
  ASSUME NEW f, NEW g, NEW S, IsFiniteSet(S), Numbers(f, S), Numbers(g, S), NEW x \in S, NEW c \in Nat,
         g[x] <= c, \A i \in S : i # x => g[i] <= f[i]
  PROVE  Sum(g, S) <= Sum(f, S) + c
<1>1. /\ IsFiniteSet(S \ {x}) /\ Numbers(f, S \ {x}) /\ Numbers(g, S \ {x})
      /\ f[x] \in Nat /\ g[x] \in Nat
  BY FS_Subset DEF Numbers
<1>2. Sum(f, S) = f[x] + Sum(f, S \ {x}) /\ Sum(g, S) = g[x] + Sum(g, S \ {x})
  BY SumTakesOut
<1>3. Sum(g, S \ {x}) <= Sum(f, S \ {x}) /\ Sum(f, S \ {x}) \in Nat /\ Sum(g, S \ {x}) \in Nat
  BY <1>1, SumBelow, SumType
<1>. QED  BY <1>1, <1>2, <1>3

-----------------------------------------------------------------------------
(* Tables moved up, before the hit at t is counted. *)

\* The hits l so far, the last one at c.
HitsUpTo(l, c) == Numbers(l, D) /\ l[c] > 0 /\ \A d \in D : l[d] > 0 => Past(d, c)

\* Dates without hits.
LEMMA NoHit ==
  ASSUME NEW l, Numbers(l, D), NEW S, S \subseteq D, \A d \in S : ~(l[d] > 0)
  PROVE  Sum(l, S) = 0
<1>1. \A d \in S : l[d] = 0
  BY DEF Numbers
<1>2. IsFiniteSet(S)
  BY DatesFinite, FS_Subset DEF D
<1>. QED  BY <1>1, <1>2, SumOfNothing

\* A day's hits are those of its hours.
LEMMA DayOfHours ==
  ASSUME NEW l, NEW c \in D, HitsUpTo(l, c), NEW f, DOMAIN f = Periods!Hours, HoursAt(f, c, l)
  PROVE  Periods!SumTo(f, c.hour) = Sum(l, {d \in D : SameDay(d, c)})
<1>. DEFINE S == {d \in D : SameDay(d, c)}
            A == {h \in Periods!Hours : h <= c.hour}
            key == [d \in D |-> d.hour]
<1>1. IsFiniteSet(S) /\ Numbers(l, S) /\ IsFiniteSet(A)
  BY DatesFinite, NumberTypes, FS_Subset DEF HitsUpTo, Numbers, D
<1>2. \A h \in A : f[h] = Sum(l, {d \in S : key[d] = h})
  <2>1. \A h : {d \in S : key[d] = h} = {d \in D : SameDay(d, c) /\ d.hour = h}
    OBVIOUS
  <2>. QED  BY <2>1 DEF HoursAt
<1>3. Sum(f, A) = Sum(l, {d \in S : key[d] \in A})
  <2>. HIDE DEF S, A, key
  <2>. QED  BY <1>1, <1>2, SumOfSums
<1>4. Sum(l, {d \in S : key[d] \in A}) = Sum(l, S)
  <2>1. ASSUME NEW d \in D, l[d] > 0, d \in S PROVE d.hour \in A
    <3>1. Past(d, c)
      BY <2>1 DEF HitsUpTo
    <3>. QED  BY <2>1, <3>1, DateTypes DEF Past, DayBefore, MonthBefore, SameDay, SameMonth, D
  <2>. QED  BY <2>1, SumOfHits DEF HitsUpTo
<1>5. Periods!SumTo(f, c.hour) = Sum(f, A)
  BY SumToIs
<1>. QED  BY <1>3, <1>4, <1>5

\* The days of a month before the last one.
LEMMA MonthOfDays ==
  ASSUME NEW l, NEW c \in D, HitsUpTo(l, c), NEW f, DOMAIN f = Periods!Days, DaysAt(f, c, l)
  PROVE  \A n \in {c.day - 1, c.day} :
           Periods!SumTo(f, n) = Sum(l, {d \in D : SameMonth(d, c) /\ d.day < c.day})
<1>. TAKE n \in {c.day - 1, c.day}
<1>. DEFINE S == {d \in D : SameMonth(d, c) /\ d.day < c.day}
            A == {k \in Periods!Days : k <= n}
            key == [d \in D |-> d.day]
<1>1. IsFiniteSet(S) /\ Numbers(l, S) /\ IsFiniteSet(A)
  BY DatesFinite, DaysType, FS_Subset DEF HitsUpTo, Numbers, D
<1>2. \A k \in A : f[k] = Sum(l, {d \in S : key[d] = k})
  <2>1. \A k : {d \in S : key[d] = k} = {d \in D : SameMonth(d, c) /\ d.day = k /\ k < c.day}
    OBVIOUS
  <2>. QED  BY <2>1 DEF DaysAt
<1>3. Sum(f, A) = Sum(l, {d \in S : key[d] \in A})
  <2>. HIDE DEF S, A, key
  <2>. QED  BY <1>1, <1>2, SumOfSums
<1>4. {d \in S : key[d] \in A} = S
  BY DateTypes DEF D
<1>5. Periods!SumTo(f, n) = Sum(f, A)
  BY SumToIs
<1>. QED  BY <1>3, <1>4, <1>5

\* The months of a year before the last one.
LEMMA YearOfMonths ==
  ASSUME NEW l, NEW c \in D, HitsUpTo(l, c), NEW f, DOMAIN f = Periods!Months, MonthsAt(f, c, l)
  PROVE  Periods!SumTo(f, c.month - 1) = Sum(l, {d \in D : SameYear(d, c) /\ d.month < c.month})
<1>. DEFINE S == {d \in D : SameYear(d, c) /\ d.month < c.month}
            A == {m \in Periods!Months : m <= c.month - 1}
            key == [d \in D |-> d.month]
<1>1. IsFiniteSet(S) /\ Numbers(l, S) /\ IsFiniteSet(A)
  BY DatesFinite, NumberTypes, FS_Subset DEF HitsUpTo, Numbers, D
<1>2. \A m \in A : f[m] = Sum(l, {d \in S : key[d] = m})
  <2>1. \A m : {d \in S : key[d] = m} = {d \in D : SameYear(d, c) /\ d.month = m /\ m < c.month}
    OBVIOUS
  <2>. QED  BY <2>1 DEF MonthsAt
<1>3. Sum(f, A) = Sum(l, {d \in S : key[d] \in A})
  <2>. HIDE DEF S, A, key
  <2>. QED  BY <1>1, <1>2, SumOfSums
<1>4. {d \in S : key[d] \in A} = S
  BY DateTypes DEF D
<1>5. Periods!SumTo(f, c.month - 1) = Sum(f, A)
  BY SumToIs
<1>. QED  BY <1>3, <1>4, <1>5

\* A later hour of the same day: the hours between had no hit.
LEMMA HoursOfTheDay ==
  ASSUME NEW l, NEW c \in D, HitsUpTo(l, c), NEW t \in D, SameDay(c, t),
         NEW f, DOMAIN f = Periods!Hours, HoursAt(f, c, l)
  PROVE  HoursAt(Periods!ClearBetween(f, c.hour, t.hour), t, l)
<1>. SUFFICES ASSUME NEW h \in Periods!Hours
              PROVE  Periods!ClearBetween(f, c.hour, t.hour)[h] = Sum(l, {d \in D : SameDay(d, t) /\ d.hour = h})
  BY DEF HoursAt
<1>1. {d \in D : SameDay(d, t) /\ d.hour = h} = {d \in D : SameDay(d, c) /\ d.hour = h}
  BY DEF SameDay, SameMonth
<1>2. CASE c.hour < h /\ h < t.hour
  <2>1. ASSUME NEW d \in D, SameDay(d, c), d.hour = h, l[d] > 0 PROVE FALSE
    <3>1. Past(d, c)
      BY <2>1 DEF HitsUpTo
    <3>. QED  BY <1>2, <2>1, <3>1, DateTypes DEF Past, DayBefore, MonthBefore, SameDay, SameMonth, D
  <2>2. Sum(l, {d \in D : SameDay(d, c) /\ d.hour = h}) = 0
    BY <2>1, NoHit DEF HitsUpTo
  <2>. QED  BY <1>1, <1>2, <2>2 DEF Periods!ClearBetween
<1>3. CASE ~(c.hour < h /\ h < t.hour)
  BY <1>1, <1>3 DEF Periods!ClearBetween, HoursAt
<1>. QED  BY <1>2, <1>3

\* Another day has no hours yet.
LEMMA HoursOfNewDay ==
  ASSUME NEW l, NEW c \in D, HitsUpTo(l, c), NEW t \in D, DayBefore(c, t)
  PROVE  HoursAt(Periods!None(Periods!Hours), t, l)
<1>. SUFFICES ASSUME NEW h \in Periods!Hours
              PROVE  Sum(l, {d \in D : SameDay(d, t) /\ d.hour = h}) = 0
  BY DEF HoursAt, Periods!None
<1>1. ASSUME NEW d \in D, SameDay(d, t), l[d] > 0 PROVE FALSE
  <2>1. Past(d, c)
    BY <1>1 DEF HitsUpTo
  <2>. QED  BY <1>1, <2>1, DateTypes DEF Past, DayBefore, MonthBefore, SameDay, SameMonth, D
<1>. QED  BY <1>1, NoHit DEF HitsUpTo

\* On the same day the day before is the same.
LEMMA YesterdayOfTheDay ==
  ASSUME NEW l, NEW c \in D, NEW t \in D, SameDay(c, t), NEW f, HoursYesterday(f, c, l)
  PROVE  HoursYesterday(f, t, l)
<1>1. \A h : {d \in D : LastDayBefore(d, t) /\ d.hour = h} = {d \in D : LastDayBefore(d, c) /\ d.hour = h}
  BY DEF LastDayBefore, SameDay, SameMonth, LastMonthBefore
<1>. QED  BY <1>1 DEF HoursYesterday

\* The day that ends becomes the day before, unless days were skipped.
LEMMA YesterdayOfNewDay ==
  ASSUME NEW l, NEW c \in D, HitsUpTo(l, c), NEW t \in D, DayBefore(c, t),
         NEW f, DOMAIN f = Periods!Hours, HoursAt(f, c, l)
  PROVE  HoursYesterday(IF LastDayBefore(c, t) THEN Periods!CutAfter(f, c.hour)
                        ELSE Periods!None(Periods!Hours), t, l)
<1>1. CASE LastDayBefore(c, t)
  <2>. SUFFICES ASSUME NEW h \in Periods!Hours
                PROVE  Periods!CutAfter(f, c.hour)[h] = Sum(l, {d \in D : LastDayBefore(d, t) /\ d.hour = h})
    BY <1>1 DEF HoursYesterday
  <2>1. {d \in D : LastDayBefore(d, t) /\ d.hour = h} = {d \in D : SameDay(d, c) /\ d.hour = h}
    <3>1. ASSUME NEW d \in D PROVE LastDayBefore(d, t) <=> SameDay(d, c)
      BY <1>1, DayOrder DEF D
    <3>. QED  BY <3>1
  <2>2. CASE h <= c.hour
    BY <2>1, <2>2 DEF Periods!CutAfter, HoursAt
  <2>3. CASE ~(h <= c.hour)
    <3>1. ASSUME NEW d \in D, SameDay(d, c), d.hour = h, l[d] > 0 PROVE FALSE
      <4>1. Past(d, c)
        BY <3>1 DEF HitsUpTo
      <4>. QED  BY <2>3, <3>1, <4>1, DateTypes DEF Past, DayBefore, MonthBefore, SameDay, SameMonth, D
    <3>2. Sum(l, {d \in D : SameDay(d, c) /\ d.hour = h}) = 0
      BY <3>1, NoHit DEF HitsUpTo
    <3>. QED  BY <2>1, <2>3, <3>2 DEF Periods!CutAfter
  <2>. QED  BY <2>2, <2>3
<1>2. CASE ~LastDayBefore(c, t)
  <2>. SUFFICES ASSUME NEW h \in Periods!Hours
                PROVE  Sum(l, {d \in D : LastDayBefore(d, t) /\ d.hour = h}) = 0
    BY <1>2 DEF HoursYesterday, Periods!None
  <2>1. ASSUME NEW d \in D, LastDayBefore(d, t), l[d] > 0 PROVE FALSE
    <3>1. DayBefore(d, c) \/ SameDay(d, c)
      BY <2>1 DEF HitsUpTo, Past
    <3>2. /\ Periods!DayNo(d) <= Periods!DayNo(c) /\ Periods!DayNo(c) < Periods!DayNo(t)
          /\ Periods!DayNo(d) = Periods!DayNo(t) - 1 /\ Periods!DayNo(c) # Periods!DayNo(t) - 1
          /\ Periods!DayNo(d) \in Nat /\ Periods!DayNo(c) \in Nat /\ Periods!DayNo(t) \in Nat
      <4>1. DayBefore(d, t) /\ DayBefore(c, t)
        BY <2>1, DayOrder DEF D
      <4>2. Periods!DayNo(d) \in Nat /\ Periods!DayNo(c) \in Nat /\ Periods!DayNo(t) \in Nat
        BY <4>1, LaterDay DEF D
      <4>3. Periods!DayNo(d) = Periods!DayNo(c) \/ Periods!DayNo(d) < Periods!DayNo(c)
        BY <3>1, DayOrder DEF D
      <4>. QED  BY <1>2, <2>1, <4>1, <4>2, <4>3, DayOrder DEF D
    <3>. QED  BY <3>2
  <2>. QED  BY <2>1, NoHit DEF HitsUpTo
<1>. QED  BY <1>1, <1>2

\* On the same day the days before are the same.
LEMMA DaysOfTheDay ==
  ASSUME NEW l, NEW c \in D, NEW t \in D, SameDay(c, t), NEW f, DaysAt(f, c, l)
  PROVE  DaysAt(f, t, l)
<1>1. \A k : {d \in D : SameMonth(d, t) /\ d.day = k /\ k < t.day}
             = {d \in D : SameMonth(d, c) /\ d.day = k /\ k < c.day}
  BY DEF SameDay, SameMonth
<1>. QED  BY <1>1 DEF DaysAt

\* The day that ends gets the sum of its hours, and the days between had no hit.
LEMMA DaysOfNewDay ==
  ASSUME NEW l, NEW c \in D, HitsUpTo(l, c), NEW t \in D, SameMonth(c, t), c.day < t.day,
         NEW f, DOMAIN f = Periods!Days, DaysAt(f, c, l),
         NEW h, DOMAIN h = Periods!Hours, HoursAt(h, c, l)
  PROVE  DaysAt(Periods!ClearBetween([f EXCEPT ![c.day] = Periods!SumTo(h, c.hour)], c.day, t.day), t, l)
<1>. DEFINE s == Periods!SumTo(h, c.hour)
            g == Periods!ClearBetween([f EXCEPT ![c.day] = s], c.day, t.day)
<1>1. \A k \in Periods!Days : g[k] = IF c.day < k /\ k < t.day THEN 0 ELSE IF k = c.day THEN s ELSE f[k]
  BY DEF Periods!ClearBetween
<1>2. s = Sum(l, {d \in D : SameDay(d, c)})
  BY DayOfHours
<1>. HIDE DEF g, s
<1>3. ASSUME NEW k \in Periods!Days
      PROVE  g[k] = Sum(l, {d \in D : SameMonth(d, t) /\ d.day = k /\ k < t.day})
  <2>. DEFINE S == {d \in D : SameMonth(d, t) /\ d.day = k /\ k < t.day}
  <2>0. c.day \in Nat /\ t.day \in Nat /\ k \in Nat
    BY DateTypes, DaysType DEF D
  <2>1. CASE k < c.day
    <3>1. S = {d \in D : SameMonth(d, c) /\ d.day = k /\ k < c.day}
      BY <2>0, <2>1 DEF SameMonth
    <3>2. g[k] = f[k]
      BY <1>1, <2>0, <2>1
    <3>. QED  BY <3>1, <3>2 DEF DaysAt
  <2>2. CASE k = c.day
    <3>1. S = {d \in D : SameDay(d, c)}
      BY <2>2 DEF SameDay, SameMonth
    <3>. QED  BY <1>1, <1>2, <2>0, <2>2, <3>1
  <2>3. CASE c.day < k /\ k < t.day
    <3>1. ASSUME NEW d \in S, l[d] > 0 PROVE FALSE
      <4>1. Past(d, c)
        BY <3>1 DEF HitsUpTo
      <4>. QED  BY <2>0, <2>3, <3>1, <4>1, DateTypes DEF Past, DayBefore, MonthBefore, SameDay, SameMonth, D
    <3>2. Sum(l, S) = 0
      BY <3>1, NoHit DEF HitsUpTo
    <3>. QED  BY <1>1, <2>3, <3>2
  <2>4. CASE ~(k < t.day)
    <3>1. S = {} /\ {d \in D : SameMonth(d, c) /\ d.day = k /\ k < c.day} = {}
      BY <2>0, <2>4
    <3>2. g[k] = f[k]
      BY <1>1, <2>0, <2>4
    <3>. QED  BY <3>1, <3>2 DEF DaysAt
  <2>. QED  BY <2>0, <2>1, <2>2, <2>3, <2>4
<1>. QED  BY <1>3 DEF DaysAt, g, s

\* Another month has no days yet.
LEMMA DaysOfNewMonth ==
  ASSUME NEW l, NEW c \in D, HitsUpTo(l, c), NEW t \in D, MonthBefore(c, t)
  PROVE  DaysAt(Periods!None(Periods!Days), t, l)
<1>. SUFFICES ASSUME NEW k \in Periods!Days
              PROVE  Sum(l, {d \in D : SameMonth(d, t) /\ d.day = k /\ k < t.day}) = 0
  BY DEF DaysAt, Periods!None
<1>1. ASSUME NEW d \in D, SameMonth(d, t), l[d] > 0 PROVE FALSE
  <2>1. Past(d, c)
    BY <1>1 DEF HitsUpTo
  <2>. QED  BY <1>1, <2>1, DateTypes DEF Past, DayBefore, MonthBefore, SameDay, SameMonth, D
<1>. QED  BY <1>1, NoHit DEF HitsUpTo

\* In the same month the month before is the same.
LEMMA LastMonthOfTheMonth ==
  ASSUME NEW l, NEW c \in D, NEW t \in D, SameMonth(c, t), NEW f, DaysLastMonth(f, c, l)
  PROVE  DaysLastMonth(f, t, l)
<1>1. \A d \in D : LastMonthBefore(d, t) <=> LastMonthBefore(d, c)
  BY DEF SameMonth, LastMonthBefore
<1>2. DaysHit(t, l) = DaysHit(c, l)
  BY <1>1 DEF DaysHit
<1>3. \A k, n : {d \in D : LastMonthBefore(d, t) /\ d.day = k /\ k # n}
                = {d \in D : LastMonthBefore(d, c) /\ d.day = k /\ k # n}
  BY <1>1
<1>. DEFINE n == Periods!Max({-1} \cup DaysHit(c, l))
            Sums(k) == Sum(l, {d \in D : LastMonthBefore(d, c) /\ d.day = k /\ k # n})
<1>4. \A k \in Periods!Days : f[k] = Sums(k)
  BY DEF DaysLastMonth
<1>5. \A k : Sum(l, {d \in D : LastMonthBefore(d, t) /\ d.day = k /\ k # Periods!Max({-1} \cup DaysHit(t, l))}) = Sums(k)
  <2>1. Periods!Max({-1} \cup DaysHit(t, l)) = n
    BY <1>2
  <2>2. \A k : {d \in D : LastMonthBefore(d, t) /\ d.day = k /\ k # Periods!Max({-1} \cup DaysHit(t, l))}
              = {d \in D : LastMonthBefore(d, c) /\ d.day = k /\ k # n}
    <3>. HIDE DEF n
    <3>. QED  BY <1>3, <2>1
  <2>. QED  BY <2>2
<1>. HIDE DEF Sums
<1>. QED  BY <1>4, <1>5 DEF DaysLastMonth

\* The month that ends keeps its days but the last.
LEMMA LastMonthOfNewMonth ==
  ASSUME NEW l, NEW c \in D, HitsUpTo(l, c), NEW t \in D, LastMonthBefore(c, t),
         NEW f, DOMAIN f = Periods!Days, DaysAt(f, c, l)
  PROVE  DaysLastMonth(Periods!CutAfter(f, c.day), t, l)
<1>1. \A d \in D : LastMonthBefore(d, t) <=> SameMonth(d, c)
  BY DateTypes, NumberTypes DEF SameMonth, LastMonthBefore, D
<1>2. ASSUME NEW d \in D, SameMonth(d, c), l[d] > 0 PROVE d.day <= c.day
  <2>1. Past(d, c)
    BY <1>2 DEF HitsUpTo
  <2>. QED  BY <1>2, <2>1, DateTypes DEF Past, DayBefore, MonthBefore, SameDay, SameMonth, D
<1>3. Periods!Max({-1} \cup DaysHit(t, l)) = c.day
  <2>. DEFINE S == {-1} \cup DaysHit(t, l)
  <2>1. c.day \in S
    <3>1. SameMonth(c, c) /\ l[c] > 0
      BY DEF SameMonth, HitsUpTo
    <3>. QED  BY <1>1, <3>1 DEF DaysHit
  <2>2. \A n \in S : n \in Int /\ c.day >= n
    <3>1. c.day \in Nat
      BY DateTypes DEF D
    <3>2. ASSUME NEW n \in DaysHit(t, l) PROVE n \in Int /\ c.day >= n
      <4>1. PICK d \in D : LastMonthBefore(d, t) /\ l[d] > 0 /\ n = d.day
        BY DEF DaysHit
      <4>2. d.day <= c.day /\ d.day \in Nat
        BY <1>1, <1>2, <4>1, DateTypes DEF D
      <4>. QED  BY <3>1, <4>1, <4>2
    <3>. QED  BY <3>1, <3>2
  <2>. HIDE DEF S
  <2>3. Periods!Max(S) \in S /\ \A n \in S : Periods!Max(S) >= n
    BY <2>1, <2>2 DEF Periods!Max
  <2>4. Periods!Max(S) = c.day
    BY <2>1, <2>2, <2>3
  <2>. QED  BY <2>4 DEF S
<1>. SUFFICES ASSUME NEW k \in Periods!Days
              PROVE  Periods!CutAfter(f, c.day)[k]
                     = Sum(l, {d \in D : LastMonthBefore(d, t) /\ d.day = k /\ k # c.day})
  BY <1>3 DEF DaysLastMonth
<1>4. k \in Nat /\ c.day \in Nat
  BY DateTypes, DaysType DEF D
<1>5. {d \in D : LastMonthBefore(d, t) /\ d.day = k /\ k # c.day}
      = {d \in D : SameMonth(d, c) /\ d.day = k /\ k # c.day}
  BY <1>1
<1>6. CASE k <= c.day
  <2>1. {d \in D : SameMonth(d, c) /\ d.day = k /\ k # c.day}
        = {d \in D : SameMonth(d, c) /\ d.day = k /\ k < c.day}
    BY <1>4, <1>6
  <2>. QED  BY <1>5, <1>6, <2>1 DEF Periods!CutAfter, DaysAt
<1>7. CASE ~(k <= c.day)
  <2>1. \A d \in {e \in D : SameMonth(e, c) /\ e.day = k /\ k # c.day} : ~(l[d] > 0)
    BY <1>2, <1>7
  <2>2. Sum(l, {d \in D : SameMonth(d, c) /\ d.day = k /\ k # c.day}) = 0
    BY <2>1, NoHit DEF HitsUpTo
  <2>. QED  BY <1>5, <1>7, <2>2 DEF Periods!CutAfter
<1>. QED  BY <1>6, <1>7

\* In the same month the months before are the same.
LEMMA MonthsOfTheMonth ==
  ASSUME NEW l, NEW c \in D, NEW t \in D, SameMonth(c, t), NEW f, MonthsAt(f, c, l)
  PROVE  MonthsAt(f, t, l)
<1>1. \A m : {d \in D : SameYear(d, t) /\ d.month = m /\ m < t.month}
             = {d \in D : SameYear(d, c) /\ d.month = m /\ m < c.month}
  BY DEF SameYear, SameMonth
<1>. QED  BY <1>1 DEF MonthsAt

\* The month that ends gets the sum of its days and of the hours of its last one.
LEMMA MonthsOfNewMonth ==
  ASSUME NEW l, NEW c \in D, HitsUpTo(l, c), NEW t \in D, SameYear(c, t), t.month = c.month + 1,
         NEW f, DOMAIN f = Periods!Months, MonthsAt(f, c, l),
         NEW a, DOMAIN a = Periods!Days, DaysAt(a, c, l),
         NEW h, DOMAIN h = Periods!Hours, HoursAt(h, c, l)
  PROVE  MonthsAt(Periods!ClearBetween(
                    [f EXCEPT ![c.month] = Periods!SumTo(a, c.day - 1) + Periods!SumTo(h, c.hour)],
                    c.month, t.month), t, l)
<1>. DEFINE s == Periods!SumTo(a, c.day - 1) + Periods!SumTo(h, c.hour)
            g == Periods!ClearBetween([f EXCEPT ![c.month] = s], c.month, t.month)
            A == {d \in D : SameMonth(d, c) /\ d.day < c.day}
            B == {d \in D : SameDay(d, c)}
<1>1. \A m \in Periods!Months : g[m] = IF c.month < m /\ m < t.month THEN 0 ELSE IF m = c.month THEN s ELSE f[m]
  BY DEF Periods!ClearBetween
<1>2. s = Sum(l, {d \in D : SameMonth(d, c)})
  <2>1. Periods!SumTo(a, c.day - 1) = Sum(l, A) /\ Periods!SumTo(h, c.hour) = Sum(l, B)
    BY MonthOfDays, DayOfHours
  <2>2. IsFiniteSet(A) /\ IsFiniteSet(B) /\ A \cap B = {} /\ Numbers(l, A \cup B) /\ A \cup B \subseteq D
    BY DatesFinite, FS_Subset, DateTypes DEF HitsUpTo, Numbers, D, SameDay
  <2>3. Sum(l, A \cup B) = Sum(l, A) + Sum(l, B)
    BY <2>2, SumOfParts
  <2>4. Sum(l, A \cup B) = Sum(l, {d \in D : SameMonth(d, c)})
    <3>1. ASSUME NEW d \in D, l[d] > 0 PROVE d \in A \cup B <=> SameMonth(d, c)
      <4>1. Past(d, c)
        BY <3>1 DEF HitsUpTo
      <4>. QED  BY <4>1, DateTypes DEF Past, DayBefore, MonthBefore, SameDay, SameMonth, D
    <3>. HIDE DEF A, B
    <3>. QED  BY <2>2, <3>1, SumOfHits DEF HitsUpTo
  <2>. QED  BY <2>1, <2>3, <2>4
<1>. HIDE DEF g, s
<1>3. ASSUME NEW m \in Periods!Months
      PROVE  g[m] = Sum(l, {d \in D : SameYear(d, t) /\ d.month = m /\ m < t.month})
  <2>. DEFINE S == {d \in D : SameYear(d, t) /\ d.month = m /\ m < t.month}
  <2>0. c.month \in Nat /\ t.month \in Nat /\ m \in Nat
    BY DateTypes, NumberTypes DEF D
  <2>1. CASE m < c.month
    <3>1. S = {d \in D : SameYear(d, c) /\ d.month = m /\ m < c.month}
      BY <2>0, <2>1 DEF SameYear
    <3>2. g[m] = f[m]
      BY <1>1, <2>0, <2>1
    <3>. QED  BY <3>1, <3>2 DEF MonthsAt
  <2>2. CASE m = c.month
    <3>1. S = {d \in D : SameMonth(d, c)}
      BY <2>0, <2>2 DEF SameYear, SameMonth
    <3>. QED  BY <1>1, <1>2, <2>0, <2>2, <3>1
  <2>3. CASE ~(m < t.month)
    <3>1. S = {} /\ {d \in D : SameYear(d, c) /\ d.month = m /\ m < c.month} = {}
      BY <2>0, <2>3
    <3>2. g[m] = f[m]
      BY <1>1, <2>0, <2>3
    <3>. QED  BY <3>1, <3>2 DEF MonthsAt
  <2>. QED  BY <2>0, <2>1, <2>2, <2>3
<1>. QED  BY <1>3 DEF MonthsAt, g, s

\* Another year has no months yet.
LEMMA MonthsOfNewYear ==
  ASSUME NEW l, NEW c \in D, HitsUpTo(l, c), NEW t \in D, c.year < t.year
  PROVE  MonthsAt(Periods!None(Periods!Months), t, l)
<1>. SUFFICES ASSUME NEW m \in Periods!Months
              PROVE  Sum(l, {d \in D : SameYear(d, t) /\ d.month = m /\ m < t.month}) = 0
  BY DEF MonthsAt, Periods!None
<1>1. ASSUME NEW d \in D, SameYear(d, t), l[d] > 0 PROVE FALSE
  <2>1. Past(d, c)
    BY <1>1 DEF HitsUpTo
  <2>. QED  BY <1>1, <2>1, DateTypes DEF Past, DayBefore, MonthBefore, SameDay, SameMonth, SameYear, D
<1>. QED  BY <1>1, NoHit DEF HitsUpTo

\* In the same year the year before is the same.
LEMMA LastYearOfTheYear ==
  ASSUME NEW l, NEW c \in D, NEW t \in D, SameYear(c, t), NEW f, MonthsLastYear(f, c, l)
  PROVE  MonthsLastYear(f, t, l)
<1>1. \A d \in D : YearBefore(d, t) <=> YearBefore(d, c)
  BY DEF SameYear, YearBefore
<1>2. MonthsHit(t, l) = MonthsHit(c, l)
  BY <1>1 DEF MonthsHit
<1>3. \A m, n : {d \in D : YearBefore(d, t) /\ d.month = m /\ m # n}
                = {d \in D : YearBefore(d, c) /\ d.month = m /\ m # n}
  BY <1>1
<1>. DEFINE n == Periods!Max({-1} \cup MonthsHit(c, l))
            Sums(m) == Sum(l, {d \in D : YearBefore(d, c) /\ d.month = m /\ m # n})
<1>4. \A m \in Periods!Months : f[m] = Sums(m)
  BY DEF MonthsLastYear
<1>5. \A m : Sum(l, {d \in D : YearBefore(d, t) /\ d.month = m /\ m # Periods!Max({-1} \cup MonthsHit(t, l))}) = Sums(m)
  <2>1. Periods!Max({-1} \cup MonthsHit(t, l)) = n
    BY <1>2
  <2>2. \A m : {d \in D : YearBefore(d, t) /\ d.month = m /\ m # Periods!Max({-1} \cup MonthsHit(t, l))}
              = {d \in D : YearBefore(d, c) /\ d.month = m /\ m # n}
    <3>. HIDE DEF n
    <3>. QED  BY <1>3, <2>1
  <2>. QED  BY <2>2
<1>. HIDE DEF Sums
<1>. QED  BY <1>4, <1>5 DEF MonthsLastYear

\* The year that ends keeps its months but the last.
LEMMA LastYearOfNewYear ==
  ASSUME NEW l, NEW c \in D, HitsUpTo(l, c), NEW t \in D, t.year = c.year + 1,
         NEW f, DOMAIN f = Periods!Months, MonthsAt(f, c, l)
  PROVE  MonthsLastYear(Periods!CutAfter(f, c.month), t, l)
<1>1. \A d \in D : YearBefore(d, t) <=> SameYear(d, c)
  BY DateTypes DEF SameYear, YearBefore, D
<1>2. ASSUME NEW d \in D, SameYear(d, c), l[d] > 0 PROVE d.month <= c.month
  <2>1. Past(d, c)
    BY <1>2 DEF HitsUpTo
  <2>. QED  BY <1>2, <2>1, DateTypes DEF Past, DayBefore, MonthBefore, SameDay, SameMonth, SameYear, D
<1>3. Periods!Max({-1} \cup MonthsHit(t, l)) = c.month
  <2>. DEFINE S == {-1} \cup MonthsHit(t, l)
  <2>1. c.month \in S
    <3>1. SameYear(c, c) /\ l[c] > 0
      BY DEF SameYear, HitsUpTo
    <3>. QED  BY <1>1, <3>1 DEF MonthsHit
  <2>2. \A n \in S : n \in Int /\ c.month >= n
    <3>1. c.month \in Nat
      BY DateTypes DEF D
    <3>2. ASSUME NEW n \in MonthsHit(t, l) PROVE n \in Int /\ c.month >= n
      <4>1. PICK d \in D : YearBefore(d, t) /\ l[d] > 0 /\ n = d.month
        BY DEF MonthsHit
      <4>2. d.month <= c.month /\ d.month \in Nat
        BY <1>1, <1>2, <4>1, DateTypes DEF D
      <4>. QED  BY <3>1, <4>1, <4>2
    <3>. QED  BY <3>1, <3>2
  <2>. HIDE DEF S
  <2>3. Periods!Max(S) \in S /\ \A n \in S : Periods!Max(S) >= n
    BY <2>1, <2>2 DEF Periods!Max
  <2>4. Periods!Max(S) = c.month
    BY <2>1, <2>2, <2>3
  <2>. QED  BY <2>4 DEF S
<1>. SUFFICES ASSUME NEW m \in Periods!Months
              PROVE  Periods!CutAfter(f, c.month)[m]
                     = Sum(l, {d \in D : YearBefore(d, t) /\ d.month = m /\ m # c.month})
  BY <1>3 DEF MonthsLastYear
<1>4. m \in Nat /\ c.month \in Nat
  BY DateTypes, NumberTypes DEF D
<1>5. {d \in D : YearBefore(d, t) /\ d.month = m /\ m # c.month}
      = {d \in D : SameYear(d, c) /\ d.month = m /\ m # c.month}
  BY <1>1
<1>6. CASE m <= c.month
  <2>1. {d \in D : SameYear(d, c) /\ d.month = m /\ m # c.month}
        = {d \in D : SameYear(d, c) /\ d.month = m /\ m < c.month}
    BY <1>4, <1>6
  <2>. QED  BY <1>5, <1>6, <2>1 DEF Periods!CutAfter, MonthsAt
<1>7. CASE ~(m <= c.month)
  <2>1. \A d \in {e \in D : SameYear(e, c) /\ e.month = m /\ m # c.month} : ~(l[d] > 0)
    BY <1>2, <1>7
  <2>2. Sum(l, {d \in D : SameYear(d, c) /\ d.month = m /\ m # c.month}) = 0
    BY <2>1, NoHit DEF HitsUpTo
  <2>. QED  BY <1>5, <1>7, <2>2 DEF Periods!CutAfter
<1>. QED  BY <1>6, <1>7

\* In the same year the years before are the same.
LEMMA YearsOfTheYear ==
  ASSUME NEW l, NEW c \in D, NEW t \in D, SameYear(c, t), NEW f, YearsAt(f, c, l)
  PROVE  YearsAt(f, t, l)
<1>1. \A y : {d \in D : d.year = y /\ y < t.year} = {d \in D : d.year = y /\ y < c.year}
  BY DEF SameYear
<1>. QED  BY <1>1 DEF YearsAt

\* The year that ends gets its months, the days of the last one and the hours of its last day.
LEMMA YearsOfNewYear ==
  ASSUME NEW l, NEW c \in D, HitsUpTo(l, c), NEW t \in D, t.year = c.year + 1,
         NEW f, DOMAIN f = Years, YearsAt(f, c, l),
         NEW b, DOMAIN b = Periods!Months, MonthsAt(b, c, l),
         NEW a, DOMAIN a = Periods!Days, DaysAt(a, c, l),
         NEW h, DOMAIN h = Periods!Hours, HoursAt(h, c, l)
  PROVE  YearsAt([f EXCEPT ![c.year] = Periods!SumTo(b, c.month - 1) + Periods!SumTo(a, c.day)
                                       + Periods!SumTo(h, c.hour)], t, l)
<1>. DEFINE s == Periods!SumTo(b, c.month - 1) + Periods!SumTo(a, c.day) + Periods!SumTo(h, c.hour)
            A == {d \in D : SameYear(d, c) /\ d.month < c.month}
            B == {d \in D : SameMonth(d, c) /\ d.day < c.day}
            C == {d \in D : SameDay(d, c)}
<1>1. s = Sum(l, {d \in D : SameYear(d, c)})
  <2>1. /\ Periods!SumTo(b, c.month - 1) = Sum(l, A) /\ Periods!SumTo(a, c.day) = Sum(l, B)
        /\ Periods!SumTo(h, c.hour) = Sum(l, C)
    BY YearOfMonths, MonthOfDays, DayOfHours
  <2>2. /\ IsFiniteSet(A) /\ IsFiniteSet(B) /\ IsFiniteSet(C) /\ IsFiniteSet(A \cup B)
        /\ A \subseteq D /\ B \subseteq D /\ C \subseteq D
    BY DatesFinite, FS_Subset DEF D
  <2>3. A \cap B = {} /\ (A \cup B) \cap C = {}
    BY DateTypes DEF D, SameDay, SameMonth
  <2>4. Numbers(l, A \cup B) /\ Numbers(l, (A \cup B) \cup C)
    BY <2>2 DEF HitsUpTo, Numbers
  <2>5. Sum(l, (A \cup B) \cup C) = Sum(l, A \cup B) + Sum(l, C) /\ Sum(l, A \cup B) = Sum(l, A) + Sum(l, B)
    BY <2>2, <2>3, <2>4, SumOfParts
  <2>6. Sum(l, (A \cup B) \cup C) = Sum(l, {d \in D : SameYear(d, c)})
    <3>1. ASSUME NEW d \in D, l[d] > 0 PROVE d \in (A \cup B) \cup C <=> SameYear(d, c)
      <4>1. Past(d, c)
        BY <3>1 DEF HitsUpTo
      <4>. QED  BY <4>1, DateTypes DEF Past, DayBefore, MonthBefore, SameDay, SameMonth, SameYear, D
    <3>2. (A \cup B) \cup C \subseteq D
      BY <2>2
    <3>. HIDE DEF A, B, C
    <3>. QED  BY <3>1, <3>2, SumOfHits DEF HitsUpTo
  <2>. QED  BY <2>1, <2>5, <2>6
<1>. HIDE DEF s
<1>2. ASSUME NEW y \in Years
      PROVE  [f EXCEPT ![c.year] = s][y] = Sum(l, {d \in D : d.year = y /\ y < t.year})
  <2>. DEFINE S == {d \in D : d.year = y /\ y < t.year}
  <2>0. c.year \in Nat /\ t.year \in Nat /\ y \in Nat /\ c.year \in Years
    BY DateTypes, CalendarAssumption DEF D
  <2>1. CASE y = c.year
    <3>1. S = {d \in D : SameYear(d, c)}
      BY <2>0, <2>1 DEF SameYear
    <3>. QED  BY <1>1, <2>0, <2>1, <3>1
  <2>2. CASE y # c.year
    <3>1. S = {d \in D : d.year = y /\ y < c.year}
      BY <2>0, <2>2
    <3>. QED  BY <2>2, <3>1 DEF YearsAt
  <2>. QED  BY <2>1, <2>2
<1>. QED  BY <1>2 DEF YearsAt, s

-----------------------------------------------------------------------------
(* A hit at t. *)

\* A hit adds one to the sums over sets with its date, and to no other.
LEMMA SumOneMore ==
  ASSUME NEW l \in [D -> Nat], NEW t \in D, NEW S, S \subseteq D
  PROVE  Sum([l EXCEPT ![t] = @ + 1], S) = IF t \in S THEN Sum(l, S) + 1 ELSE Sum(l, S)
<1>. DEFINE g == [l EXCEPT ![t] = @ + 1]
<1>1. IsFiniteSet(S) /\ Numbers(l, S)
  BY DatesFinite, FS_Subset DEF D, Numbers
<1>2. g[t] = l[t] + 1 /\ l[t] \in Nat /\ g[t] \in Nat /\ \A d \in S : d # t => g[d] = l[d]
  OBVIOUS
<1>. HIDE DEF g
<1>3. CASE t \in S
  <2>1. Sum(g, S) = Sum(l, S) - l[t] + g[t]
    BY <1>1, <1>2, <1>3, SumWithOne
  <2>2. Sum(l, S) \in Nat
    BY <1>1, SumType
  <2>. QED  BY <1>2, <1>3, <2>1, <2>2 DEF g
<1>4. CASE t \notin S
  <2>1. \A d \in S : l[d] = g[d]
    BY <1>2, <1>4
  <2>2. Sum(l, S) = Sum(g, S)
    BY <1>1, <2>1, SumSame
  <2>. QED  BY <1>4, <2>2 DEF g
<1>. QED  BY <1>3, <1>4

AllAt(T, t, l) ==
  /\ HoursAt(T.hours, t, l) /\ HoursYesterday(T.prev.hours, t, l)
  /\ DaysAt(T.days, t, l) /\ DaysLastMonth(T.prev.days, t, l)
  /\ MonthsAt(T.months, t, l) /\ MonthsLastYear(T.prev.months, t, l)
  /\ YearsAt(T.years, t, l)

\* Tables that are exact for t before a hit at t stay so with it, once its hour is counted.
LEMMA HitAdded ==
  ASSUME NEW l \in [D -> Nat], NEW t \in D, NEW T, AllAt(T, t, l), T.hours \in [Periods!Hours -> Nat]
  PROVE  LET g == [l EXCEPT ![t] = @ + 1]
         IN  /\ HoursAt([T.hours EXCEPT ![t.hour] = @ + 1], t, g) /\ HoursYesterday(T.prev.hours, t, g)
             /\ DaysAt(T.days, t, g) /\ DaysLastMonth(T.prev.days, t, g)
             /\ MonthsAt(T.months, t, g) /\ MonthsLastYear(T.prev.months, t, g)
             /\ YearsAt(T.years, t, g)
<1>. DEFINE g == [l EXCEPT ![t] = @ + 1]
<1>0. t.hour \in Periods!Hours /\ t.year \in Nat /\ t.month \in Nat /\ t.day \in Nat
  BY DateTypes DEF D
<1>1. \A S \in SUBSET D : t \notin S => Sum(g, S) = Sum(l, S)
  BY SumOneMore
<1>2. \A S \in SUBSET D : t \in S => Sum(g, S) = Sum(l, S) + 1
  BY SumOneMore
<1>3. \A d \in D : d # t => g[d] = l[d]
  OBVIOUS
<1>. HIDE DEF g
<1>4. HoursAt([T.hours EXCEPT ![t.hour] = @ + 1], t, g)
  <2>. SUFFICES ASSUME NEW h \in Periods!Hours
                PROVE  [T.hours EXCEPT ![t.hour] = @ + 1][h] = Sum(g, {d \in D : SameDay(d, t) /\ d.hour = h})
    BY DEF HoursAt
  <2>. DEFINE S == {d \in D : SameDay(d, t) /\ d.hour = h}
  <2>1. T.hours[h] = Sum(l, S)
    BY DEF AllAt, HoursAt
  <2>2. t \in S <=> h = t.hour
    BY DEF SameDay, SameMonth
  <2>3. S \in SUBSET D
    OBVIOUS
  <2>. HIDE DEF S
  <2>4. CASE h = t.hour
    <3>1. Sum(g, S) = Sum(l, S) + 1
      BY <1>2, <2>2, <2>3, <2>4
    <3>. QED  BY <1>0, <2>1, <2>4, <3>1 DEF S
  <2>5. CASE h # t.hour
    <3>1. Sum(g, S) = Sum(l, S)
      BY <1>1, <2>2, <2>3, <2>5
    <3>. QED  BY <1>0, <2>1, <2>5, <3>1 DEF S
  <2>. QED  BY <2>4, <2>5
<1>5. HoursYesterday(T.prev.hours, t, g)
  <2>1. ~LastDayBefore(t, t)
    BY <1>0 DEF LastDayBefore, LastMonthBefore, SameMonth
  <2>2. \A h : {d \in D : LastDayBefore(d, t) /\ d.hour = h} \in SUBSET D
               /\ t \notin {d \in D : LastDayBefore(d, t) /\ d.hour = h}
    BY <2>1
  <2>. QED  BY <1>1, <2>2 DEF AllAt, HoursYesterday
<1>6. DaysAt(T.days, t, g)
  <2>1. \A k : {d \in D : SameMonth(d, t) /\ d.day = k /\ k < t.day} \in SUBSET D
               /\ t \notin {d \in D : SameMonth(d, t) /\ d.day = k /\ k < t.day}
    BY <1>0
  <2>. QED  BY <1>1, <2>1 DEF AllAt, DaysAt
<1>7. ~LastMonthBefore(t, t) /\ ~YearBefore(t, t)
  BY <1>0 DEF LastMonthBefore, YearBefore
<1>8. DaysHit(t, g) = DaysHit(t, l) /\ MonthsHit(t, g) = MonthsHit(t, l)
  BY <1>3, <1>7 DEF DaysHit, MonthsHit
<1>9. DaysLastMonth(T.prev.days, t, g)
  <2>. DEFINE n == Periods!Max({-1} \cup DaysHit(t, l))
  <2>1. Periods!Max({-1} \cup DaysHit(t, g)) = n
    BY <1>8
  <2>2. \A k \in Periods!Days :
          T.prev.days[k] = Sum(l, {d \in D : LastMonthBefore(d, t) /\ d.day = k /\ k # n})
    BY DEF AllAt, DaysLastMonth
  <2>. HIDE DEF n
  <2>3. \A k : {d \in D : LastMonthBefore(d, t) /\ d.day = k /\ k # n} \in SUBSET D
               /\ t \notin {d \in D : LastMonthBefore(d, t) /\ d.day = k /\ k # n}
    BY <1>7
  <2>4. \A k \in Periods!Days :
          T.prev.days[k] = Sum(g, {d \in D : LastMonthBefore(d, t) /\ d.day = k /\ k # n})
    BY <1>1, <2>2, <2>3
  <2>. QED  BY <2>1, <2>4 DEF DaysLastMonth
<1>10. MonthsAt(T.months, t, g)
  <2>1. \A m : {d \in D : SameYear(d, t) /\ d.month = m /\ m < t.month} \in SUBSET D
               /\ t \notin {d \in D : SameYear(d, t) /\ d.month = m /\ m < t.month}
    BY <1>0
  <2>. QED  BY <1>1, <2>1 DEF AllAt, MonthsAt
<1>11. MonthsLastYear(T.prev.months, t, g)
  <2>. DEFINE n == Periods!Max({-1} \cup MonthsHit(t, l))
  <2>1. Periods!Max({-1} \cup MonthsHit(t, g)) = n
    BY <1>8
  <2>2. \A m \in Periods!Months :
          T.prev.months[m] = Sum(l, {d \in D : YearBefore(d, t) /\ d.month = m /\ m # n})
    BY DEF AllAt, MonthsLastYear
  <2>. HIDE DEF n
  <2>3. \A m : {d \in D : YearBefore(d, t) /\ d.month = m /\ m # n} \in SUBSET D
               /\ t \notin {d \in D : YearBefore(d, t) /\ d.month = m /\ m # n}
    BY <1>7
  <2>4. \A m \in Periods!Months :
          T.prev.months[m] = Sum(g, {d \in D : YearBefore(d, t) /\ d.month = m /\ m # n})
    BY <1>1, <2>2, <2>3
  <2>. QED  BY <2>1, <2>4 DEF MonthsLastYear
<1>12. YearsAt(T.years, t, g)
  <2>1. \A y : {d \in D : d.year = y /\ y < t.year} \in SUBSET D
               /\ t \notin {d \in D : d.year = y /\ y < t.year}
    BY <1>0
  <2>. QED  BY <1>1, <2>1 DEF AllAt, YearsAt
<1>. QED  BY <1>4, <1>5, <1>6, <1>9, <1>10, <1>11, <1>12 DEF g

-----------------------------------------------------------------------------
(* The invariant. *)

PeriodsTypeOK ==
  /\ date \in D \cup {Periods!Never}
  /\ hours \in [Periods!Hours -> Nat] /\ days \in [Periods!Days -> Nat]
  /\ months \in [Periods!Months -> Nat] /\ years \in [Years -> Nat]
  /\ prev \in [hours : [Periods!Hours -> Nat], days : [Periods!Days -> Nat], months : [Periods!Months -> Nat]]
  /\ log \in [D -> Nat]

\* Nothing is in the tables before the first hit.
NothingYet ==
  date = Periods!Never =>
    /\ hours = Periods!None(Periods!Hours) /\ days = Periods!None(Periods!Days)
    /\ months = Periods!None(Periods!Months) /\ years = Periods!None(Years)
    /\ prev = [hours |-> Periods!None(Periods!Hours), days |-> Periods!None(Periods!Days),
               months |-> Periods!None(Periods!Months)]
    /\ log = Periods!None(D) /\ ~jumped

HitsBefore == date # Periods!Never => HitsUpTo(log, date)

\* What the four tables hold together.
Held(T) == Sum(T.years, Years) + Sum(T.months, Periods!Months) + Sum(T.days, Periods!Days)
           + Sum(T.hours, Periods!Hours)
HeldOnce == Held(Periods!Tables) <= Sum(log, D)

TablesExact == date # Periods!Never /\ ~jumped => AllAt(Periods!Tables, date, log)

PeriodsInv == PeriodsTypeOK /\ NothingYet /\ HitsBefore /\ HeldOnce /\ TablesExact

\* No date is Never.
LEMMA NeverIsNoDate == Periods!Never \notin D
BY DateTypes DEF Periods!Never, D

TableTypes(T) ==
  /\ T.hours \in [Periods!Hours -> Nat] /\ T.days \in [Periods!Days -> Nat]
  /\ T.months \in [Periods!Months -> Nat] /\ T.years \in [Years -> Nat]
  /\ T.prev \in [hours : [Periods!Hours -> Nat], days : [Periods!Days -> Nat], months : [Periods!Months -> Nat]]

\* A sum up to a place is a number, and no more than the whole.
LEMMA SumToType ==
  ASSUME NEW S, IsFiniteSet(S), NEW f \in [S -> Nat], NEW k
  PROVE  Periods!SumTo(f, k) \in Nat /\ Sum(f, S) \in Nat /\ Periods!SumTo(f, k) <= Sum(f, S)
<1>1. Periods!SumTo(f, k) = Sum(f, {i \in S : i <= k})
  BY SumToIs
<1>2. {i \in S : i <= k} \subseteq S /\ Numbers(f, S)
  BY DEF Numbers
<1>. QED  BY <1>1, <1>2, SumOfSome

\* What the tables are made of.
LEMMA TableParts ==
  ASSUME NEW S
  PROVE  /\ Periods!None(S) \in [S -> Nat] /\ \A i \in S : Periods!None(S)[i] = 0
         /\ \A f \in [S -> Nat] : \A k :
              Periods!CutAfter(f, k) \in [S -> Nat]
         /\ \A f \in [S -> Nat] : \A a, b :
              /\ Periods!ClearBetween(f, a, b) \in [S -> Nat]
              /\ \A i \in S : Periods!ClearBetween(f, a, b)[i] <= f[i]
BY DEF Periods!None, Periods!CutAfter, Periods!ClearBetween

\* The hours of the day before.
LEMMA YesterdayType ==
  ASSUME PeriodsTypeOK, NEW n PROVE Periods!Yesterday(n) \in [Periods!Hours -> Nat]
BY TableParts DEF Periods!Yesterday, PeriodsTypeOK

\* The tables as they are.
LEMMA TablesFields ==
  ASSUME PeriodsTypeOK
  PROVE  LET T == Periods!Tables IN
         /\ T.hours = hours /\ T.days = days /\ T.months = months /\ T.years = years /\ T.prev = prev
         /\ TableTypes(T)
BY DEF Periods!Tables, PeriodsTypeOK, TableTypes

\* The tables moved up to another hour of the same day,
LEMMA SameDayFields ==
  ASSUME PeriodsTypeOK, NEW t, date # Periods!Never,
         date.year = t.year, date.month = t.month, date.day = t.day
  PROVE  LET T == Periods!Moved(t) IN
         /\ T.hours = Periods!ClearBetween(hours, date.hour, t.hour)
         /\ T.days = days /\ T.months = months /\ T.years = years /\ T.prev = prev
         /\ TableTypes(T)
<1>. DEFINE h == Periods!ClearBetween(hours, date.hour, t.hour)
<1>1. h \in [Periods!Hours -> Nat]
  BY TableParts DEF PeriodsTypeOK
<1>2. Periods!Moved(t) = [Periods!Tables EXCEPT !.hours = h]
  BY DEF Periods!Moved, Periods!Tables
<1>. HIDE DEF h
<1>3. LET T == Periods!Moved(t) IN
      /\ T.hours = h
      /\ T.days = days /\ T.months = months /\ T.years = years /\ T.prev = prev
  BY <1>2 DEF Periods!Tables
<1>4. TableTypes(Periods!Moved(t))
  BY <1>1, <1>3 DEF TableTypes, PeriodsTypeOK
<1>. QED  BY <1>3, <1>4 DEF h

\* to another day of the same month,
LEMMA NewDayFields ==
  ASSUME PeriodsTypeOK, date \in D, NEW t \in D, date # Periods!Never,
         date.year = t.year, date.month = t.month, date.day # t.day
  PROVE  LET T == Periods!Moved(t) IN
         /\ T.hours = Periods!None(Periods!Hours)
         /\ T.days = Periods!ClearBetween([days EXCEPT ![date.day] = Periods!SumTo(hours, date.hour)],
                                          date.day, t.day)
         /\ T.months = months /\ T.years = years
         /\ T.prev.hours = Periods!Yesterday(t.day = date.day + 1)
         /\ T.prev.days = prev.days /\ T.prev.months = prev.months
         /\ TableTypes(T)
<1>. DEFINE h == Periods!None(Periods!Hours)
            a == Periods!ClearBetween([days EXCEPT ![date.day] = Periods!SumTo(hours, date.hour)],
                                      date.day, t.day)
            y == Periods!Yesterday(t.day = date.day + 1)
            p == [prev EXCEPT !.hours = y]
<1>1. h \in [Periods!Hours -> Nat] /\ y \in [Periods!Hours -> Nat]
  BY TableParts, YesterdayType
<1>2. a \in [Periods!Days -> Nat]
  <2>1. Periods!SumTo(hours, date.hour) \in Nat
    BY NumberTypes, SumToType DEF PeriodsTypeOK
  <2>2. [days EXCEPT ![date.day] = Periods!SumTo(hours, date.hour)] \in [Periods!Days -> Nat]
    BY <2>1 DEF PeriodsTypeOK
  <2>. QED  BY <2>2, TableParts
<1>3. Periods!Moved(t) = [Periods!Tables EXCEPT !.hours = h, !.days = a, !.prev = p]
  BY DEF Periods!Moved, Periods!AtNewDay, Periods!Tables
<1>. HIDE DEF h, a, y
<1>4. /\ p \in [hours : [Periods!Hours -> Nat], days : [Periods!Days -> Nat], months : [Periods!Months -> Nat]]
      /\ p.hours = y /\ p.days = prev.days /\ p.months = prev.months
  BY <1>1 DEF PeriodsTypeOK
<1>. HIDE DEF p
<1>5. LET T == Periods!Moved(t) IN
      T.hours = h /\ T.days = a /\ T.months = months /\ T.years = years /\ T.prev = p
  BY <1>3 DEF Periods!Tables
<1>6. TableTypes(Periods!Moved(t))
  BY <1>1, <1>2, <1>4, <1>5 DEF TableTypes, PeriodsTypeOK
<1>. QED  BY <1>4, <1>5, <1>6 DEF h, a, y

\* to another month of the same year,
LEMMA NewMonthFields ==
  ASSUME PeriodsTypeOK, date \in D, NEW t \in D, date # Periods!Never,
         date.year = t.year, date.month # t.month
  PROVE  LET T == Periods!Moved(t)
             next == t.month = date.month + 1
             whole == Periods!SumTo(days, date.day - 1)
                      + (IF next THEN Periods!SumTo(hours, date.hour) ELSE 0)
         IN
         /\ T.hours = IF next THEN Periods!None(Periods!Hours) ELSE hours
         /\ T.days = Periods!None(Periods!Days)
         /\ T.months = Periods!ClearBetween([months EXCEPT ![date.month] = whole], date.month, t.month)
         /\ T.years = years
         /\ T.prev.hours = IF next THEN Periods!Yesterday(t.day = 0 /\ Periods!IsLastDay(date)) ELSE prev.hours
         /\ T.prev.days = IF next THEN Periods!CutAfter(days, date.day) ELSE Periods!None(Periods!Days)
         /\ T.prev.months = prev.months
         /\ whole \in Nat
         /\ TableTypes(T)
<1>. DEFINE next == t.month = date.month + 1
            whole == Periods!SumTo(days, date.day - 1)
                     + (IF next THEN Periods!SumTo(hours, date.hour) ELSE 0)
            h == IF next THEN Periods!None(Periods!Hours) ELSE hours
            a == Periods!None(Periods!Days)
            b == Periods!ClearBetween([months EXCEPT ![date.month] = whole], date.month, t.month)
            y == IF next THEN Periods!Yesterday(t.day = 0 /\ Periods!IsLastDay(date)) ELSE prev.hours
            m == IF next THEN Periods!CutAfter(days, date.day) ELSE Periods!None(Periods!Days)
            p == [[prev EXCEPT !.hours = y] EXCEPT !.days = m]
<1>1. h \in [Periods!Hours -> Nat] /\ a \in [Periods!Days -> Nat]
      /\ y \in [Periods!Hours -> Nat] /\ m \in [Periods!Days -> Nat]
  BY TableParts, YesterdayType DEF PeriodsTypeOK
<1>2. whole \in Nat
  <2>1. Periods!SumTo(hours, date.hour) \in Nat /\ Periods!SumTo(days, date.day - 1) \in Nat
    BY NumberTypes, DaysType, SumToType DEF PeriodsTypeOK
  <2>. QED  BY <2>1
<1>3. Periods!Moved(t) = [hours |-> h, days |-> a, months |-> b, years |-> years, prev |-> p, accesses |-> FALSE]
  <2>1. Periods!Moved(t) = Periods!AtNewMonth(t)
    BY DEF Periods!Moved
  <2>. DEFINE T == Periods!Tables
              h0 == IF next THEN Periods!None(Periods!Hours) ELSE T.hours
              y0 == IF next THEN Periods!Yesterday(t.day = 0 /\ Periods!IsLastDay(date)) ELSE T.prev.hours
  <2>2. Periods!AtNewMonth(t)
        = [T EXCEPT !.hours = h0, !.days = a, !.months = b, !.prev.hours = y0, !.prev.days = m,
                    !.accesses = FALSE]
    BY DEF Periods!AtNewMonth
  <2>3. T.hours = hours /\ T.prev = prev
    BY DEF Periods!Tables
  <2>4. h0 = h /\ y0 = y
    <3>. HIDE DEF T
    <3>. QED  BY <2>3
  <2>5. T = [hours |-> hours, days |-> days, months |-> months, years |-> years, prev |-> prev,
             accesses |-> accesses]
    BY DEF Periods!Tables
  <2>. HIDE DEF h, a, b, y, m, T, h0, y0
  <2>6. Periods!AtNewMonth(t)
        = [hours |-> h, days |-> a, months |-> b, years |-> years,
           prev |-> [[prev EXCEPT !.hours = y] EXCEPT !.days = m], accesses |-> FALSE]
    BY <2>2, <2>4, <2>5
  <2>. QED  BY <2>1, <2>6
<1>4. b \in [Periods!Months -> Nat]
  <2>. HIDE DEF whole
  <2>1. [months EXCEPT ![date.month] = whole] \in [Periods!Months -> Nat]
    BY <1>2 DEF PeriodsTypeOK
  <2>. QED  BY <2>1, TableParts
<1>. HIDE DEF h, a, b, y, m
<1>5. /\ p \in [hours : [Periods!Hours -> Nat], days : [Periods!Days -> Nat], months : [Periods!Months -> Nat]]
      /\ p.hours = y /\ p.days = m /\ p.months = prev.months
  BY <1>1 DEF PeriodsTypeOK
<1>. HIDE DEF p
<1>6. LET T == Periods!Moved(t) IN
      T.hours = h /\ T.days = a /\ T.months = b /\ T.years = years /\ T.prev = p
  BY <1>3
<1>7. TableTypes(Periods!Moved(t))
  BY <1>1, <1>4, <1>5, <1>6 DEF TableTypes, PeriodsTypeOK
<1>. QED  BY <1>2, <1>5, <1>6, <1>7 DEF h, a, b, y, m

NewYearSum(next, january) ==
  Periods!SumTo(months, date.month - 1)
  + (IF next THEN Periods!SumTo(days, date.day) ELSE 0)
  + (IF january THEN Periods!SumTo(hours, date.hour) ELSE 0)

\* and to another year.
LEMMA NewYearFields ==
  ASSUME PeriodsTypeOK, date \in D, NEW t \in D, date # Periods!Never, date.year # t.year
  PROVE  LET T == Periods!Moved(t)
             next == t.year = date.year + 1
             january == next /\ t.month = 0 /\ date.month = Periods!LastMonth
         IN
         /\ T.hours = IF january THEN Periods!None(Periods!Hours) ELSE hours
         /\ T.days = IF next THEN Periods!None(Periods!Days) ELSE days
         /\ T.months = Periods!None(Periods!Months)
         /\ T.years = [years EXCEPT ![date.year] = NewYearSum(next, january)]
         /\ T.prev.hours = IF january THEN Periods!Yesterday(t.day = 0 /\ Periods!IsLastDay(date)) ELSE prev.hours
         /\ T.prev.days = IF january THEN Periods!CutAfter(days, date.day)
                          ELSE IF next THEN Periods!None(Periods!Days) ELSE prev.days
         /\ T.prev.months = IF next THEN Periods!CutAfter(months, date.month) ELSE Periods!None(Periods!Months)
         /\ NewYearSum(next, january) \in Nat
         /\ TableTypes(T)
<1>. DEFINE next == t.year = date.year + 1
            january == next /\ t.month = 0 /\ date.month = Periods!LastMonth
            s == NewYearSum(next, january)
            h == IF january THEN Periods!None(Periods!Hours) ELSE hours
            a == IF next THEN Periods!None(Periods!Days) ELSE days
            b == Periods!None(Periods!Months)
            u == [years EXCEPT ![date.year] = s]
            y == IF january THEN Periods!Yesterday(t.day = 0 /\ Periods!IsLastDay(date)) ELSE prev.hours
            m == IF january THEN Periods!CutAfter(days, date.day)
                 ELSE IF next THEN Periods!None(Periods!Days) ELSE prev.days
            n == IF next THEN Periods!CutAfter(months, date.month) ELSE Periods!None(Periods!Months)
            p == [hours |-> y, days |-> m, months |-> n]
<1>1. /\ h \in [Periods!Hours -> Nat] /\ a \in [Periods!Days -> Nat] /\ b \in [Periods!Months -> Nat]
      /\ y \in [Periods!Hours -> Nat] /\ m \in [Periods!Days -> Nat] /\ n \in [Periods!Months -> Nat]
  BY TableParts, YesterdayType DEF PeriodsTypeOK
<1>2. s \in Nat
  <2>1. /\ Periods!SumTo(hours, date.hour) \in Nat /\ Periods!SumTo(days, date.day) \in Nat
        /\ Periods!SumTo(months, date.month - 1) \in Nat
    BY NumberTypes, DaysType, SumToType DEF PeriodsTypeOK
  <2>. QED  BY <2>1 DEF NewYearSum
<1>3. Periods!Moved(t) = [hours |-> h, days |-> a, months |-> b, years |-> u, prev |-> p, accesses |-> accesses]
  BY DEF Periods!Moved, Periods!AtNewYear, NewYearSum
<1>4. u \in [Years -> Nat]
  <2>. HIDE DEF s
  <2>. QED  BY <1>2 DEF PeriodsTypeOK
<1>. HIDE DEF h, a, b, u, y, m, n
<1>5. /\ p \in [hours : [Periods!Hours -> Nat], days : [Periods!Days -> Nat], months : [Periods!Months -> Nat]]
      /\ p.hours = y /\ p.days = m /\ p.months = n
  BY <1>1
<1>. HIDE DEF p
<1>6. LET T == Periods!Moved(t) IN
      T.hours = h /\ T.days = a /\ T.months = b /\ T.years = u /\ T.prev = p
  BY <1>3
<1>7. TableTypes(Periods!Moved(t))
  BY <1>1, <1>4, <1>5, <1>6 DEF TableTypes
<1>. QED  BY <1>2, <1>5, <1>6, <1>7 DEF h, a, b, u, y, m, n

\* What the tables hold are numbers.
LEMMA HeldTypes ==
  ASSUME NEW T, TableTypes(T)
  PROVE  /\ Sum(T.years, Years) \in Nat /\ Sum(T.months, Periods!Months) \in Nat
         /\ Sum(T.days, Periods!Days) \in Nat /\ Sum(T.hours, Periods!Hours) \in Nat
<1>1. /\ IsFiniteSet(Years) /\ IsFiniteSet(Periods!Months) /\ IsFiniteSet(Periods!Days)
      /\ IsFiniteSet(Periods!Hours)
  BY CalendarAssumption, NumberTypes, DaysType
<1>2. /\ Numbers(T.years, Years) /\ Numbers(T.months, Periods!Months)
      /\ Numbers(T.days, Periods!Days) /\ Numbers(T.hours, Periods!Hours)
  BY DEF TableTypes, Numbers
<1>. QED  BY <1>1, <1>2, SumType

\* Whatever was skipped, the tables moved up hold no more than before.
LEMMA MovedHolds ==
  ASSUME PeriodsTypeOK, date \in D, NEW t \in D
  PROVE  TableTypes(Periods!Moved(t)) /\ Held(Periods!Moved(t)) <= Held(Periods!Tables)
<1>. DEFINE T == Periods!Moved(t)
            SY(f) == Sum(f, Years)
            SM(f) == Sum(f, Periods!Months)
            SD(f) == Sum(f, Periods!Days)
            SH(f) == Sum(f, Periods!Hours)
<1>0. date # Periods!Never
  BY NeverIsNoDate
<1>1. /\ IsFiniteSet(Years) /\ IsFiniteSet(Periods!Months) /\ IsFiniteSet(Periods!Days)
      /\ IsFiniteSet(Periods!Hours)
  BY CalendarAssumption, NumberTypes, DaysType
<1>2. SY(years) \in Nat /\ SM(months) \in Nat /\ SD(days) \in Nat /\ SH(hours) \in Nat
  <2>. HIDE DEF SY, SM, SD, SH
  <2>. QED  BY TablesFields, HeldTypes DEF SY, SM, SD, SH
<1>3. Held(Periods!Tables) = SY(years) + SM(months) + SD(days) + SH(hours)
  BY TablesFields DEF Held
<1>4. Held(T) = SY(T.years) + SM(T.months) + SD(T.days) + SH(T.hours)
  BY DEF Held
<1>5. /\ SM(Periods!None(Periods!Months)) = 0 /\ SD(Periods!None(Periods!Days)) = 0
      /\ SH(Periods!None(Periods!Hours)) = 0
  BY <1>1, SumOfNothing DEF Periods!None
<1>6. \A k : /\ Periods!SumTo(hours, k) \in Nat /\ Periods!SumTo(hours, k) <= SH(hours)
             /\ Periods!SumTo(days, k) \in Nat /\ Periods!SumTo(days, k) <= SD(days)
             /\ Periods!SumTo(months, k) \in Nat /\ Periods!SumTo(months, k) <= SM(months)
  BY <1>1, SumToType DEF PeriodsTypeOK
<1>7. date.day \in Periods!Days /\ date.month \in Periods!Months /\ date.year \in Years
  BY DateTypes DEF D
<1>8. TableTypes(T) => SY(T.years) \in Nat /\ SM(T.months) \in Nat /\ SD(T.days) \in Nat /\ SH(T.hours) \in Nat
  BY HeldTypes
<1>. HIDE DEF T
<1>9. CASE date.year = t.year /\ date.month = t.month /\ date.day = t.day
  <2>1. /\ T.hours = Periods!ClearBetween(hours, date.hour, t.hour)
        /\ T.days = days /\ T.months = months /\ T.years = years /\ TableTypes(T)
    BY <1>0, <1>9, SameDayFields DEF T
  <2>2. SH(T.hours) <= SH(hours)
    <3>1. Numbers(T.hours, Periods!Hours) /\ Numbers(hours, Periods!Hours)
      BY <2>1 DEF TableTypes, PeriodsTypeOK, Numbers
    <3>2. \A i \in Periods!Hours : T.hours[i] <= hours[i]
      BY <2>1 DEF PeriodsTypeOK, Periods!ClearBetween
    <3>. QED  BY <1>1, <3>1, <3>2, SumBelow
  <2>. HIDE DEF SY, SM, SD, SH
  <2>. QED  BY <1>2, <1>3, <1>4, <1>8, <2>1, <2>2 DEF T
<1>10. CASE date.year = t.year /\ date.month = t.month /\ date.day # t.day
  <2>. DEFINE s == Periods!SumTo(hours, date.hour)
  <2>1. /\ T.hours = Periods!None(Periods!Hours)
        /\ T.days = Periods!ClearBetween([days EXCEPT ![date.day] = s], date.day, t.day)
        /\ T.months = months /\ T.years = years /\ TableTypes(T)
    BY <1>0, <1>10, NewDayFields DEF T
  <2>2. s \in Nat /\ s <= SH(hours)
    BY <1>6
  <2>. HIDE DEF s
  <2>3. SD(T.days) <= SD(days) + s
    <3>1. Numbers(T.days, Periods!Days) /\ Numbers(days, Periods!Days)
      BY <2>1 DEF TableTypes, PeriodsTypeOK, Numbers
    <3>. DEFINE g == [days EXCEPT ![date.day] = s]
    <3>2. g \in [Periods!Days -> Nat] /\ T.days = Periods!ClearBetween(g, date.day, t.day)
      BY <2>1, <2>2 DEF PeriodsTypeOK
    <3>3. \A i \in Periods!Days : T.days[i] <= g[i]
      <4>. HIDE DEF g
      <4>. QED  BY <3>2 DEF Periods!ClearBetween
    <3>4. T.days[date.day] <= s /\ \A i \in Periods!Days : i # date.day => T.days[i] <= days[i]
      BY <1>7, <3>3 DEF PeriodsTypeOK
    <3>. QED  BY <1>1, <1>7, <2>2, <3>1, <3>4, SumRaised
  <2>. HIDE DEF SY, SM, SD, SH
  <2>4. SH(T.hours) = 0
    BY <1>5, <2>1
  <2>. QED  BY <1>2, <1>3, <1>4, <1>8, <2>1, <2>2, <2>3, <2>4 DEF T
<1>11. CASE date.year = t.year /\ date.month # t.month
  <2>. DEFINE next == t.month = date.month + 1
              s == IF next THEN Periods!SumTo(hours, date.hour) ELSE 0
              w == Periods!SumTo(days, date.day - 1) + s
  <2>1. /\ T.hours = IF next THEN Periods!None(Periods!Hours) ELSE hours
        /\ T.days = Periods!None(Periods!Days)
        /\ T.months = Periods!ClearBetween([months EXCEPT ![date.month] = w], date.month, t.month)
        /\ T.years = years /\ TableTypes(T)
    BY <1>0, <1>11, NewMonthFields DEF T
  <2>2. w \in Nat /\ s \in Nat /\ w <= SD(days) + s /\ (next => s <= SH(hours)) /\ (~next => s = 0)
    <3>. HIDE DEF SD, SH
    <3>. QED  BY <1>2, <1>6
  <2>. HIDE DEF w, s, next
  <2>3. SM(T.months) <= SM(months) + w
    <3>1. Numbers(T.months, Periods!Months) /\ Numbers(months, Periods!Months)
      BY <2>1 DEF TableTypes, PeriodsTypeOK, Numbers
    <3>. DEFINE g == [months EXCEPT ![date.month] = w]
    <3>2. g \in [Periods!Months -> Nat] /\ T.months = Periods!ClearBetween(g, date.month, t.month)
      BY <2>1, <2>2 DEF PeriodsTypeOK
    <3>3. \A i \in Periods!Months : T.months[i] <= g[i]
      <4>. HIDE DEF g
      <4>. QED  BY <3>2 DEF Periods!ClearBetween
    <3>4. T.months[date.month] <= w /\ \A i \in Periods!Months : i # date.month => T.months[i] <= months[i]
      BY <1>7, <3>3 DEF PeriodsTypeOK
    <3>. QED  BY <1>1, <1>7, <2>2, <3>1, <3>4, SumRaised
  <2>. HIDE DEF SY, SM, SD, SH
  <2>4. SD(T.days) = 0 /\ (next => SH(T.hours) = 0) /\ (~next => SH(T.hours) = SH(hours))
    BY <1>5, <2>1
  <2>. QED  BY <1>2, <1>3, <1>4, <1>8, <2>1, <2>2, <2>3, <2>4 DEF T
<1>12. CASE date.year # t.year
  <2>. DEFINE next == t.year = date.year + 1
              january == next /\ t.month = 0 /\ date.month = Periods!LastMonth
              sm == Periods!SumTo(months, date.month - 1)
              sd == IF next THEN Periods!SumTo(days, date.day) ELSE 0
              sh == IF january THEN Periods!SumTo(hours, date.hour) ELSE 0
              w == NewYearSum(next, january)
  <2>1. /\ T.hours = IF january THEN Periods!None(Periods!Hours) ELSE hours
        /\ T.days = IF next THEN Periods!None(Periods!Days) ELSE days
        /\ T.months = Periods!None(Periods!Months)
        /\ T.years = [years EXCEPT ![date.year] = w] /\ w \in Nat /\ TableTypes(T)
    BY <1>0, <1>12, NewYearFields DEF T
  <2>2. /\ sm \in Nat /\ sm <= SM(months) /\ sd \in Nat /\ (next => sd <= SD(days)) /\ (~next => sd = 0)
        /\ sh \in Nat /\ (january => sh <= SH(hours)) /\ (~january => sh = 0)
        /\ w = sm + sd + sh
    BY <1>6 DEF NewYearSum
  <2>. HIDE DEF sm, sd, sh, w, next, january
  <2>3. SY(T.years) <= SY(years) + w
    <3>1. Numbers(T.years, Years) /\ Numbers(years, Years)
      BY <2>1 DEF TableTypes, PeriodsTypeOK, Numbers
    <3>2. T.years[date.year] <= w /\ \A i \in Years : i # date.year => T.years[i] <= years[i]
      BY <1>7, <2>1 DEF PeriodsTypeOK
    <3>. QED  BY <1>1, <1>7, <2>1, <3>1, <3>2, SumRaised
  <2>. HIDE DEF SY, SM, SD, SH
  <2>4. /\ SM(T.months) = 0
        /\ (next => SD(T.days) = 0) /\ (~next => SD(T.days) = SD(days))
        /\ (january => SH(T.hours) = 0) /\ (~january => SH(T.hours) = SH(hours))
    BY <1>5, <2>1
  <2>. QED  BY <1>2, <1>3, <1>4, <1>8, <2>1, <2>2, <2>3, <2>4 DEF T
<1>. HIDE DEF SY, SM, SD, SH
<1>. QED  BY <1>9, <1>10, <1>11, <1>12 DEF T

\* The tables moved up are exact when no month has passed without a hit.
LEMMA MovedExact ==
  ASSUME PeriodsTypeOK, date \in D, HitsUpTo(log, date), AllAt(Periods!Tables, date, log),
         NEW t \in D, Past(date, t), SameMonth(date, t) \/ LastMonthBefore(date, t)
  PROVE  AllAt(Periods!Moved(t), t, log)
<1>. DEFINE T == Periods!Moved(t)
<1>0. date # Periods!Never
  BY NeverIsNoDate
<1>1. /\ HoursAt(hours, date, log) /\ HoursYesterday(prev.hours, date, log)
      /\ DaysAt(days, date, log) /\ DaysLastMonth(prev.days, date, log)
      /\ MonthsAt(months, date, log) /\ MonthsLastYear(prev.months, date, log)
      /\ YearsAt(years, date, log)
  BY TablesFields DEF AllAt
<1>2. /\ DOMAIN hours = Periods!Hours /\ DOMAIN days = Periods!Days
      /\ DOMAIN months = Periods!Months /\ DOMAIN years = Years
  BY DEF PeriodsTypeOK
<1>3. /\ date.year \in Nat /\ t.year \in Nat /\ date.month \in Nat /\ t.month \in Nat
      /\ date.day \in Nat /\ t.day \in Nat
  BY DateTypes DEF D
<1>4. CASE SameDay(date, t)
  <2>1. /\ T.hours = Periods!ClearBetween(hours, date.hour, t.hour)
        /\ T.days = days /\ T.months = months /\ T.years = years /\ T.prev = prev
    BY <1>0, <1>4, SameDayFields DEF SameDay, SameMonth
  <2>2. SameMonth(date, t) /\ SameYear(date, t)
    BY <1>4 DEF SameDay, SameMonth, SameYear
  <2>3. HoursAt(T.hours, t, log) /\ HoursYesterday(T.prev.hours, t, log)
    BY <1>1, <1>2, <1>4, <2>1, HoursOfTheDay, YesterdayOfTheDay
  <2>4. DaysAt(T.days, t, log) /\ DaysLastMonth(T.prev.days, t, log)
    BY <1>1, <1>4, <2>1, <2>2, DaysOfTheDay, LastMonthOfTheMonth
  <2>5. MonthsAt(T.months, t, log) /\ MonthsLastYear(T.prev.months, t, log) /\ YearsAt(T.years, t, log)
    BY <1>1, <2>1, <2>2, MonthsOfTheMonth, LastYearOfTheYear, YearsOfTheYear
  <2>. QED  BY <2>3, <2>4, <2>5 DEF AllAt
<1>5. CASE SameMonth(date, t) /\ date.day # t.day
  <2>1. /\ T.hours = Periods!None(Periods!Hours)
        /\ T.days = Periods!ClearBetween([days EXCEPT ![date.day] = Periods!SumTo(hours, date.hour)],
                                         date.day, t.day)
        /\ T.months = months /\ T.years = years
        /\ T.prev.hours = Periods!Yesterday(t.day = date.day + 1)
        /\ T.prev.days = prev.days /\ T.prev.months = prev.months
    BY <1>0, <1>5, NewDayFields DEF SameMonth
  <2>2. SameMonth(date, t) /\ SameYear(date, t) /\ date.day < t.day /\ DayBefore(date, t)
    BY <1>3, <1>5 DEF Past, DayBefore, MonthBefore, SameDay, SameMonth, SameYear
  <2>3. T.prev.hours = IF LastDayBefore(date, t) THEN Periods!CutAfter(hours, date.hour)
                       ELSE Periods!None(Periods!Hours)
    <3>1. LastDayBefore(date, t) <=> t.day = date.day + 1
      BY <1>3, <1>5 DEF LastDayBefore, LastMonthBefore, SameMonth
    <3>. QED  BY <2>1, <3>1 DEF Periods!Yesterday
  <2>4. HoursAt(T.hours, t, log) /\ HoursYesterday(T.prev.hours, t, log)
    BY <1>1, <1>2, <2>1, <2>2, <2>3, HoursOfNewDay, YesterdayOfNewDay
  <2>5. DaysAt(T.days, t, log) /\ DaysLastMonth(T.prev.days, t, log)
    BY <1>1, <1>2, <2>1, <2>2, DaysOfNewDay, LastMonthOfTheMonth
  <2>6. MonthsAt(T.months, t, log) /\ MonthsLastYear(T.prev.months, t, log) /\ YearsAt(T.years, t, log)
    BY <1>1, <2>1, <2>2, MonthsOfTheMonth, LastYearOfTheYear, YearsOfTheYear
  <2>. QED  BY <2>4, <2>5, <2>6 DEF AllAt
<1>6. CASE date.year = t.year /\ t.month = date.month + 1
  <2>1. /\ T.hours = Periods!None(Periods!Hours)
        /\ T.days = Periods!None(Periods!Days)
        /\ T.months = Periods!ClearBetween(
             [months EXCEPT ![date.month] = Periods!SumTo(days, date.day - 1) + Periods!SumTo(hours, date.hour)],
             date.month, t.month)
        /\ T.years = years
        /\ T.prev.hours = Periods!Yesterday(t.day = 0 /\ Periods!IsLastDay(date))
        /\ T.prev.days = Periods!CutAfter(days, date.day)
        /\ T.prev.months = prev.months
    BY <1>0, <1>3, <1>6, NewMonthFields
  <2>2. SameYear(date, t) /\ LastMonthBefore(date, t) /\ MonthBefore(date, t) /\ DayBefore(date, t)
    BY <1>3, <1>6 DEF LastMonthBefore, MonthBefore, DayBefore, SameYear
  <2>3. T.prev.hours = IF LastDayBefore(date, t) THEN Periods!CutAfter(hours, date.hour)
                       ELSE Periods!None(Periods!Hours)
    <3>1. LastDayBefore(date, t) <=> t.day = 0 /\ Periods!IsLastDay(date)
      BY <1>3, <1>6 DEF LastDayBefore, LastMonthBefore, SameMonth
    <3>. QED  BY <2>1, <3>1 DEF Periods!Yesterday
  <2>4. HoursAt(T.hours, t, log) /\ HoursYesterday(T.prev.hours, t, log)
    BY <1>1, <1>2, <2>1, <2>2, <2>3, HoursOfNewDay, YesterdayOfNewDay
  <2>5. DaysAt(T.days, t, log) /\ DaysLastMonth(T.prev.days, t, log)
    BY <1>1, <1>2, <2>1, <2>2, DaysOfNewMonth, LastMonthOfNewMonth
  <2>6. MonthsAt(T.months, t, log)
    <3>1. MonthsAt(Periods!ClearBetween(
             [months EXCEPT ![date.month] = Periods!SumTo(days, date.day - 1) + Periods!SumTo(hours, date.hour)],
             date.month, t.month), t, log)
      BY <1>1, <1>2, <1>6, <2>2, MonthsOfNewMonth
    <3>. QED  BY <2>1, <3>1
  <2>7. MonthsLastYear(T.prev.months, t, log) /\ YearsAt(T.years, t, log)
    BY <1>1, <2>1, <2>2, LastYearOfTheYear, YearsOfTheYear
  <2>. QED  BY <2>4, <2>5, <2>6, <2>7 DEF AllAt
<1>7. CASE t.year = date.year + 1 /\ t.month = 0 /\ date.month = Periods!LastMonth
  <2>1. /\ T.hours = Periods!None(Periods!Hours)
        /\ T.days = Periods!None(Periods!Days)
        /\ T.months = Periods!None(Periods!Months)
        /\ T.years = [years EXCEPT ![date.year] = Periods!SumTo(months, date.month - 1)
                        + Periods!SumTo(days, date.day) + Periods!SumTo(hours, date.hour)]
        /\ T.prev.hours = Periods!Yesterday(t.day = 0 /\ Periods!IsLastDay(date))
        /\ T.prev.days = Periods!CutAfter(days, date.day)
        /\ T.prev.months = Periods!CutAfter(months, date.month)
    BY <1>0, <1>3, <1>7, NewYearFields DEF NewYearSum
  <2>2. LastMonthBefore(date, t) /\ MonthBefore(date, t) /\ DayBefore(date, t) /\ date.year < t.year
    BY <1>3, <1>7 DEF LastMonthBefore, MonthBefore, DayBefore
  <2>3. T.prev.hours = IF LastDayBefore(date, t) THEN Periods!CutAfter(hours, date.hour)
                       ELSE Periods!None(Periods!Hours)
    <3>1. LastDayBefore(date, t) <=> t.day = 0 /\ Periods!IsLastDay(date)
      BY <1>3, <1>7 DEF LastDayBefore, LastMonthBefore, SameMonth
    <3>. QED  BY <2>1, <3>1 DEF Periods!Yesterday
  <2>4. HoursAt(T.hours, t, log) /\ HoursYesterday(T.prev.hours, t, log)
    BY <1>1, <1>2, <2>1, <2>2, <2>3, HoursOfNewDay, YesterdayOfNewDay
  <2>5. DaysAt(T.days, t, log) /\ DaysLastMonth(T.prev.days, t, log)
    BY <1>1, <1>2, <2>1, <2>2, DaysOfNewMonth, LastMonthOfNewMonth
  <2>6. MonthsAt(T.months, t, log) /\ MonthsLastYear(T.prev.months, t, log)
    BY <1>1, <1>2, <1>7, <2>1, <2>2, MonthsOfNewYear, LastYearOfNewYear
  <2>7. YearsAt(T.years, t, log)
    <3>1. YearsAt([years EXCEPT ![date.year] = Periods!SumTo(months, date.month - 1)
                     + Periods!SumTo(days, date.day) + Periods!SumTo(hours, date.hour)], t, log)
      BY <1>1, <1>2, <1>7, YearsOfNewYear
    <3>. QED  BY <2>1, <3>1
  <2>. QED  BY <2>4, <2>5, <2>6, <2>7 DEF AllAt
<1>. QED  BY <1>4, <1>5, <1>6, <1>7 DEF SameDay, LastMonthBefore

\* The invariant of the tables holds at first,
LEMMA PeriodsStart == Periods!Init => PeriodsInv
<1>. SUFFICES ASSUME Periods!Init PROVE PeriodsInv
  OBVIOUS
<1>1. PeriodsTypeOK /\ NothingYet
  BY DEF Periods!Init, PeriodsTypeOK, NothingYet, Periods!None, D
<1>2. HitsBefore /\ TablesExact
  BY DEF Periods!Init, HitsBefore, TablesExact
<1>3. HeldOnce
  <2>1. /\ Sum(years, Years) = 0 /\ Sum(months, Periods!Months) = 0 /\ Sum(days, Periods!Days) = 0
        /\ Sum(hours, Periods!Hours) = 0
    BY CalendarAssumption, NumberTypes, DaysType, SumOfNothing DEF Periods!Init, Periods!None
  <2>2. Sum(log, D) = 0
    BY DatesFinite, SumOfNothing DEF D, Periods!Init, Periods!None
  <2>. QED  BY <1>1, <2>1, <2>2, TablesFields DEF HeldOnce, Held
<1>. QED  BY <1>1, <1>2, <1>3 DEF PeriodsInv

\* Before the first hit the tables are exact for any date.
LEMMA FirstIsExact ==
  ASSUME PeriodsTypeOK, NothingYet, date = Periods!Never, NEW t \in D
  PROVE  AllAt(Periods!Tables, t, log)
<1>1. \A S \in SUBSET D : Sum(log, S) = 0
  <2>1. ASSUME NEW S \in SUBSET D PROVE Sum(log, S) = 0
    <3>1. IsFiniteSet(S) /\ \A d \in S : log[d] = 0
      BY DatesFinite, FS_Subset DEF NothingYet, Periods!None, D
    <3>. QED  BY <3>1, SumOfNothing
  <2>. QED  BY <2>1
<1>2. HoursAt(hours, t, log) /\ HoursYesterday(prev.hours, t, log)
  BY <1>1 DEF NothingYet, Periods!None, HoursAt, HoursYesterday
<1>3. DaysAt(days, t, log) /\ MonthsAt(months, t, log) /\ YearsAt(years, t, log)
  BY <1>1 DEF NothingYet, Periods!None, DaysAt, MonthsAt, YearsAt
<1>4. DaysLastMonth(prev.days, t, log) /\ MonthsLastYear(prev.months, t, log)
  <2>4. /\ \A k \in Periods!Days : prev.days[k] = 0
        /\ \A m \in Periods!Months : prev.months[m] = 0
    BY DEF NothingYet, Periods!None
  <2>5. DaysLastMonth(prev.days, t, log)
    <3>. DEFINE n == Periods!Max({-1} \cup DaysHit(t, log))
    <3>1. \A k \in Periods!Days :
            prev.days[k] = Sum(log, {d \in D : LastMonthBefore(d, t) /\ d.day = k /\ k # n})
      <4>. HIDE DEF n
      <4>1. ASSUME NEW k \in Periods!Days
            PROVE  Sum(log, {d \in D : LastMonthBefore(d, t) /\ d.day = k /\ k # n}) = 0
        BY <1>1
      <4>. QED  BY <2>4, <4>1
    <3>. QED  BY <3>1 DEF DaysLastMonth
  <2>6. MonthsLastYear(prev.months, t, log)
    <3>. DEFINE n == Periods!Max({-1} \cup MonthsHit(t, log))
    <3>1. \A m \in Periods!Months :
            prev.months[m] = Sum(log, {d \in D : YearBefore(d, t) /\ d.month = m /\ m # n})
      <4>. HIDE DEF n
      <4>1. ASSUME NEW m \in Periods!Months
            PROVE  Sum(log, {d \in D : YearBefore(d, t) /\ d.month = m /\ m # n}) = 0
        BY <1>1
      <4>. QED  BY <2>4, <4>1
    <3>. QED  BY <3>1 DEF MonthsLastYear
  <2>. QED  BY <2>5, <2>6
<1>. QED  BY <1>2, <1>3, <1>4, TablesFields DEF AllAt

\* a hit keeps it,
LEMMA UpdateKeeps ==
  ASSUME PeriodsInv, NEW t \in D, Periods!Update(t)
  PROVE  PeriodsInv'
<1>. DEFINE T == Periods!Moved(t)
            g == [log EXCEPT ![t] = @ + 1]
<1>1. /\ Periods!NotBefore(t, date)
      /\ hours' = [T.hours EXCEPT ![t.hour] = @ + 1]
      /\ days' = T.days /\ months' = T.months /\ years' = T.years /\ prev' = T.prev
      /\ date' = t /\ log' = g
      /\ jumped' = (jumped \/ (date # Periods!Never /\ Periods!MonthNo(t) > Periods!MonthNo(date) + 1))
  BY DEF Periods!Update
<1>2. PeriodsTypeOK /\ NothingYet /\ HitsBefore /\ HeldOnce /\ TablesExact
  BY DEF PeriodsInv
<1>3. TableTypes(T) /\ Held(T) <= Held(Periods!Tables)
  <2>1. CASE date = Periods!Never
    <3>1. T = Periods!Tables
      BY <2>1 DEF Periods!Moved
    <3>2. TableTypes(T)
      BY <1>2, <3>1, TablesFields
    <3>3. Held(T) \in Nat
      BY <3>2, HeldTypes DEF Held
    <3>. HIDE DEF T
    <3>. QED  BY <3>1, <3>2, <3>3
  <2>2. CASE date # Periods!Never
    BY <1>2, <2>2, MovedHolds DEF PeriodsTypeOK
  <2>. QED  BY <2>1, <2>2
<1>4. t.hour \in Periods!Hours
  BY DateTypes DEF D
<1>. HIDE DEF T
<1>5. PeriodsTypeOK'
  <2>1. g \in [D -> Nat]
    BY <1>2 DEF PeriodsTypeOK
  <2>2. hours' \in [Periods!Hours -> Nat]
    BY <1>1, <1>3, <1>4 DEF TableTypes
  <2>. QED  BY <1>1, <1>3, <2>1, <2>2 DEF TableTypes, PeriodsTypeOK, D
<1>6. (date # Periods!Never)'
  BY <1>1, NeverIsNoDate DEF Periods!Never
<1>7. HitsBefore'
  <2>1. Numbers(log', D)
    BY <1>5 DEF Numbers, PeriodsTypeOK, D
  <2>2. log'[t] > 0
    BY <1>1, <1>2 DEF PeriodsTypeOK
  <2>3. ASSUME NEW d \in D, log'[d] > 0 PROVE Past(d, t)
    <3>1. CASE d = t
      BY <3>1, PastOrder DEF D
    <3>2. CASE d # t
      <4>1. log[d] > 0
        BY <1>1, <1>2, <2>3, <3>2 DEF PeriodsTypeOK
      <4>2. date # Periods!Never
        BY <1>2, <4>1 DEF NothingYet, Periods!None
      <4>3. date \in D /\ Past(d, date)
        BY <1>2, <4>1, <4>2 DEF PeriodsTypeOK, HitsBefore, HitsUpTo
      <4>. QED  BY <1>1, <4>3, PastOrder DEF D
    <3>. QED  BY <3>1, <3>2
  <2>. QED  BY <1>1, <2>1, <2>2, <2>3 DEF HitsBefore, HitsUpTo, D
<1>8. HeldOnce'
  <2>1. /\ Sum(T.years, Years) \in Nat /\ Sum(T.months, Periods!Months) \in Nat
        /\ Sum(T.days, Periods!Days) \in Nat /\ Sum(T.hours, Periods!Hours) \in Nat
    BY <1>3, HeldTypes
  <2>2. Sum(log', D) = Sum(log, D) + 1 /\ Sum(log, D) \in Nat
    <3>1. Sum(log', D) = Sum(log, D) + 1
      BY <1>1, <1>2, SumOneMore DEF PeriodsTypeOK
    <3>2. Sum(log, D) \in Nat
      BY <1>2, DatesFinite, SumType DEF PeriodsTypeOK, D, Numbers
    <3>. QED  BY <3>1, <3>2
  <2>3. Sum(hours', Periods!Hours) = Sum(T.hours, Periods!Hours) + 1
    <3>. DEFINE f == T.hours
                h == [f EXCEPT ![t.hour] = @ + 1]
    <3>1. f \in [Periods!Hours -> Nat]
      BY <1>3 DEF TableTypes
    <3>2. /\ Numbers(f, Periods!Hours) /\ f[t.hour] \in Nat /\ h[t.hour] = f[t.hour] + 1
          /\ h[t.hour] \in Nat
          /\ \A i \in Periods!Hours : i # t.hour => h[i] = f[i]
      BY <1>4, <3>1 DEF Numbers
    <3>. HIDE DEF h
    <3>3. Sum(h, Periods!Hours) = Sum(f, Periods!Hours) - f[t.hour] + h[t.hour]
      <4>1. IsFiniteSet(Periods!Hours)
        BY NumberTypes
      <4>. HIDE DEF f
      <4>. QED  BY <1>4, <3>2, <4>1, SumWithOne
    <3>4. Sum(h, Periods!Hours) = Sum(f, Periods!Hours) + 1
      BY <2>1, <3>2, <3>3
    <3>. QED  BY <1>1, <3>4 DEF h
  <2>4. Held(Periods!Tables)' = Sum(T.years, Years) + Sum(T.months, Periods!Months)
                                + Sum(T.days, Periods!Days) + Sum(hours', Periods!Hours)
    <3>1. (/\ Periods!Tables.hours = hours /\ Periods!Tables.days = days /\ Periods!Tables.months = months
           /\ Periods!Tables.years = years)'
      BY DEF Periods!Tables
    <3>2. Held(Periods!Tables)' = Sum(years', Years) + Sum(months', Periods!Months)
                                  + Sum(days', Periods!Days) + Sum(hours', Periods!Hours)
      BY <3>1 DEF Held
    <3>. QED  BY <1>1, <3>2
  <2>5. Held(Periods!Tables)' = Held(T) + 1
    BY <2>1, <2>3, <2>4 DEF Held
  <2>6. Held(T) <= Sum(log, D)
    <3>1. Held(Periods!Tables) \in Nat /\ Held(T) \in Nat
      BY <1>2, <1>3, TablesFields, HeldTypes DEF Held
    <3>. QED  BY <1>2, <1>3, <2>2, <3>1 DEF HeldOnce
  <2>7. Held(T) \in Nat
    BY <2>1 DEF Held
  <2>. QED  BY <2>2, <2>5, <2>6, <2>7 DEF HeldOnce
<1>9. TablesExact'
  <2>. SUFFICES ASSUME ~jumped' PROVE AllAt(Periods!Tables, date, log)'
    BY DEF TablesExact
  <2>1. AllAt(T, t, log)
    <3>1. CASE date = Periods!Never
      <4>1. T = Periods!Tables
        BY <3>1 DEF T, Periods!Moved
      <4>. QED  BY <1>2, <3>1, <4>1, FirstIsExact
    <3>2. CASE date # Periods!Never
      <4>1. date \in D /\ HitsUpTo(log, date) /\ AllAt(Periods!Tables, date, log)
        BY <1>1, <1>2, <3>2 DEF PeriodsTypeOK, HitsBefore, TablesExact
      <4>2. Past(date, t)
        BY <1>1, <4>1, PastOrder DEF D
      <4>3. SameMonth(date, t) \/ LastMonthBefore(date, t)
        <5>1. ~(Periods!MonthNo(t) > Periods!MonthNo(date) + 1)
          BY <1>1, <3>2
        <5>2. ~MonthBefore(t, date)
          BY <4>1, <4>2, DateTypes DEF Past, DayBefore, MonthBefore, SameDay, SameMonth, D
        <5>3. /\ Periods!MonthNo(t) \in Nat /\ Periods!MonthNo(date) \in Nat
              /\ ~(Periods!MonthNo(t) < Periods!MonthNo(date))
          BY <4>1, <5>2, MonthOrder DEF D
        <5>4. Periods!MonthNo(date) = Periods!MonthNo(t) \/ Periods!MonthNo(date) = Periods!MonthNo(t) - 1
          BY <5>1, <5>3
        <5>. QED  BY <4>1, <5>4, MonthOrder DEF D
      <4>. QED  BY <1>2, <4>1, <4>2, <4>3, MovedExact DEF T
    <3>. QED  BY <3>1, <3>2
  <2>2. /\ HoursAt([T.hours EXCEPT ![t.hour] = @ + 1], t, g) /\ HoursYesterday(T.prev.hours, t, g)
        /\ DaysAt(T.days, t, g) /\ DaysLastMonth(T.prev.days, t, g)
        /\ MonthsAt(T.months, t, g) /\ MonthsLastYear(T.prev.months, t, g)
        /\ YearsAt(T.years, t, g)
    <3>1. log \in [D -> Nat] /\ T.hours \in [Periods!Hours -> Nat]
      BY <1>2, <1>3 DEF PeriodsTypeOK, TableTypes
    <3>. QED  BY <2>1, <3>1, HitAdded
  <2>3. (/\ Periods!Tables.hours = hours /\ Periods!Tables.days = days /\ Periods!Tables.months = months
         /\ Periods!Tables.years = years /\ Periods!Tables.prev = prev)'
    BY DEF Periods!Tables
  <2>. HIDE DEF g
  <2>4. /\ HoursAt(hours', t, g) /\ HoursYesterday(prev'.hours, t, g)
        /\ DaysAt(days', t, g) /\ DaysLastMonth(prev'.days, t, g)
        /\ MonthsAt(months', t, g) /\ MonthsLastYear(prev'.months, t, g)
        /\ YearsAt(years', t, g)
    BY <1>1, <2>2
  <2>. QED  BY <1>1, <2>3, <2>4 DEF AllAt
<1>10. NothingYet'
  BY <1>6 DEF NothingYet
<1>. QED  BY <1>5, <1>7, <1>8, <1>9, <1>10 DEF PeriodsInv

\* and so does every step.
LEMMA PeriodsStep == PeriodsInv /\ [Periods!Next]_Periods!vars => PeriodsInv'
<1>. SUFFICES ASSUME PeriodsInv, [Periods!Next]_Periods!vars PROVE PeriodsInv'
  OBVIOUS
<1>1. ASSUME NEW t \in Periods!Dates, Periods!Update(t) PROVE PeriodsInv'
  BY <1>1, UpdateKeeps DEF D
<1>2. CASE Periods!AddAccesses \/ UNCHANGED Periods!vars
  <2>1. UNCHANGED <<date, hours, days, months, years, prev, log, jumped>>
    BY <1>2 DEF Periods!AddAccesses, Periods!vars
  <2>2. (/\ Periods!Tables.hours = hours /\ Periods!Tables.days = days /\ Periods!Tables.months = months
         /\ Periods!Tables.years = years /\ Periods!Tables.prev = prev)'
    BY DEF Periods!Tables
  <2>3. (/\ Periods!Tables.hours = hours /\ Periods!Tables.days = days /\ Periods!Tables.months = months
         /\ Periods!Tables.years = years /\ Periods!Tables.prev = prev)
    BY DEF Periods!Tables
  <2>4. PeriodsTypeOK' /\ NothingYet' /\ HitsBefore'
    BY <2>1 DEF PeriodsInv, PeriodsTypeOK, NothingYet, HitsBefore
  <2>5. HeldOnce'
    BY <2>1, <2>2, <2>3 DEF PeriodsInv, HeldOnce, Held
  <2>6. TablesExact'
    BY <2>1, <2>2, <2>3 DEF PeriodsInv, TablesExact, AllAt
  <2>. QED  BY <2>4, <2>5, <2>6 DEF PeriodsInv
<1>. QED  BY <1>1, <1>2 DEF Periods!Next

\* It says that the tables are exact.
LEMMA PeriodsInvShows == PeriodsInv => PeriodsExact
<1>. SUFFICES ASSUME PeriodsInv, date # Periods!Never
              PROVE  /\ Periods!NothingTwice
                     /\ ~jumped => /\ Periods!HoursExact /\ Periods!DaysExact
                                   /\ Periods!MonthsExact /\ Periods!YearsExact
  BY DEF PeriodsExact, Periods!PeriodsExact
<1>1. date \in D
  BY DEF PeriodsInv, PeriodsTypeOK
<1>2. Periods!NothingTwice
  <2>1. \A k : /\ Periods!SumTo(years, k) \in Nat /\ Periods!SumTo(years, k) <= Sum(years, Years)
               /\ Periods!SumTo(months, k) \in Nat /\ Periods!SumTo(months, k) <= Sum(months, Periods!Months)
               /\ Periods!SumTo(days, k) \in Nat /\ Periods!SumTo(days, k) <= Sum(days, Periods!Days)
               /\ Periods!SumTo(hours, k) \in Nat /\ Periods!SumTo(hours, k) <= Sum(hours, Periods!Hours)
    BY CalendarAssumption, NumberTypes, DaysType, SumToType DEF PeriodsInv, PeriodsTypeOK
  <2>2. /\ Sum(years, Years) \in Nat /\ Sum(months, Periods!Months) \in Nat
        /\ Sum(days, Periods!Days) \in Nat /\ Sum(hours, Periods!Hours) \in Nat
    BY TablesFields, HeldTypes DEF PeriodsInv
  <2>3. Sum(years, Years) + Sum(months, Periods!Months) + Sum(days, Periods!Days)
        + Sum(hours, Periods!Hours) <= Sum(log, D)
    BY TablesFields DEF PeriodsInv, HeldOnce, Held
  <2>4. Periods!Total(Periods!Dates) = Sum(log, D) /\ Sum(log, D) \in Nat
    <3>1. Periods!Total(Periods!Dates) = Sum(log, D)
      BY DEF Periods!Total, Sum, D
    <3>2. Sum(log, D) \in Nat
      BY DatesFinite, SumType DEF PeriodsInv, PeriodsTypeOK, D, Numbers
    <3>. QED  BY <3>1, <3>2
  <2>. QED  BY <2>1, <2>2, <2>3, <2>4 DEF Periods!NothingTwice
<1>3. ASSUME ~jumped
      PROVE  Periods!HoursExact /\ Periods!DaysExact /\ Periods!MonthsExact /\ Periods!YearsExact
  <2>1. /\ HoursAt(hours, date, log) /\ HoursYesterday(prev.hours, date, log)
        /\ DaysAt(days, date, log) /\ DaysLastMonth(prev.days, date, log)
        /\ MonthsAt(months, date, log) /\ MonthsLastYear(prev.months, date, log)
        /\ YearsAt(years, date, log)
    BY <1>3, TablesFields DEF PeriodsInv, TablesExact, AllAt
  <2>. QED  BY <1>1, <2>1, ExactIs
<1>. QED  BY <1>2, <1>3

\* While no month goes by without a hit, each table holds exactly the hits of its period,
\* wherever midnight, the end of a month or of a year falls between two of them; and no hit
\* is ever in two of the tables (StatData.update of notify/stat.go).
THEOREM PeriodsAreExact == Periods!Spec => []PeriodsExact
<1>1. Periods!Init => PeriodsInv
  BY PeriodsStart
<1>2. PeriodsInv /\ [Periods!Next]_Periods!vars => PeriodsInv'
  BY PeriodsStep
<1>3. PeriodsInv => PeriodsExact
  BY PeriodsInvShows
<1>. QED  BY <1>1, <1>2, <1>3, PTL DEF Periods!Spec
=============================================================================
