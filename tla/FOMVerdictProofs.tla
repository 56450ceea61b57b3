-------------------------- MODULE FOMVerdictProofs --------------------------
(***************************************************************************)
(* Proofs that count: the numbers FOMEvaluation reports for a source file  *)
(* are numbers of mutants, of logged kills and of Valgrind errors, for any *)
(* sources, mutants, tests and buffers.                                    *)
(***************************************************************************)
EXTENDS FOMEvaluationProofs, FiniteSetTheorems

-----------------------------------------------------------------------------
(* The kill count of the file *)

\* The number the entries of the log come to: the count in the file, or what a
\* suite that has logged its kill is going to write.
Expected ==
    IF pc = "make" /\ proc[mut].st = "read" THEN temp.kills + 1
    ELSE IF pc = "make" /\ proc[mut].st \in {"truncate", "write"} THEN proc[mut].count + 1
    ELSE temp.kills

\* Nothing is logged for a source before its turn, and its entries number what
\* the file is expected to say.
Accounted ==
    /\ Active => pending \subseteq MutantsOf[src]
    /\ pc = "make" => mut \in MutantsOf[src]
    /\ pc = "valgrind" => isMutate = "false"
    /\ \A s \in todo : (Active => s # src) => \A m \in MutantsOf[s] : reported[m] = 0
    /\ Active => IsFiniteSet(LogEntries) /\ Cardinality(LogEntries) = Expected

\* A failing suite adds one entry.
LEMMA EntryLogged ==
    ASSUME FileInv, src \in Sources, NEW m \in MutantsOf[src], src' = src,
           reported' = [reported EXCEPT ![m] = @ + 1], IsFiniteSet(LogEntries)
    PROVE  IsFiniteSet(LogEntries') /\ Cardinality(LogEntries') = Cardinality(LogEntries) + 1
<1>1. reported \in [Mutants -> Nat] /\ MutantsOf[src] \subseteq Mutants
  BY SourcesAssumption DEF FileInv, TypeOK, TestTypes
<1> DEFINE n == reported[m] + 1
<1>2. n \in Nat /\ 1..n = (1..reported[m]) \cup {n} /\ n \notin 1..reported[m]
  BY <1>1
<1>3. reported'[m] = n /\ \A k \in MutantsOf[src] : k # m => reported'[k] = reported[k]
  BY <1>1
<1> HIDE DEF n
<1>4. LogEntries' = LogEntries \cup {<<m, n>>}
  <2>1. ASSUME NEW e \in LogEntries' PROVE e \in LogEntries \cup {<<m, n>>}
    <3>1. PICK k \in MutantsOf[src] : e \in {k} \X (1..reported'[k])
      BY <2>1 DEF LogEntries
    <3>2. CASE k = m
      <4>1. PICK i \in 1..n : e = <<m, i>>
        BY <1>3, <3>1, <3>2
      <4>2. i \in 1..reported[m] => e \in {m} \X (1..reported[m])
        BY <4>1
      <4> QED
        BY <1>2, <4>1, <4>2 DEF LogEntries
    <3>3. CASE k # m
      BY <1>3, <3>1, <3>3 DEF LogEntries
    <3> QED
      BY <3>2, <3>3
  <2>2. ASSUME NEW e \in LogEntries PROVE e \in LogEntries'
    <3>1. PICK k \in MutantsOf[src] : e \in {k} \X (1..reported[k])
      BY <2>2 DEF LogEntries
    <3>2. e \in {k} \X (1..reported'[k])
      BY <1>2, <1>3, <3>1
    <3> QED
      BY <3>2 DEF LogEntries
  <2>3. <<m, n>> \in LogEntries'
    <3>1. n \in 1..n
      BY <1>1, <1>2 DEF n
    <3>2. <<m, n>> \in {m} \X (1..reported'[m])
      BY <1>3, <3>1
    <3> QED
      BY <3>2 DEF LogEntries
  <2> QED
    BY <2>1, <2>2, <2>3
<1>5. <<m, n>> \notin LogEntries
  BY <1>2 DEF LogEntries
<1> QED
  BY <1>4, <1>5, FS_AddElement

\* A test program logs its kill, then writes the count it read plus one.
LEMMA AccountedTest ==
    ASSUME InTime, FileInv, NobodyElse, Accounted, NEW m \in Mutants, TestProcess(m)
    PROVE  Accounted'
<1>1. proc[m].st # "none"
  BY DEF TestProcess, BuildSucceeds, BuildFails, SuitePasses, SuiteFails, SuiteCrashes,
         ReadKillCount, TruncateReport, WriteReport
<1>2. pc = "make" /\ mut = m /\ make = "running"
  BY <1>1 DEF NobodyElse
<1>3. UNCHANGED <<pc, todo, src, pending, mut, isMutate>>
  BY DEF TestProcess, BuildSucceeds, BuildFails, SuitePasses, SuiteFails,
         SuiteCrashes, ReadKillCount, TruncateReport, WriteReport, control
<1>4. /\ proc \in [Mutants -> Processes] /\ proc[m] \in Processes /\ temp.kills \in Nat
      /\ src \in Sources /\ todo \subseteq Sources /\ m \in MutantsOf[src] /\ Active
      /\ IsFiniteSet(LogEntries) /\ Cardinality(LogEntries) = Expected
  BY <1>2 DEF FileInv, TypeOK, ControlTypes, TestTypes, FileTypes, Reports, Placed, Active, Accounted
<1>5. ASSUME UNCHANGED reported, Expected' = Expected
      PROVE  Accounted'
  <2>1. LogEntries' = LogEntries
    BY <1>3, <1>5 DEF LogEntries
  <2> QED
    BY <1>3, <1>4, <1>5, <2>1 DEF Accounted, Active
<1>6. ASSUME SuiteReturns(m)
      PROVE  proc'[m].st \in {"none", "tests"}
  <2>1. CASE MakeAlive(m) /\ proc[m].suite < NumSuites
    <3> DEFINE next == [NoProcess EXCEPT !.st = "tests", !.suite = proc[m].suite + 1]
    <3>1. next.st = "tests"
      BY DEF NoProcess
    <3>2. proc' = [proc EXCEPT ![m] = next]
      BY <1>6, <2>1 DEF SuiteReturns
    <3> HIDE DEF next
    <3> QED
      BY <1>4, <3>1, <3>2
  <2>2. CASE ~(MakeAlive(m) /\ proc[m].suite < NumSuites)
    BY <1>4, <1>6, <2>2 DEF SuiteReturns, NoProcess
  <2> QED
    BY <2>1, <2>2
<1>7. CASE BuildSucceeds(m) \/ BuildFails(m) \/ SuiteCrashes(m)
  <2>1. /\ UNCHANGED <<temp, reported>> /\ proc[m].st \in {"build", "tests"}
        /\ proc'[m].st \in {"none", "tests"}
    BY <1>4, <1>7, SMTT(20) DEF BuildSucceeds, BuildFails, SuiteCrashes, Processes, NoProcess, history
  <2> QED
    BY <1>2, <1>3, <1>5, <2>1 DEF Expected
<1>8. CASE SuitePasses(m)
  <2>1. UNCHANGED <<temp, reported>> /\ proc[m].st = "tests" /\ proc'[m].st \in {"none", "tests"}
    BY <1>6, <1>8 DEF SuitePasses, history
  <2> QED
    BY <1>2, <1>3, <1>5, <2>1 DEF Expected
<1>9. CASE SuiteFails(m)
  <2>1. /\ temp' = temp /\ proc[m].st = "tests" /\ proc'[m].st = "read"
        /\ reported' = [reported EXCEPT ![m] = @ + 1]
    BY <1>4, <1>9 DEF SuiteFails, Processes
  <2>2. Expected' = Expected + 1
    BY <1>2, <1>3, <2>1 DEF Expected
  <2>3. IsFiniteSet(LogEntries') /\ Cardinality(LogEntries') = Cardinality(LogEntries) + 1
    BY <1>3, <1>4, <2>1, EntryLogged, Zenon
  <2>4. \A s \in todo : s # src => m \notin MutantsOf[s] /\ MutantsOf[s] \subseteq Mutants
    BY <1>4, SourcesAssumption
  <2>5. \A s \in todo : s # src => \A k \in MutantsOf[s] : reported'[k] = 0
    BY <1>4, <2>1, <2>4 DEF Accounted, FileInv, TypeOK, TestTypes
  <2> QED
    BY <1>2, <1>3, <1>4, <2>2, <2>3, <2>5 DEF Accounted, Active
<1>10. CASE ReadKillCount(m)
  <2>1. /\ UNCHANGED <<temp, reported>> /\ proc[m].st = "read"
        /\ proc'[m].st = "truncate" /\ proc'[m].count = temp.kills
    BY <1>4, <1>10 DEF ReadKillCount, Processes, CountRead, InTime, history
  <2> QED
    BY <1>2, <1>3, <1>5, <2>1 DEF Expected
<1>11. CASE TruncateReport(m)
  <2>1. /\ UNCHANGED reported /\ proc[m].st = "truncate"
        /\ proc'[m].st = "write" /\ proc'[m].count = proc[m].count
    BY <1>4, <1>11 DEF TruncateReport, Processes, history
  <2> QED
    BY <1>2, <1>3, <1>5, <2>1 DEF Expected
<1>12. CASE WriteReport(m)
  <2>1. /\ UNCHANGED reported /\ proc[m].st = "write" /\ proc'[m].st \in {"none", "tests"}
        /\ temp'.kills = proc[m].count + 1
    BY <1>6, <1>12, Zenon DEF WriteReport, Report, history
  <2> QED
    BY <1>2, <1>3, <1>5, <2>1 DEF Expected
<1> QED
  BY <1>7, <1>8, <1>9, <1>10, <1>11, <1>12 DEF TestProcess

LEMMA AccountedStep ==
    ASSUME InTime, FileInv, NobodyElse, Accounted, [Next]_vars
    PROVE  Accounted'
<1>0. /\ todo \subseteq Sources /\ proc \in [Mutants -> Processes]
      /\ pc \in {"make", "valgrind"} => mut \in Mutants
  BY DEF FileInv, TypeOK, ControlTypes, TestTypes, Placed
<1>1. CASE \E s \in Sources : StartSource(s)
  <2>1. PICK s \in Sources : StartSource(s)
    BY <1>1
  <2>2. /\ pc = "source" /\ s \in todo /\ pc' = "readdir" /\ src' = s /\ pending' = MutantsOf[s]
        /\ temp'.kills = 0 /\ UNCHANGED <<todo, reported>>
    BY <2>1 DEF StartSource, NoKills, history
  <2>3. \A t \in todo : \A m \in MutantsOf[t] : reported[m] = 0
    BY <2>2 DEF Accounted, Active
  <2>4. LogEntries' = {}
    BY <2>2, <2>3 DEF LogEntries
  <2>5. IsFiniteSet(LogEntries') /\ Cardinality(LogEntries') = 0
    BY <2>4, FS_EmptySet
  <2> QED
    BY <2>2, <2>3, <2>5 DEF Accounted, Active, Expected
<1>2. CASE \E m \in Mutants : InjectMutant(m)
  <2>1. PICK m \in Mutants : InjectMutant(m)
    BY <1>2
  <2>2. /\ pc = "readdir" /\ m \in pending /\ pc' = "make" /\ pending' = pending \ {m} /\ mut' = m
        /\ UNCHANGED <<todo, src, temp, reported>>
    BY <2>1 DEF InjectMutant, history
  <2>3. proc'[m].st = "build"
    BY <1>0, <2>1 DEF InjectMutant, NoProcess
  <2>4. LogEntries' = LogEntries /\ Expected' = Expected
    BY <2>2, <2>3 DEF LogEntries, Expected
  <2> QED
    BY <2>2, <2>4 DEF Accounted, Active
<1>3. CASE MakeFailed \/ MakeTimeout \/ EvaluateTests
  <2>1. /\ pc = "make" /\ pc' \in {"readdir", "valgrind"}
        /\ pc' = "valgrind" => isMutate' = "false"
        /\ UNCHANGED <<todo, src, pending, temp, reported>>
    BY <1>3 DEF MakeFailed, MakeTimeout, RecordFailedInjection, EvaluateTests, ValgrindIsMutate
  <2>2. proc[mut].st \notin {"read", "truncate", "write"}
    BY <1>0, <1>3, <2>1 DEF MakeFailed, MakeTimeout, EvaluateTests, NobodyElse, InTime
  <2>3. LogEntries' = LogEntries /\ Expected' = Expected
    BY <2>1, <2>2 DEF LogEntries, Expected
  <2> QED
    BY <2>1, <2>3 DEF Accounted, Active
<1>4. CASE EvaluateValgrind
  <2>1. /\ pc = "valgrind" /\ pc' = "readdir" /\ UNCHANGED <<todo, src, pending, reported>>
        /\ temp' = IF isMutate = "true" THEN Report(mut, CountRead(temp), NumTests) ELSE temp
    BY <1>4 DEF EvaluateValgrind, history
  <2>2. temp' = temp
    BY <2>1 DEF Accounted
  <2>3. LogEntries' = LogEntries /\ Expected' = Expected
    BY <2>1, <2>2 DEF LogEntries, Expected
  <2> QED
    BY <2>1, <2>3 DEF Accounted, Active
<1>5. CASE FinishSource \/ Finish
  <2>1. /\ pc' \in {"source", "crashed", "done"} /\ UNCHANGED reported
        /\ \/ todo' = todo \ {src}
           \/ todo' = todo /\ pc = "source"
    BY <1>5 DEF FinishSource, Finish, history
  <2> QED
    BY <2>1 DEF Accounted, Active
<1>6. CASE \E m \in Mutants : TestProcess(m)
  BY <1>6, AccountedTest
<1>7. CASE UNCHANGED vars
  <2>1. UNCHANGED <<pc, todo, src, pending, mut, isMutate, temp, proc, reported>>
    BY <1>7 DEF vars, control, tests, history
  <2>2. LogEntries' = LogEntries /\ Expected' = Expected
    BY <2>1 DEF LogEntries, Expected
  <2> QED
    BY <2>1, <2>2 DEF Accounted, Active
<1> QED
  BY <1>1, <1>2, <1>3, <1>4, <1>5, <1>6, <1>7 DEF Next, Controller, Terminated

\* With CuTest and no test program that outlives its make, no report is lost:
\* for any number of suites and mutants the count in temp_results.log is the
\* number of kills logged for the source whenever the controller reads it, and
\* the run under Valgrind, which has IS_MUTATE=false, adds nothing.
THEOREM NoReportLost == InTime => (Spec => []ReportsAccounted)
<1> SUFFICES ASSUME InTime PROVE Spec => []ReportsAccounted
  OBVIOUS
<1>1. Init => Accounted
  BY SourcesAssumption DEF Init, Accounted, Active
<1>2. FileInv /\ CountCovers /\ Accounted /\ [Next]_vars => Accounted'
  BY AccountedStep DEF CountCovers
<1>3. Accounted => ReportsAccounted
  BY DEF Accounted, ReportsAccounted, Active, Expected
<1> QED
  BY <1>1, <1>2, <1>3, FileInvariant, CoversInvariant, PTL DEF Spec

-----------------------------------------------------------------------------
(* The counters count mutants *)

\* Whose turn it is: the mutants without a verdict are the one make runs for,
\* the ones readdir has not returned, and those of later sources.
Turns ==
    /\ Active => src \in todo /\ pending \subseteq MutantsOf[src]
    /\ Active => \A m \in MutantsOf[src] :
          verdict[m] = "none" <=> (m \in pending \/ (pc = "make" /\ m = mut))
    /\ pc \in {"make", "valgrind"} => mut \in MutantsOf[src] /\ mut \notin pending
    /\ pc = "valgrind" => verdict[mut] = IF Killed THEN "killed" ELSE "survived"
    /\ \A s \in todo : (Active => s # src) => \A m \in MutantsOf[s] : verdict[m] = "none"
    /\ src # Nil /\ ~Active => \A m \in MutantsOf[src] : verdict[m] # "none"

\* The mutants of the source in hand that were judged dead, and alive.
Dead  == {m \in MutantsOf[src] : verdict[m] \in {"failed", "killed"}}
Alive == {m \in MutantsOf[src] : verdict[m] \in {"survived"}}

\* A survivor that is judged but not yet stored.
Unstored == IF Surviving THEN 1 ELSE 0

\* The mutants stored in survived[].
Stored == {survived[i].mutant : i \in DOMAIN survived}

\* The three counts of VerdictsTallied.
Counted ==
    src # Nil =>
        /\ fom["mutant_kill_count"] = Cardinality(Dead)
        /\ Len(survived) + Unstored = Cardinality(Alive)
        /\ Stored = Alive \ (IF pc = "valgrind" THEN {mut} ELSE {})

TurnInv == FileInv /\ Turns /\ Counted

LEMMA TurnInit == Init => Turns /\ Counted
<1> SUFFICES ASSUME Init PROVE Turns /\ Counted
  OBVIOUS
<1>1. pc = "source" /\ src = Nil /\ todo = Sources /\ verdict = [m \in Mutants |-> "none"]
  BY DEF Init
<1>2. Turns
  BY <1>1, SourcesAssumption DEF Turns, Active
<1>3. Counted
  BY <1>1 DEF Counted
<1> QED
  BY <1>2, <1>3

LEMMA TurnTally == TurnInv => VerdictsTallied
  BY Zenon DEF TurnInv, Turns, Counted, VerdictsTallied, Dead, Alive, Stored, Unstored, Active

\* The mutants of a source are finitely many, and so are the judged ones.
LEMMA JudgedFinite ==
    ASSUME src \in Sources
    PROVE  /\ IsFiniteSet(Dead) /\ Cardinality(Dead) \in Nat
           /\ IsFiniteSet(Alive) /\ Cardinality(Alive) \in Nat
<1>1. IsFiniteSet(MutantsOf[src]) /\ Dead \subseteq MutantsOf[src] /\ Alive \subseteq MutantsOf[src]
  BY DirectoriesAssumption DEF Dead, Alive
<1> QED
  BY <1>1, FS_Subset, FS_CardinalityType

\* What a verdict for the mutant in hand does to the sets of judged mutants.
LEMMA VerdictGiven ==
    ASSUME FileInv, src \in Sources, mut \in MutantsOf[src], verdict[mut] = "none",
           NEW v, verdict' = [verdict EXCEPT ![mut] = v], src' = src
    PROVE  /\ v \in {"failed", "killed"} =>
                 Cardinality(Dead') = Cardinality(Dead) + 1 /\ Alive' = Alive
           /\ v = "survived" =>
                 /\ Dead' = Dead /\ Alive' = Alive \cup {mut}
                 /\ Cardinality(Alive') = Cardinality(Alive) + 1
<1>1. verdict \in [Mutants -> Verdicts] /\ MutantsOf[src] \subseteq Mutants
  BY SourcesAssumption DEF FileInv, TypeOK, TestTypes
<1>2. verdict'[mut] = v /\ \A m \in MutantsOf[src] : m # mut => verdict'[m] = verdict[m]
  BY <1>1
<1>3. mut \notin Dead /\ mut \notin Alive
  BY DEF Dead, Alive
<1>4. v \in {"failed", "killed"} => Dead' = Dead \cup {mut} /\ Alive' = Alive
  BY <1>2 DEF Dead, Alive
<1>5. v = "survived" => Dead' = Dead /\ Alive' = Alive \cup {mut}
  BY <1>2 DEF Dead, Alive
<1> QED
  BY <1>3, <1>4, <1>5, JudgedFinite, FS_AddElement

\* The mutant make runs for is one of the source in hand, not yet judged.
LEMMA InHand ==
    ASSUME TurnInv, Active
    PROVE  /\ src \in Sources /\ src # Nil /\ src \in todo /\ todo \subseteq Sources
           /\ pc \in {"make", "valgrind"} =>
                 mut \in MutantsOf[src] /\ mut \in Mutants /\ mut \notin pending
           /\ pc = "make" => verdict[mut] = "none"
           /\ verdict \in [Mutants -> Verdicts] /\ MutantsOf[src] \subseteq Mutants
           /\ fom \in [Counters -> Nat] /\ survived \in Seq(SurvivedMutants)
  BY SourcesAssumption DEF TurnInv, FileInv, TypeOK, ControlTypes, TestTypes, ResultTypes,
     Turns, Active

\* A verdict for the mutant make ran for ends its turn.
LEMMA TurnOver ==
    ASSUME TurnInv, pc = "make", NEW v \in Verdicts \ {"none"},
           verdict' = [verdict EXCEPT ![mut] = v], UNCHANGED <<todo, src, pending, mut>>,
           pc' = "readdir" \/ (pc' = "valgrind" /\ v = IF Killed' THEN "killed" ELSE "survived")
    PROVE  Turns'
<1>1. Active /\ Active'
  BY DEF Active
<1>2. verdict'[mut] = v /\ \A m \in Mutants : m # mut => verdict'[m] = verdict[m]
  BY <1>1, InHand
<1>3. \A s \in todo : s # src => mut \notin MutantsOf[s] /\ MutantsOf[s] \subseteq Mutants
  BY <1>1, InHand, SourcesAssumption
<1>4. \A m \in MutantsOf[src] : verdict'[m] = "none" <=> m \in pending
  BY <1>1, <1>2, InHand DEF TurnInv, Turns
<1>5. \A s \in todo : s # src => \A m \in MutantsOf[s] : verdict'[m] = "none"
  BY <1>1, <1>2, <1>3 DEF TurnInv, Turns
<1> QED
  BY <1>1, <1>2, <1>4, <1>5, InHand DEF TurnInv, Turns

\* A source starts with no mutant judged.
LEMMA TurnStart ==
    ASSUME TurnInv, NEW s \in Sources, StartSource(s)
    PROVE  Turns' /\ Counted'
<1>1. /\ pc = "source" /\ s \in todo /\ pc' = "readdir" /\ src' = s /\ pending' = MutantsOf[s]
      /\ fom' = [c \in Counters |-> 0] /\ survived' = << >> /\ UNCHANGED <<todo, verdict>>
  BY DEF StartSource, history
<1>2. \A t \in todo : \A m \in MutantsOf[t] : verdict[m] = "none"
  BY <1>1 DEF TurnInv, Turns, Active
<1>3. Turns'
  BY <1>1, <1>2 DEF Turns, Active
<1>5. Dead' = {} /\ Alive' = {}
  BY <1>1, <1>2 DEF Dead, Alive
<1>6. Stored' = {}
  BY <1>1 DEF Stored
<1>7. fom'["mutant_kill_count"] = 0 /\ Len(survived') = 0 /\ Unstored' = 0
  BY <1>1, CounterNames DEF Surviving, Unstored
<1>8. Cardinality({}) = 0
  BY FS_EmptySet
<1> QED
  BY <1>1, <1>3, <1>5, <1>6, <1>7, <1>8 DEF Counted

\* The next mutant is taken from the directory.
LEMMA TurnInject ==
    ASSUME TurnInv, NEW m \in Mutants, InjectMutant(m)
    PROVE  Turns' /\ Counted'
<1>1. /\ pc = "readdir" /\ m \in pending /\ pc' = "make" /\ pending' = pending \ {m} /\ mut' = m
      /\ Increment({"total_mutants"}) /\ UNCHANGED <<todo, src, verdict, survived>>
  BY DEF InjectMutant, arrays, history
<1>2. Active /\ Active'
  BY <1>1 DEF Active
<1>3. Turns'
  BY <1>1, <1>2, InHand DEF TurnInv, Turns
<1>4. Dead' = Dead /\ Alive' = Alive
  BY <1>1, Zenon DEF Dead, Alive
<1>5. fom'["mutant_kill_count"] = fom["mutant_kill_count"] /\ Stored' = Stored
  BY <1>1, CounterNames DEF Increment, Stored
<1>6. Unstored = 0 /\ Unstored' = 0 /\ pc # "valgrind" /\ pc' # "valgrind"
  BY <1>1 DEF Surviving, Unstored
<1> QED
  BY <1>1, <1>3, <1>4, <1>5, <1>6 DEF TurnInv, Counted

\* A failed injection is a kill.
LEMMA TurnFailed ==
    ASSUME TurnInv, pc = "make", RecordFailedInjection
    PROVE  Turns' /\ Counted'
<1>1. /\ pc' = "readdir" /\ verdict' = [verdict EXCEPT ![mut] = "failed"]
      /\ Increment({"mutant_kill_count", "failed_injection"})
      /\ UNCHANGED <<todo, src, pending, mut, survived>>
  BY DEF RecordFailedInjection, arrays
<1>2. Active /\ "failed" \in Verdicts \ {"none"}
  BY DEF Active, Verdicts
<1>3. Turns'
  BY <1>1, <1>2, TurnOver, Zenon
<1>4. /\ Cardinality(Dead') = Cardinality(Dead) + 1
      /\ Alive' = Alive
  <2>1. FileInv /\ src \in Sources /\ mut \in MutantsOf[src] /\ verdict[mut] = "none"
    BY <1>2, InHand DEF TurnInv
  <2> QED
    BY <1>1, <2>1, VerdictGiven, Zenon
<1>5. fom'["mutant_kill_count"] = fom["mutant_kill_count"] + 1 /\ Stored' = Stored
  BY <1>1, CounterNames DEF Increment, Stored
<1>6. Unstored = 0 /\ Unstored' = 0 /\ pc # "valgrind" /\ pc' # "valgrind"
  BY <1>1 DEF Surviving, Unstored
<1> QED
  BY <1>1, <1>3, <1>4, <1>5, <1>6 DEF TurnInv, Counted

\* The tests' verdict: a kill is counted at once, a survivor stored later.
LEMMA TurnTests ==
    ASSUME TurnInv, EvaluateTests
    PROVE  Turns' /\ Counted'
<1>1. /\ pc = "make" /\ pc' = "valgrind" /\ stats' = temp /\ prev' = prev
      /\ UNCHANGED <<todo, src, pending, mut, survived>>
  BY DEF EvaluateTests
<1>2. Active /\ Verdicts \ {"none"} = {"failed", "killed", "survived"}
  BY <1>1 DEF Active, Verdicts
<1>3. FileInv /\ src \in Sources /\ mut \in MutantsOf[src] /\ verdict[mut] = "none"
  BY <1>1, <1>2, InHand DEF TurnInv
<1>4. Killed' <=> KilledByTests(prev, temp.kills)
  BY <1>1 DEF Killed, KilledByTests
<1>5. Stored' = Stored /\ Unstored = 0 /\ mut \notin Alive
  BY <1>1, <1>3 DEF Stored, Surviving, Unstored, Dead, Alive
<1>6. CASE KilledByTests(prev, temp.kills)
  <2>1. verdict' = [verdict EXCEPT ![mut] = "killed"]
    BY <1>6 DEF EvaluateTests
  <2>2. fom'["mutant_kill_count"] = fom["mutant_kill_count"] + 1
    <3>1. PICK d \in 0..1 :
             Increment({"mutant_kill_count"} \cup IF d > 0 THEN {"caused_CFG_deviation"} ELSE {})
      BY <1>6 DEF EvaluateTests
    <3> QED
      BY <3>1, CounterNames DEF Increment
  <2>3. /\ Cardinality(Dead') = Cardinality(Dead) + 1
        /\ Alive' = Alive
    BY <1>1, <1>3, <2>1, VerdictGiven, Zenon
  <2>4. Turns'
    BY <1>1, <1>2, <1>4, <1>6, <2>1, TurnOver, Zenon
  <2>5. Unstored' = 0
    BY <1>4, <1>6 DEF Surviving, Unstored
  <2> QED
    BY <1>1, <1>5, <2>2, <2>3, <2>4, <2>5 DEF TurnInv, Counted
<1>7. CASE ~KilledByTests(prev, temp.kills)
  <2>1. verdict' = [verdict EXCEPT ![mut] = "survived"]
    BY <1>7 DEF EvaluateTests
  <2>2. fom'["mutant_kill_count"] = fom["mutant_kill_count"]
    <3>1. PICK d \in 0..1 :
             Increment(IF d > 0 THEN {"caused_CFG_deviation", "survived_caused_CFG_deviation"} ELSE {})
      BY <1>7 DEF EvaluateTests
    <3> QED
      BY <3>1, CounterNames DEF Increment
  <2>3. /\ Dead' = Dead
        /\ Alive' = Alive \cup {mut}
        /\ Cardinality(Alive') = Cardinality(Alive) + 1
    BY <1>1, <1>3, <2>1, VerdictGiven, Zenon
  <2>4. Turns'
    BY <1>1, <1>2, <1>4, <1>7, <2>1, TurnOver, Zenon
  <2>5. Unstored' = 1
    BY <1>1, <1>4, <1>7 DEF Surviving, Unstored
  <2>6. Len(survived) \in Nat
    BY <1>2, InHand
  <2> QED
    BY <1>1, <1>5, <2>2, <2>3, <2>4, <2>5, <2>6 DEF TurnInv, Counted
<1> QED
  BY <1>6, <1>7

\* A survivor is stored, and the counts of verdicts stay.
LEMMA TurnValgrind ==
    ASSUME TurnInv, EvaluateValgrind
    PROVE  Turns' /\ Counted'
<1>1. /\ pc = "valgrind" /\ pc' = "readdir"
      /\ UNCHANGED <<todo, src, pending, mut, verdict>>
  BY DEF EvaluateValgrind, history
<1>2. Active /\ Active' /\ src \in Sources /\ src # Nil /\ mut \in MutantsOf[src]
  BY <1>1, InHand DEF Active
<1>3. Turns'
  BY <1>1, <1>2 DEF TurnInv, Turns
<1>4. Dead' = Dead /\ Alive' = Alive
  BY <1>1 DEF Dead, Alive
<1>5. PICK e \in ValgrindCounts :
         IF Killed THEN RecordKilled(e) ELSE RecordSurvived(e)
  BY DEF EvaluateValgrind, Killed
<1>6. fom'["mutant_kill_count"] = fom["mutant_kill_count"]
  BY <1>5, ClassFrame, Zenon DEF TurnInv
<1>7. verdict[mut] = IF Killed THEN "killed" ELSE "survived"
  BY <1>1, Zenon DEF TurnInv, Turns
<1>8. CASE Killed
  <2>1. survived' = survived
    BY <1>5, <1>8 DEF RecordKilled
  <2>2. Stored' = Stored /\ mut \notin Alive /\ Unstored = 0 /\ Unstored' = 0
    BY <1>1, <1>7, <1>8, <2>1 DEF Stored, Dead, Alive, Surviving, Unstored
  <2> QED
    BY <1>1, <1>2, <1>3, <1>4, <1>6, <2>1, <2>2, Zenon DEF TurnInv, Counted
<1>9. CASE ~Killed
  <2> DEFINE entry == [mutant |-> mut, errors |-> e]
  <2>1. survived' = Append(survived, entry)
    BY <1>5, <1>9 DEF RecordSurvived
  <2>2. entry \in SurvivedMutants /\ entry.mutant = mut
    BY <1>1, <1>2, InHand DEF SurvivedMutants, ValgrindErrorCounts, ValgrindCounts
  <2> HIDE DEF entry
  <2>3. /\ Len(survived) \in Nat /\ Len(survived') = Len(survived) + 1
        /\ \A i \in 1..Len(survived) : survived'[i] = survived[i]
        /\ survived'[Len(survived) + 1] = entry
    BY <1>2, <2>1, <2>2, InHand
  <2>4. DOMAIN survived = 1..Len(survived) /\ DOMAIN survived' = 1..(Len(survived) + 1)
    BY <1>2, <2>1, <2>2, InHand
  <2>5. Stored' = Stored \cup {mut}
    BY <2>2, <2>3, <2>4 DEF Stored
  <2>6. Unstored = 1 /\ Unstored' = 0 /\ mut \in Alive
    BY <1>1, <1>2, <1>7, <1>9 DEF Surviving, Unstored, Dead, Alive
  <2>7. /\ fom["mutant_kill_count"] = Cardinality(Dead)
        /\ Len(survived) + 1 = Cardinality(Alive)
        /\ Stored = Alive \ {mut}
    BY <1>1, <1>2, <2>6, Zenon DEF TurnInv, Counted
  <2>8. fom'["mutant_kill_count"] = Cardinality(Dead')
    BY <1>4, <1>6, <2>7, Zenon
  <2>9. Len(survived') + Unstored' = Cardinality(Alive')
    <3>1. Len(survived) + 1 + 0 = Len(survived) + 1
      BY <2>3
    <3> QED
      BY <1>4, <2>3, <2>6, <2>7, <3>1, Zenon
  <2>10. Stored' = Alive' \ (IF pc' = "valgrind" THEN {mut'} ELSE {})
    <3>1. Stored' = Alive
      BY <2>5, <2>6, <2>7
    <3> QED
      BY <1>1, <1>4, <3>1
  <2> QED
    BY <1>3, <2>8, <2>9, <2>10, Zenon DEF Counted
<1> QED
  BY <1>8, <1>9

\* The counters count mutants, however long the tests run and whatever they
\* report: genResultsFOM judges each mutant of a source once, counts it as a
\* kill or stores it among the survivors, and leaves none out.
THEOREM VerdictsCounted == Spec => []VerdictsTallied
<1>1. Init => Turns /\ Counted
  BY TurnInit
<1>2. ASSUME TurnInv, [Next]_vars
      PROVE  Turns' /\ Counted'
  <2>1. CASE \E s \in Sources : StartSource(s)
    BY <1>2, <2>1, TurnStart
  <2>2. CASE \E m \in Mutants : InjectMutant(m)
    BY <1>2, <2>2, TurnInject
  <2>3. CASE MakeFailed \/ MakeTimeout
    BY <1>2, <2>3, TurnFailed DEF MakeFailed, MakeTimeout
  <2>4. CASE EvaluateTests
    BY <1>2, <2>4, TurnTests
  <2>5. CASE EvaluateValgrind
    BY <1>2, <2>5, TurnValgrind
  <2>6. CASE FinishSource \/ Finish
    <3>1. /\ UNCHANGED <<src, pending, mut, verdict, fom, survived>>
          /\ pc' \in {"source", "crashed", "done"} /\ pc \in {"readdir", "source"}
          /\ pc = "readdir" => pending = {} /\ todo' = todo \ {src}
          /\ pc = "source" => todo' = todo
      BY <2>6 DEF FinishSource, Finish, result, arrays, history
    <3>2. Turns'
      BY <1>2, <3>1 DEF TurnInv, Turns, Active
    <3>3. Counted'
      <4>1. Dead' = Dead /\ Alive' = Alive /\ Stored' = Stored
        BY <3>1, Zenon DEF Dead, Alive, Stored
      <4>2. pc # "valgrind" /\ pc' # "valgrind"
        BY <3>1
      <4>3. Unstored = 0 /\ Unstored' = 0
        BY <4>2 DEF Unstored, Surviving
      <4> QED
        BY <1>2, <3>1, <4>1, <4>2, <4>3, Zenon DEF TurnInv, Counted
    <3> QED
      BY <3>2, <3>3
  <2>7. CASE (\E m \in Mutants : TestProcess(m)) \/ Terminated \/ UNCHANGED vars
    <3>1. UNCHANGED <<pc, todo, src, pending, mut, prev, stats, verdict, fom, survived>>
      BY <2>7, Zenon DEF TestProcess, BuildSucceeds, BuildFails, SuitePasses, SuiteFails,
            SuiteCrashes, ReadKillCount, TruncateReport, WriteReport, Terminated,
            vars, control, locals, result, arrays, history
    <3>2. Turns'
      BY <1>2, <3>1 DEF TurnInv, Turns, Active, Killed, KilledByTests
    <3>3. Counted'
      <4>1. Dead' = Dead /\ Alive' = Alive /\ Stored' = Stored
        BY <3>1, Zenon DEF Dead, Alive, Stored
      <4>2. Unstored' = Unstored
        BY <3>1, Zenon DEF Unstored, Surviving, Killed
      <4> QED
        BY <1>2, <3>1, <4>1, <4>2, Zenon DEF TurnInv, Counted
    <3> QED
      BY <3>2, <3>3
  <2> QED
    BY <1>2, <2>1, <2>2, <2>3, <2>4, <2>5, <2>6, <2>7 DEF Next, Controller
<1> QED
  BY <1>1, <1>2, TurnTally, FileInvariant, PTL DEF Spec, TurnInv
-----------------------------------------------------------------------------
(* The damage can be averaged *)

\* Where total_valgrind_errors comes from, when the unmutated program has none:
\* a stored count and a class "caused Valgrind errors" added to it, and what
\* added to it was a kill or a damaging survivor.
ErrorsTotalled ==
    /\ \A i \in DOMAIN survived : survived[i].errors # Nil => totalVE > 0
    /\ \A i \in DOMAIN nonTrivial : nonTrivial[i].errors # Nil => totalVE > 0
    /\ totalVE = 0 => fom["killed_SD"] = 0 /\ fom["killed_WD_causedValgrindErrors"] = 0
    /\ totalVE > 0 => fom["mutant_kill_count"] + fom["survived_SD"] + fom["survived_WD"] > 0
    /\ pc # "crashed"

LEMMA DamageFits ==
    ASSUME FileInv, TalliesAgree, ErrorsTotalled
    PROVE  DamageDefined
<1> DEFINE k == fom["mutant_kill_count"]
           n == Len(survived)
           x == fom["equivalent_mutants"]
           y == fom["survived_SD"]
           z == fom["survived_WD"]
<1>1. k \in Nat /\ n \in Nat /\ x \in Nat /\ y \in Nat /\ z \in Nat /\ totalVE \in Nat
  BY TallyTypes DEF FileInv, TypeOK, ResultTypes
<1>2. n = x + y + z /\ fom["total_mutants"] = k + n + Unjudged /\ Unjudged \in Nat
  BY DEF TalliesAgree, SurvivorsPartitioned, EveryMutantCounted, Unjudged
<1>3. totalVE > 0 => k + y + z > 0
  BY DEF ErrorsTotalled
<1>4. ASSUME x = fom["total_mutants"] PROVE totalVE = 0
  <2> HIDE DEF k, n, x, y, z
  <2>1. k + y + z = 0
    BY <1>1, <1>2, <1>4
  <2> QED
    BY <1>1, <1>3, <2>1
<1> QED
  BY <1>4 DEF DamageDefined, ClassesMatchErrors, NoArithmeticFault, ErrorsTotalled

\* A killed mutant with Valgrind errors adds them, one without adds to no class.
LEMMA KilledTotalled ==
    ASSUME PUTValgrindErrors = 0, FileInv, TalliesAgree, ErrorsTotalled, Dying,
           NEW e \in ValgrindCounts, RecordKilled(e), pc' = "readdir"
    PROVE  ErrorsTotalled'
<1> DEFINE count == IF e = Nil THEN Nil ELSE Adjusted(e)
           entry == [mutant |-> mut, errors |-> count, by |-> stats.by]
<1>0. /\ fom \in [Counters -> Nat] /\ totalVE \in Nat /\ nonTrivial \in Seq(NonTrivialMutants)
      /\ mut \in Mutants /\ stats.by \in Mutants \cup {Nil} /\ Nil \notin Nat
  BY BoundsAssumption
     DEF FileInv, TypeOK, ResultTypes, Placed, ControlTypes, Reports, Dying
<1>1. /\ survived' = survived /\ count \in ValgrindErrorCounts
      /\ nonTrivial' = IF NonTrivial THEN Append(nonTrivial, entry) ELSE nonTrivial
      /\ totalVE' = IF count = Nil THEN totalVE ELSE totalVE + count
  BY <1>0, BoundsAssumption DEF RecordKilled, ValgrindCounts, Adjusted, ValgrindErrorCounts
<1>2. count # Nil => count \in Nat \ {0}
  BY <1>0, BoundsAssumption DEF ValgrindCounts, Adjusted
<1>3. totalVE' \in Nat /\ totalVE' >= totalVE /\ (count # Nil => totalVE' > 0)
  BY <1>0, <1>1, <1>2
<1>4. \A i \in DOMAIN nonTrivial' : nonTrivial'[i].errors # Nil => totalVE' > 0
  <2>1. \A i \in DOMAIN nonTrivial : nonTrivial[i].errors # Nil => totalVE' > 0
    BY <1>0, <1>3 DEF ErrorsTotalled
  <2>2. CASE NonTrivial
    <3>1. entry \in NonTrivialMutants /\ entry.errors = count
      BY <1>0, <1>1, Zenon DEF NonTrivialMutants
    <3> HIDE DEF entry
    <3>2. /\ DOMAIN nonTrivial = 1..Len(nonTrivial) /\ Len(nonTrivial) \in Nat
          /\ DOMAIN nonTrivial' = 1..(Len(nonTrivial) + 1)
          /\ \A i \in DOMAIN nonTrivial : nonTrivial'[i] = nonTrivial[i]
          /\ nonTrivial'[Len(nonTrivial) + 1] = entry
      BY <1>0, <1>1, <2>2, <3>1
    <3> HIDE DEF count
    <3>3. \A i \in DOMAIN nonTrivial' : i \in DOMAIN nonTrivial \/ i = Len(nonTrivial) + 1
      BY <3>2
    <3> QED
      BY <1>3, <2>1, <3>1, <3>2, <3>3
  <2>3. CASE ~NonTrivial
    BY <1>1, <2>1, <2>3
  <2> QED
    BY <2>2, <2>3
<1>5. totalVE' = 0 => fom'["killed_SD"] = 0 /\ fom'["killed_WD_causedValgrindErrors"] = 0
  <2> SUFFICES ASSUME totalVE' = 0
               PROVE  fom'["killed_SD"] = 0 /\ fom'["killed_WD_causedValgrindErrors"] = 0
    OBVIOUS
  <2>1. totalVE = 0 /\ count = Nil
    BY <1>0, <1>3
  <2>2. Increment(DamageClass("killed", FALSE, dev > 0) \cup IF Dumb THEN {"dumb_mutants"} ELSE {})
    BY <2>1, Zenon DEF RecordKilled
  <2> DEFINE incs == DamageClass("killed", FALSE, dev > 0) \cup IF Dumb THEN {"dumb_mutants"} ELSE {}
  <2>3. "killed_SD" \notin incs /\ "killed_WD_causedValgrindErrors" \notin incs
    BY DEF DamageClass
  <2> HIDE DEF incs
  <2>4. Increment(incs)
    BY <2>2 DEF incs
  <2> QED
    BY <2>1, <2>3, <2>4, CounterNames, Zenon DEF Increment, ErrorsTotalled
<1>6. fom'["mutant_kill_count"] + fom'["survived_SD"] + fom'["survived_WD"] > 0
  <2>1. /\ fom'["mutant_kill_count"] = fom["mutant_kill_count"]
        /\ fom'["survived_SD"] = fom["survived_SD"] /\ fom'["survived_WD"] = fom["survived_WD"]
    BY ClassFrame
  <2>2. /\ fom["failed_injection"] + fom["killed_SD"] + fom["killed_WD"] + 1
              <= fom["mutant_kill_count"]
    BY DEF TalliesAgree, KillsCoverDamage, UnclassifiedKill
  <2>3. /\ fom["failed_injection"] \in Nat /\ fom["killed_SD"] \in Nat /\ fom["killed_WD"] \in Nat
        /\ fom["mutant_kill_count"] \in Nat
        /\ fom["survived_SD"] \in Nat /\ fom["survived_WD"] \in Nat
    BY TallyTypes
  <2> QED
    BY <2>1, <2>2, <2>3
<1>7. \A i \in DOMAIN survived' : survived'[i].errors # Nil => totalVE' > 0
  BY <1>0, <1>1, <1>3, Zenon DEF ErrorsTotalled
<1> QED
  BY <1>4, <1>5, <1>6, <1>7 DEF ErrorsTotalled

\* A survivor with Valgrind errors adds them and is in a damaging class.
LEMMA SurvivedTotalled ==
    ASSUME PUTValgrindErrors = 0, FileInv, ErrorsTotalled, Surviving,
           NEW e \in ValgrindCounts, RecordSurvived(e), pc' = "readdir"
    PROVE  ErrorsTotalled'
<1> DEFINE entry == [mutant |-> mut, errors |-> e]
<1>0. /\ totalVE \in Nat /\ survived \in Seq(SurvivedMutants)
      /\ mut \in Mutants /\ Nil \notin Nat /\ (e = Nil \/ e \in Nat \ {0})
  BY BoundsAssumption
     DEF FileInv, TypeOK, ResultTypes, Placed, ValgrindCounts, Surviving
<1>1. /\ nonTrivial' = nonTrivial /\ survived' = Append(survived, entry)
      /\ totalVE' = IF e = Nil THEN totalVE ELSE totalVE + e
  BY DEF RecordSurvived
<1>2. totalVE' \in Nat /\ totalVE' >= totalVE /\ (e # Nil => totalVE' > 0)
  BY <1>0, <1>1
<1>3. \A i \in DOMAIN survived' : survived'[i].errors # Nil => totalVE' > 0
  <2>1. \A i \in DOMAIN survived : survived[i].errors # Nil => totalVE' > 0
    BY <1>0, <1>2 DEF ErrorsTotalled
  <2>2. entry \in SurvivedMutants /\ entry.errors = e
    BY <1>0 DEF SurvivedMutants, ValgrindErrorCounts
  <2> HIDE DEF entry
  <2>3. /\ DOMAIN survived = 1..Len(survived) /\ Len(survived) \in Nat
        /\ DOMAIN survived' = 1..(Len(survived) + 1)
        /\ \A i \in DOMAIN survived : survived'[i] = survived[i]
        /\ survived'[Len(survived) + 1] = entry
    BY <1>0, <1>1, <2>2
  <2>4. \A i \in DOMAIN survived' : i \in DOMAIN survived \/ i = Len(survived) + 1
    BY <2>3
  <2> QED
    BY <1>2, <2>1, <2>2, <2>3, <2>4, Zenon
<1>4. /\ fom'["mutant_kill_count"] = fom["mutant_kill_count"]
      /\ fom'["killed_SD"] = fom["killed_SD"]
      /\ fom'["killed_WD_causedValgrindErrors"] = fom["killed_WD_causedValgrindErrors"]
  BY ClassFrame
<1>5. /\ fom["mutant_kill_count"] \in Nat /\ fom["survived_SD"] \in Nat /\ fom["survived_WD"] \in Nat
  BY TallyTypes
<1>6. totalVE' > 0 => fom'["mutant_kill_count"] + fom'["survived_SD"] + fom'["survived_WD"] > 0
  <2>1. CASE e = Nil
    <3>1. PICK a, b, c, x \in 0..1 : fom'["survived_SD"] = fom["survived_SD"] + a
                                  /\ fom'["survived_WD"] = fom["survived_WD"] + (b + c)
      BY SurvivedClass
    <3>2. fom'["survived_SD"] \in Nat /\ fom'["survived_SD"] >= fom["survived_SD"]
      BY <1>5, <3>1
    <3>3. fom'["survived_WD"] \in Nat /\ fom'["survived_WD"] >= fom["survived_WD"]
      BY <1>5, <3>1
    <3>4. totalVE > 0 => fom["mutant_kill_count"] + fom["survived_SD"] + fom["survived_WD"] > 0
      BY DEF ErrorsTotalled
    <3> QED
      BY <1>1, <1>4, <1>5, <2>1, <3>2, <3>3, <3>4
  <2>2. CASE e # Nil
    <3>1. Increment(DamageClass("survived", TRUE, dev > 0))
      BY <1>0, <2>2, Zenon DEF RecordSurvived
    <3>2. CASE dev > 0
      <4>1. Increment({"survived_SD"})
        BY <3>1, <3>2 DEF DamageClass
      <4>2. fom'["survived_SD"] = fom["survived_SD"] + 1 /\ fom'["survived_WD"] = fom["survived_WD"]
        BY <4>1, CounterNames DEF Increment
      <4> QED
        BY <1>4, <1>5, <4>2
    <3>3. CASE ~(dev > 0)
      <4>1. Increment({"survived_WD", "survived_WD_causedValgrindErrors"})
        BY <3>1, <3>3 DEF DamageClass
      <4>2. fom'["survived_SD"] = fom["survived_SD"] /\ fom'["survived_WD"] = fom["survived_WD"] + 1
        BY <4>1, CounterNames DEF Increment
      <4> QED
        BY <1>4, <1>5, <4>2
    <3> QED
      BY <3>2, <3>3
  <2> QED
    BY <2>1, <2>2
<1>7. \A i \in DOMAIN nonTrivial' : nonTrivial'[i].errors # Nil => totalVE' > 0
  BY <1>0, <1>1, <1>2 DEF ErrorsTotalled
<1>8. totalVE' = 0 => fom'["killed_SD"] = 0 /\ fom'["killed_WD_causedValgrindErrors"] = 0
  BY <1>0, <1>2, <1>4 DEF ErrorsTotalled
<1> QED
  BY <1>3, <1>6, <1>7, <1>8 DEF ErrorsTotalled

\* If the unmutated program has no Valgrind errors, calculate_average_damage
\* never divides by zero, and the classes of mutants that "Caused Valgrind
\* errors" fit the errors that were added up.
THEOREM DamageIsDefined == PUTValgrindErrors = 0 => (Spec => []DamageDefined)
<1> SUFFICES ASSUME PUTValgrindErrors = 0 PROVE Spec => []DamageDefined
  OBVIOUS
<1>1. Init => ErrorsTotalled
  BY CounterNames DEF Init, ErrorsTotalled
<1>2. ASSUME FileInv, TalliesAgree, ErrorsTotalled, [Next]_vars
      PROVE  ErrorsTotalled'
  <2>0. /\ fom["mutant_kill_count"] \in Nat /\ fom["survived_SD"] \in Nat
        /\ fom["survived_WD"] \in Nat
    BY <1>2, TallyTypes
  <2>1. CASE \E s \in Sources : StartSource(s)
    BY <2>1, CounterNames DEF StartSource, ErrorsTotalled
  <2>2. CASE \/ (\E m \in Mutants : InjectMutant(m)) \/ MakeFailed \/ MakeTimeout
             \/ EvaluateTests
    <3>1. UNCHANGED <<survived, nonTrivial, totalVE>> /\ pc' # "crashed"
      BY <2>2 DEF InjectMutant, MakeFailed, MakeTimeout, RecordFailedInjection, EvaluateTests,
            arrays
    <3>2. /\ fom'["killed_SD"] = fom["killed_SD"]
          /\ fom'["killed_WD_causedValgrindErrors"] = fom["killed_WD_causedValgrindErrors"]
          /\ fom'["survived_SD"] = fom["survived_SD"]
          /\ fom'["survived_WD"] = fom["survived_WD"]
          /\ fom'["mutant_kill_count"] \in {fom["mutant_kill_count"], fom["mutant_kill_count"] + 1}
      <4>1. PICK incs \in SUBSET {"total_mutants", "mutant_kill_count", "failed_injection",
                             "caused_CFG_deviation", "survived_caused_CFG_deviation"} :
                Increment(incs)
        <5>1. CASE \E m \in Mutants : InjectMutant(m)
          <6>1. Increment({"total_mutants"})
            BY <5>1 DEF InjectMutant
          <6> QED
            BY <6>1
        <5>2. CASE MakeFailed \/ MakeTimeout
          <6>1. Increment({"mutant_kill_count", "failed_injection"})
            BY <5>2 DEF MakeFailed, MakeTimeout, RecordFailedInjection
          <6> QED
            BY <6>1
        <5>3. CASE EvaluateTests
          <6>1. PICK d \in 0..1 :
                  \/ Increment({"mutant_kill_count"} \cup
                               IF d > 0 THEN {"caused_CFG_deviation"} ELSE {})
                  \/ Increment(IF d > 0 THEN {"caused_CFG_deviation",
                                              "survived_caused_CFG_deviation"} ELSE {})
            BY <5>3, Zenon DEF EvaluateTests
          <6> QED
            BY <6>1
        <5> QED
          BY <2>2, <5>1, <5>2, <5>3
      <4> QED
        BY <4>1, CounterNames DEF Increment
    <3> QED
      BY <1>2, <2>0, <3>1, <3>2 DEF ErrorsTotalled
  <2>3. CASE EvaluateValgrind
    <3>1. pc = "valgrind" /\ pc' = "readdir"
      BY <2>3 DEF EvaluateValgrind
    <3>2. PICK e \in ValgrindCounts : IF Killed THEN RecordKilled(e) ELSE RecordSurvived(e)
      BY <2>3 DEF EvaluateValgrind, Killed
    <3>3. CASE Killed
      BY <1>2, <3>1, <3>2, <3>3, KilledTotalled DEF Dying
    <3>4. CASE ~Killed
      BY <1>2, <3>1, <3>2, <3>4, SurvivedTotalled DEF Surviving
    <3> QED
      BY <3>3, <3>4
  <2>4. CASE FinishSource \/ Finish
    <3>1. UNCHANGED <<survived, nonTrivial, totalVE, fom>>
      BY <2>4 DEF FinishSource, Finish, result, arrays
    <3>2. ~DividesByZero
      BY <1>2 DEF DividesByZero, ErrorsTotalled
    <3>3. pc' # "crashed"
      BY <2>4, <3>2 DEF FinishSource, Finish
    <3> QED
      BY <1>2, <3>1, <3>3 DEF ErrorsTotalled
  <2>5. CASE (\E m \in Mutants : TestProcess(m)) \/ Terminated \/ UNCHANGED vars
    <3>1. UNCHANGED <<pc, survived, nonTrivial, totalVE, fom>>
      BY <2>5, Zenon DEF TestProcess, BuildSucceeds, BuildFails, SuitePasses, SuiteFails,
            SuiteCrashes, ReadKillCount, TruncateReport, WriteReport, Terminated,
            vars, control, locals, result, arrays
    <3> QED
      BY <1>2, <3>1, Zenon DEF ErrorsTotalled
  <2> QED
    BY <1>2, <2>1, <2>2, <2>3, <2>4, <2>5 DEF Next, Controller
<1> QED
  BY <1>1, <1>2, DamageFits, FileInvariant, Tallies, PTL DEF Spec
=============================================================================
