------------------------ MODULE FOMEvaluationProofs ------------------------
(***************************************************************************)
(* Proofs about FOMEvaluation, for every number of sources, mutants, test  *)
(* suites, tests and errors, and with late test programs; and about the    *)
(* protocol over temp_results.log when every test program ends before its  *)
(* make is out of time.                                                    *)
(***************************************************************************)
EXTENDS FOMEvaluation, TLAPS

Active == pc \in {"readdir", "make", "valgrind"}

\* While a source is open it is known, its backup is the original, it is still
\* the original itself if no mutant was counted, and the mutant under
\* evaluation is known.
Placed ==
    /\ Active => src \in Sources /\ backup[src] = Original
    /\ Active /\ fom["total_mutants"] = 0 => target[src] = Original
    /\ pc \in {"make", "valgrind"} => mut \in Mutants

\* Type correctness needs the state of the source files: what is put back at
\* the end of a source is its backup, which must hold the original by then.
FileInv == TypeOK /\ Placed /\ FirstOrderOnly

-----------------------------------------------------------------------------
(* Helpers *)

\* Incrementing keeps every counter a natural number, and changes exactly the
\* given counters.
LEMMA IncrementLemma ==
    ASSUME fom \in [Counters -> Nat], NEW incs, Increment(incs)
    PROVE  /\ fom' \in [Counters -> Nat]
           /\ \A c \in Counters : fom'[c] = IF c \in incs THEN fom[c] + 1 ELSE fom[c]
           /\ fom'["total_mutants"] >= fom["total_mutants"]
<1>1. "total_mutants" \in Counters
  BY DEF Counters
<1> QED
  BY <1>1 DEF Increment

\* Doubling the capacity of an array keeps it positive.
LEMMA GrownLemma ==
    ASSUME NEW size \in Nat, NEW capacity \in Nat \ {0}
    PROVE  Grown(size, capacity) \in Nat \ {0}
  BY DEF Grown

\* The report a suite writes and the count it reads are well formed.
LEMMA ReportLemma ==
    ASSUME NEW m \in Mutants, NEW r \in Reports, NEW f \in 0..NumTests,
           NEW count \in Nat \cup {-1}
    PROVE  /\ Report(m, count, f) \in Reports
           /\ CountRead(r) \in Nat \cup {-1}
           /\ NoKills \in Reports
           /\ Truncated \in Reports
  BY BoundsAssumption DEF Report, CountRead, Reports, NoKills, Truncated

LEMMA NoProcessLemma == NoProcess \in Processes
  BY BoundsAssumption DEF NoProcess, Processes, ProcStates

LEMMA FileInit == Init => FileInv
<1> SUFFICES ASSUME Init PROVE FileInv
  OBVIOUS
<1>1. TypeOK
  <2>1. ControlTypes
    BY DEF Init, ControlTypes, Reports, NoKills
  <2>2. FileTypes
    BY DEF Init, FileTypes, Reports, NoKills
  <2>3. TestTypes
    BY NoProcessLemma DEF Init, TestTypes, Verdicts
  <2>4. ResultTypes
    BY BoundsAssumption DEF Init, ResultTypes
  <2> QED
    BY <2>1, <2>2, <2>3, <2>4 DEF TypeOK
<1>2. Placed
  BY DEF Init, Placed, Active
<1>3. FirstOrderOnly
  BY DEF Init, FirstOrderOnly
<1> QED
  BY <1>1, <1>2, <1>3 DEF FileInv

-----------------------------------------------------------------------------
(* The invariant on the files is preserved *)

\* What a test program cannot touch keeps its type and its place.
LEMMA TestFrame ==
    ASSUME FileInv, UNCHANGED <<control, locals, isMutate, files, result>>
    PROVE  ControlTypes' /\ ResultTypes' /\ Placed' /\ FirstOrderOnly'
  BY DEF FileInv, TypeOK, ControlTypes, ResultTypes, Placed, Active, FirstOrderOnly,
         control, locals, files, result, arrays

\* The end of a test program leaves well-formed processes and make states.
LEMMA SuiteReturnsLemma ==
    ASSUME NEW m \in Mutants, TestTypes, SuiteReturns(m)
    PROVE  /\ proc' \in [Mutants -> Processes]
           /\ make' \in {"running", "ok", "error", "killed"}
<1>1. CASE MakeAlive(m) /\ proc[m].suite < NumSuites
  <2>1. proc[m].suite + 1 \in 1..NumSuites
    BY <1>1, BoundsAssumption DEF TestTypes, Processes
  <2>2. [NoProcess EXCEPT !.st = "tests", !.suite = proc[m].suite + 1] \in Processes
    <3> DEFINE next == proc[m].suite + 1
    <3> HIDE DEF next
    <3>1. next \in 1..NumSuites
      BY <2>1 DEF next
    <3>2. [NoProcess EXCEPT !.st = "tests", !.suite = next] \in Processes
      BY <3>1, NoProcessLemma, Zenon DEF Processes, ProcStates
    <3> QED
      BY <3>2 DEF next
  <2> QED
    BY <1>1, <2>2 DEF TestTypes, SuiteReturns
<1>2. CASE ~(MakeAlive(m) /\ proc[m].suite < NumSuites)
  BY <1>2, NoProcessLemma DEF TestTypes, SuiteReturns
<1> QED
  BY <1>1, <1>2

\* A step of a test program preserves the invariant.
LEMMA FileTest ==
    ASSUME FileInv, NEW m \in Mutants, TestProcess(m)
    PROVE  FileInv'
<1> USE DEF history
<1>0. TestTypes /\ FileTypes /\ proc[m] \in Processes
  BY DEF FileInv, TypeOK, TestTypes
<1>1. CASE BuildSucceeds(m)
  <2>1. [proc[m] EXCEPT !.st = "tests"] \in Processes
    BY <1>0 DEF Processes, ProcStates
  <2>2. TestTypes' /\ FileTypes'
    BY <1>0, <1>1, <2>1 DEF BuildSucceeds, TestTypes, FileTypes, files
  <2> QED
    BY <1>1, <2>2, TestFrame DEF BuildSucceeds, FileInv, TypeOK
<1>2. CASE BuildFails(m)
  <2>1. TestTypes' /\ FileTypes'
    BY <1>0, <1>2, NoProcessLemma DEF BuildFails, TestTypes, FileTypes, files
  <2> QED
    BY <1>2, <2>1, TestFrame DEF BuildFails, FileInv, TypeOK
<1>3. CASE SuitePasses(m)
  <2>1. TestTypes' /\ FileTypes'
    BY <1>0, <1>3, SuiteReturnsLemma DEF SuitePasses, TestTypes, FileTypes, files
  <2> QED
    BY <1>3, <2>1, TestFrame DEF SuitePasses, FileInv, TypeOK
<1>4. CASE SuiteFails(m)
  <2>1. PICK f \in 1..NumTests :
            proc' = [proc EXCEPT ![m].st = "read", ![m].fails = f]
    BY <1>4, Zenon DEF SuiteFails
  <2>2. [proc[m] EXCEPT !.st = "read", !.fails = f] \in Processes
    <3>1. f \in 0..NumTests
      BY <2>1
    <3> QED
      BY <1>0, <3>1, Zenon DEF Processes, ProcStates
  <2>3. proc' \in [Mutants -> Processes]
    BY <1>0, <2>1, <2>2 DEF TestTypes
  <2>4. TestTypes' /\ FileTypes'
    BY <1>0, <1>4, <2>3 DEF SuiteFails, TestTypes, FileTypes, files
  <2> QED
    BY <1>4, <2>4, TestFrame DEF SuiteFails, FileInv, TypeOK
<1>5. CASE SuiteCrashes(m)
  <2>1. TestTypes' /\ FileTypes'
    BY <1>0, <1>5, NoProcessLemma DEF SuiteCrashes, TestTypes, FileTypes, files
  <2> QED
    BY <1>5, <2>1, TestFrame DEF SuiteCrashes, FileInv, TypeOK
<1>6. CASE ReadKillCount(m)
  <2>1. CountRead(temp) \in Nat \cup {-1}
    BY <1>0, ReportLemma DEF FileTypes, Reports, CountRead
  <2>2. [proc[m] EXCEPT !.st = "truncate", !.count = CountRead(temp)] \in Processes
    BY <1>0, <2>1, Zenon DEF Processes, ProcStates
  <2>3. TestTypes' /\ FileTypes'
    BY <1>0, <1>6, <2>2 DEF ReadKillCount, TestTypes, FileTypes, files
  <2> QED
    BY <1>6, <2>3, TestFrame DEF ReadKillCount, FileInv, TypeOK
<1>7. CASE TruncateReport(m)
  <2>1. [proc[m] EXCEPT !.st = "write"] \in Processes
    BY <1>0 DEF Processes, ProcStates
  <2>2. Truncated \in Reports
    BY DEF Truncated, NoKills, Reports
  <2>3. TestTypes' /\ FileTypes'
    BY <1>0, <1>7, <2>1, <2>2 DEF TruncateReport, TestTypes, FileTypes, files
  <2> QED
    BY <1>7, <2>3, TestFrame DEF TruncateReport, FileInv, TypeOK
<1>8. CASE WriteReport(m)
  <2>1. Report(m, proc[m].count, proc[m].fails) \in Reports
    BY <1>0, BoundsAssumption DEF Report, Reports, Processes
  <2>2. TestTypes' /\ FileTypes'
    BY <1>0, <1>8, <2>1, SuiteReturnsLemma DEF WriteReport, TestTypes, FileTypes, files
  <2> QED
    BY <1>8, <2>2, TestFrame DEF WriteReport, FileInv, TypeOK
<1> QED
  BY <1>1, <1>2, <1>3, <1>4, <1>5, <1>6, <1>7, <1>8 DEF TestProcess

\* A verdict changes neither the source files nor what is known of them.
LEMMA JudgeFrame ==
    ASSUME FileInv, pc = "make" \/ pc = "valgrind",
           pc' = "readdir" \/ pc' = "valgrind",
           fom' \in [Counters -> Nat], fom'["total_mutants"] >= fom["total_mutants"],
           UNCHANGED <<todo, src, pending, mut, files>>
    PROVE  Placed' /\ FirstOrderOnly'
<1>1. fom["total_mutants"] \in Nat /\ fom'["total_mutants"] \in Nat
  BY DEF FileInv, TypeOK, ResultTypes, Counters
<1>2. fom'["total_mutants"] = 0 => fom["total_mutants"] = 0
  BY <1>1
<1> QED
  BY <1>2 DEF FileInv, Placed, Active, FirstOrderOnly, files

\* Both ways to a failed injection preserve the invariant, given what they do
\* to the test programs.
LEMMA FileFailedInjection ==
    ASSUME FileInv, pc = "make", RecordFailedInjection,
           make' \in {"running", "ok", "error", "killed"},
           proc' \in [Mutants -> Processes]
    PROVE  FileInv'
<1>0. TypeOK /\ mut \in Mutants
  BY DEF FileInv, Placed
<1>1. ControlTypes' /\ FileTypes'
  BY <1>0 DEF TypeOK, RecordFailedInjection, ControlTypes, FileTypes, files, locals
<1>2. TestTypes'
  BY <1>0 DEF TypeOK, RecordFailedInjection, TestTypes, Verdicts
<1>3. ResultTypes'
  BY <1>0, IncrementLemma DEF TypeOK, RecordFailedInjection, ResultTypes, arrays
<1>4. Placed' /\ FirstOrderOnly'
  BY <1>0, <1>3, JudgeFrame, IncrementLemma DEF RecordFailedInjection, TypeOK, ResultTypes
<1> QED
  BY <1>1, <1>2, <1>3, <1>4 DEF FileInv, TypeOK

\* The count recorded for a mutant is a number or Nil, and the total stays a
\* number.
LEMMA RecordLemma ==
    ASSUME FileInv, pc = "valgrind", NEW errors \in ValgrindCounts,
           RecordKilled(errors) \/ RecordSurvived(errors),
           UNCHANGED <<ntBuf, svBuf>>
    PROVE  ResultTypes'
<1>0. /\ ResultTypes
      /\ mut \in Mutants
      /\ stats.by \in Mutants \cup {Nil}
      /\ errors \in Nat \cup {Nil}
  BY DEF FileInv, TypeOK, Placed, ControlTypes, Reports, ValgrindCounts
<1>1. CASE RecordKilled(errors)
  <2> DEFINE count == IF errors = Nil THEN Nil ELSE Adjusted(errors)
  <2>1. count \in ValgrindErrorCounts
    BY <1>0, BoundsAssumption DEF Adjusted, ValgrindErrorCounts
  <2>2. fom' \in [Counters -> Nat]
    BY <1>0, <1>1, IncrementLemma DEF RecordKilled, ResultTypes
  <2>3. totalVE' \in Nat
    <3>1. totalVE' = IF count = Nil THEN totalVE ELSE totalVE + count
      BY <1>1 DEF RecordKilled
    <3> QED
      BY <1>0, <2>1, <3>1 DEF ResultTypes, ValgrindErrorCounts
  <2>4. nonTrivial' \in Seq(NonTrivialMutants)
    <3> DEFINE entry == [mutant |-> mut, errors |-> count, by |-> stats.by]
    <3>1. entry \in NonTrivialMutants
      BY <1>0, <2>1 DEF NonTrivialMutants
    <3>2. nonTrivial' = IF NonTrivial THEN Append(nonTrivial, entry) ELSE nonTrivial
      BY <1>1 DEF RecordKilled
    <3> HIDE DEF entry
    <3> QED
      BY <1>0, <3>1, <3>2 DEF ResultTypes
  <2> QED
    BY <1>0, <1>1, <2>2, <2>3, <2>4 DEF RecordKilled, ResultTypes
<1>2. CASE RecordSurvived(errors)
  <2>1. fom' \in [Counters -> Nat]
    BY <1>0, <1>2, IncrementLemma DEF RecordSurvived, ResultTypes
  <2>2. totalVE' \in Nat
    BY <1>0, <1>2 DEF RecordSurvived, ResultTypes
  <2>3. survived' \in Seq(SurvivedMutants)
    <3> DEFINE entry == [mutant |-> mut, errors |-> errors]
    <3>1. entry \in SurvivedMutants
      BY <1>0 DEF SurvivedMutants, ValgrindErrorCounts
    <3>2. survived' = Append(survived, entry)
      BY <1>2 DEF RecordSurvived
    <3> HIDE DEF entry
    <3> QED
      BY <1>0, <3>1, <3>2 DEF ResultTypes
  <2> QED
    BY <1>0, <1>2, <2>1, <2>2, <2>3 DEF RecordSurvived, ResultTypes
<1> QED
  BY <1>1, <1>2

\* A step of the controller preserves the invariant.
LEMMA FileController ==
    ASSUME FileInv, Controller
    PROVE  FileInv'
<1>0. TypeOK /\ Placed /\ FirstOrderOnly
  BY DEF FileInv
<1>1. ASSUME NEW s \in Sources, StartSource(s)
      PROVE  FileInv'
  <2>1. \A t \in Sources : target[t] = Original
    BY <1>0, <1>1 DEF FirstOrderOnly, StartSource
  <2>2. ControlTypes'
    BY <1>0, <1>1, SourcesAssumption DEF TypeOK, StartSource, ControlTypes, locals
  <2>3. FileTypes'
    BY <1>0, <1>1 DEF TypeOK, StartSource, FileTypes, Reports, NoKills
  <2>4. TestTypes' /\ ResultTypes'
    BY <1>0, <1>1, BoundsAssumption DEF TypeOK, StartSource, TestTypes, ResultTypes, tests, history
  <2>5. Placed' /\ FirstOrderOnly'
    BY <1>0, <1>1, <2>1 DEF TypeOK, FileTypes, Placed, Active, StartSource, FirstOrderOnly
  <2> QED
    BY <2>2, <2>3, <2>4, <2>5 DEF FileInv, TypeOK
<1>2. ASSUME NEW m \in Mutants, InjectMutant(m)
      PROVE  FileInv'
  <2>0. src \in Sources
    BY <1>0, <1>2 DEF Placed, Active, InjectMutant
  <2>1. ControlTypes'
    BY <1>0, <1>2 DEF TypeOK, InjectMutant, ControlTypes, FileTypes, Reports
  <2>2. FileTypes'
    BY <1>0, <1>2, <2>0 DEF TypeOK, InjectMutant, FileTypes
  <2>3. TestTypes'
    <3>1. [NoProcess EXCEPT !.st = "build"] \in Processes
      BY NoProcessLemma DEF Processes, ProcStates
    <3> QED
      BY <1>0, <1>2, <3>1 DEF TypeOK, InjectMutant, TestTypes, history
  <2>4. ResultTypes'
    BY <1>0, <1>2, IncrementLemma DEF TypeOK, InjectMutant, ResultTypes, arrays
  <2>5. fom'["total_mutants"] # 0
    <3>1. "total_mutants" \in Counters
      BY DEF Counters
    <3>2. fom'["total_mutants"] = fom["total_mutants"] + 1
      BY <1>0, <1>2, <3>1, IncrementLemma DEF TypeOK, ResultTypes, InjectMutant
    <3> QED
      BY <1>0, <3>1, <3>2 DEF TypeOK, ResultTypes
  <2>6. Placed' /\ FirstOrderOnly'
    BY <1>0, <1>2, <2>0, <2>5 DEF TypeOK, FileTypes, Placed, Active, InjectMutant, FirstOrderOnly
  <2> QED
    BY <2>1, <2>2, <2>3, <2>4, <2>6 DEF FileInv, TypeOK
<1>3. CASE MakeFailed
  BY <1>0, <1>3, FileFailedInjection DEF MakeFailed, tests, TypeOK, TestTypes
<1>4. CASE MakeTimeout
  <2>1. mut \in Mutants /\ proc[mut] \in Processes
    BY <1>0, <1>4 DEF Placed, MakeTimeout, TypeOK, TestTypes
  <2>2. proc' \in [Mutants -> Processes]
    BY <1>0, <1>4, <2>1, NoProcessLemma DEF MakeTimeout, TypeOK, TestTypes
  <2> QED
    BY <1>0, <1>4, <2>2, FileFailedInjection DEF MakeTimeout
<1>5. CASE EvaluateTests
  <2>0. mut \in Mutants /\ pc = "make" /\ pc' = "valgrind"
    BY <1>0, <1>5 DEF Placed, EvaluateTests
  <2>1. ControlTypes' /\ FileTypes'
    BY <1>0, <1>5 DEF TypeOK, EvaluateTests, ControlTypes, FileTypes, files, ValgrindIsMutate
  <2>2. TestTypes'
    BY <1>0, <1>5, <2>0 DEF TypeOK, EvaluateTests, TestTypes, tests, Verdicts
  <2>3. ResultTypes'
    <3>1. temp.kills \in Nat /\ Len(survived) \in Nat
      BY <1>0 DEF TypeOK, FileTypes, Reports, ResultTypes
    <3>2. fom' \in [Counters -> Nat]
      BY <1>0, <1>5, IncrementLemma DEF TypeOK, EvaluateTests, ResultTypes
    <3>3. ntBuf' \in Nat \ {0} /\ svBuf' \in Nat \ {0}
      BY <1>0, <1>5, <3>1, GrownLemma, Zenon DEF TypeOK, EvaluateTests, ResultTypes
    <3> QED
      BY <1>0, <1>5, <3>2, <3>3 DEF TypeOK, EvaluateTests, ResultTypes
  <2>4. Placed' /\ FirstOrderOnly'
    <3>1. fom'["total_mutants"] >= fom["total_mutants"]
      BY <1>0, <1>5, IncrementLemma DEF EvaluateTests, TypeOK, ResultTypes
    <3> QED
      BY <1>5, <2>0, <2>3, <3>1, JudgeFrame DEF EvaluateTests, ResultTypes
  <2> QED
    BY <2>1, <2>2, <2>3, <2>4 DEF FileInv, TypeOK
<1>6. CASE EvaluateValgrind
  <2>0. mut \in Mutants /\ pc = "valgrind" /\ pc' = "readdir"
    BY <1>0, <1>6 DEF Placed, EvaluateValgrind
  <2>1. ControlTypes'
    BY <1>0, <1>6 DEF TypeOK, EvaluateValgrind, ControlTypes, locals
  <2>2. FileTypes'
    <3>1. Report(mut, CountRead(temp), NumTests) \in Reports
      BY <1>0, <2>0, BoundsAssumption DEF TypeOK, FileTypes, Report, CountRead, Reports
    <3> QED
      BY <1>0, <1>6, <3>1 DEF TypeOK, EvaluateValgrind, FileTypes, files
  <2>3. TestTypes'
    BY <1>0, <1>6 DEF TypeOK, EvaluateValgrind, TestTypes, tests, history
  <2>4. ResultTypes'
    BY <1>6, <2>0, RecordLemma DEF EvaluateValgrind
  <2>5. Placed' /\ FirstOrderOnly'
    <3>1. fom'["total_mutants"] >= fom["total_mutants"]
      BY <1>0, <1>6, IncrementLemma
         DEF EvaluateValgrind, RecordKilled, RecordSurvived, TypeOK, ResultTypes
    <3> QED
      BY <1>6, <2>0, <2>4, <3>1, JudgeFrame DEF EvaluateValgrind, ResultTypes
  <2> QED
    BY <2>1, <2>2, <2>3, <2>4, <2>5 DEF FileInv, TypeOK
<1>7. CASE FinishSource
  <2>0. src \in Sources /\ backup[src] = Original
    BY <1>0, <1>7 DEF Placed, Active, FinishSource
  <2>1. ControlTypes'
    BY <1>0, <1>7 DEF TypeOK, FinishSource, ControlTypes, locals
  <2>2. FileTypes'
    BY <1>0, <1>7, <2>0 DEF TypeOK, FinishSource, FileTypes
  <2>3. TestTypes' /\ ResultTypes'
    BY <1>0, <1>7 DEF TypeOK, FinishSource, TestTypes, ResultTypes, tests, history, result, arrays
  <2>4. Placed' /\ FirstOrderOnly'
    <3>1. fom["total_mutants"] \in Nat
      BY <1>0 DEF TypeOK, ResultTypes, Counters
    <3>2. target'[src] = Original
      BY <1>0, <1>7, <2>0, <3>1 DEF TypeOK, FileTypes, FinishSource, Placed, Active
    <3>3. \A t \in Sources \ {src} : target'[t] = Original
      BY <1>0, <1>7, <2>0 DEF TypeOK, FileTypes, FinishSource, FirstOrderOnly
    <3> QED
      BY <1>7, <3>2, <3>3 DEF Placed, Active, FinishSource, FirstOrderOnly
  <2> QED
    BY <2>1, <2>2, <2>3, <2>4 DEF FileInv, TypeOK
<1>8. CASE Finish
  <2>1. ControlTypes' /\ FileTypes'
    BY <1>0, <1>8 DEF TypeOK, Finish, ControlTypes, FileTypes, locals, files
  <2>2. TestTypes' /\ ResultTypes'
    BY <1>0, <1>8 DEF TypeOK, Finish, TestTypes, ResultTypes, tests, history, result, arrays
  <2>3. Placed' /\ FirstOrderOnly'
    BY <1>0, <1>8 DEF Placed, Active, Finish, FirstOrderOnly, files
  <2> QED
    BY <2>1, <2>2, <2>3 DEF FileInv, TypeOK
<1> QED
  BY <1>1, <1>2, <1>3, <1>4, <1>5, <1>6, <1>7, <1>8 DEF Controller

\* The invariant on types and files holds in every reachable state.
LEMMA FileInvariant == Spec => []FileInv
<1>1. FileInv /\ [Next]_vars => FileInv'
  <2> SUFFICES ASSUME FileInv, [Next]_vars PROVE FileInv'
    OBVIOUS
  <2>1. CASE Controller
    BY <2>1, FileController
  <2>2. ASSUME NEW m \in Mutants, TestProcess(m) PROVE FileInv'
    BY <2>2, FileTest
  <2>3. CASE UNCHANGED vars
    BY <2>3 DEF vars, control, locals, files, tests, result, arrays, history, FileInv,
           TypeOK, ControlTypes, FileTypes, TestTypes, ResultTypes, Placed, Active,
           FirstOrderOnly
  <2> QED
    BY <2>1, <2>2, <2>3 DEF Next, Terminated
<1> QED
  BY FileInit, <1>1, PTL DEF Spec

\* Every variable of the evaluation keeps its type, for any interleaving of the
\* controller with the test programs it lost track of.
THEOREM TypeCorrect == Spec => []TypeOK
<1>1. FileInv => TypeOK
  BY DEF FileInv
<1> QED
  BY FileInvariant, <1>1, PTL

\* Mutants stay first-order: make never sees two mutated sources, and a source
\* that was finished, or that the program stopped behind, is the original again.
THEOREM FirstOrder == Spec => []FirstOrderOnly
<1>1. FileInv => FirstOrderOnly
  BY DEF FileInv
<1> QED
  BY FileInvariant, <1>1, PTL

-----------------------------------------------------------------------------
(* The tallies *)

\* TalliesAgree is inductive together with the types.
TallyInv == FileInv /\ TalliesAgree

LEMMA CounterNames ==
    /\ "total_mutants" \in Counters
    /\ "mutant_kill_count" \in Counters
    /\ "failed_injection" \in Counters
    /\ "caused_CFG_deviation" \in Counters
    /\ "survived_caused_CFG_deviation" \in Counters
    /\ "equivalent_mutants" \in Counters
    /\ "survived_SD" \in Counters
    /\ "survived_WD" \in Counters
    /\ "survived_WD_causedValgrindErrors" \in Counters
    /\ "survived_WD_caused_CFG_deviation" \in Counters
    /\ "killed_SD" \in Counters
    /\ "killed_WD" \in Counters
    /\ "killed_WD_causedValgrindErrors" \in Counters
    /\ "killed_WD_caused_CFG_deviation" \in Counters
    /\ "dumb_mutants" \in Counters
  BY DEF Counters

\* The types the arithmetic of the tallies rests on.
LEMMA TallyTypes ==
    ASSUME FileInv
    PROVE  /\ fom \in [Counters -> Nat]
           /\ Len(survived) \in Nat
           /\ Len(nonTrivial) \in Nat
           /\ dev \in 0..1
           /\ fom["total_mutants"] \in Nat
           /\ fom["mutant_kill_count"] \in Nat
           /\ fom["failed_injection"] \in Nat
           /\ fom["caused_CFG_deviation"] \in Nat
           /\ fom["survived_caused_CFG_deviation"] \in Nat
           /\ fom["equivalent_mutants"] \in Nat
           /\ fom["survived_SD"] \in Nat
           /\ fom["survived_WD"] \in Nat
           /\ fom["survived_WD_causedValgrindErrors"] \in Nat
           /\ fom["survived_WD_caused_CFG_deviation"] \in Nat
           /\ fom["killed_SD"] \in Nat
           /\ fom["killed_WD"] \in Nat
           /\ fom["killed_WD_causedValgrindErrors"] \in Nat
           /\ fom["killed_WD_caused_CFG_deviation"] \in Nat
           /\ fom["dumb_mutants"] \in Nat
  BY CounterNames, SMTT(20) DEF FileInv, TypeOK, ResultTypes, ControlTypes

\* A step that leaves the controller and the results alone leaves the tallies.
LEMMA TallyFrame ==
    ASSUME TalliesAgree, UNCHANGED <<pc, prev, stats, dev, fom, nonTrivial, survived>>
    PROVE  TalliesAgree'
  BY DEF TalliesAgree, EveryMutantCounted, SurvivorsPartitioned, WeakSurvivorsSplit,
         WeakKillsSplit, KillsCoverDamage, KillsCoverTriviality,
         SurvivorDeviationsClassified, DeviationsClassified,
         Unjudged, UnclassifiedKill, SurvivorDeviation,
         KillDeviation, Surviving, Dying, Killed, KilledByTests

LEMMA TallyInit == Init => TalliesAgree
  BY CounterNames
     DEF Init, TalliesAgree, EveryMutantCounted, SurvivorsPartitioned, WeakSurvivorsSplit,
         WeakKillsSplit, KillsCoverDamage, KillsCoverTriviality,
         SurvivorDeviationsClassified, DeviationsClassified,
         Unjudged, UnclassifiedKill, SurvivorDeviation,
         KillDeviation, Surviving, Dying

\* Outside of make and Valgrind no mutant is under way.
LEMMA NothingUnderWay ==
    ASSUME pc \notin {"make", "valgrind"}
    PROVE  Unjudged = 0 /\ UnclassifiedKill = 0 /\ SurvivorDeviation = 0 /\ KillDeviation = 0
  BY DEF Unjudged, UnclassifiedKill, SurvivorDeviation,
         KillDeviation, Surviving, Dying

\* A mutant is injected: one more to judge.
LEMMA TallyInject ==
    ASSUME TallyInv, NEW m \in Mutants, InjectMutant(m)
    PROVE  TalliesAgree'
<1>0. FileInv /\ TalliesAgree
  BY DEF TallyInv
<1>1. /\ Unjudged = 0 /\ UnclassifiedKill = 0 /\ SurvivorDeviation = 0 /\ KillDeviation = 0
      /\ Unjudged' = 1 /\ UnclassifiedKill' = 0 /\ SurvivorDeviation' = 0 /\ KillDeviation' = 0
  BY DEF InjectMutant, Unjudged, UnclassifiedKill, SurvivorDeviation,
         KillDeviation, Surviving, Dying
<1>2. /\ fom'["total_mutants"] = fom["total_mutants"] + 1
      /\ \A c \in Counters \ {"total_mutants"} : fom'[c] = fom[c]
  BY <1>0, TallyTypes, CounterNames DEF InjectMutant, Increment
<1>3. UNCHANGED <<survived, nonTrivial>>
  BY DEF InjectMutant, arrays
<1>4. EveryMutantCounted'
  <2>1. /\ fom["total_mutants"] \in Nat /\ fom["mutant_kill_count"] \in Nat
        /\ Len(survived) \in Nat
    BY <1>0, TallyTypes
  <2>2. fom'["mutant_kill_count"] = fom["mutant_kill_count"]
    BY <1>2, CounterNames
  <2> QED
    BY <1>0, <1>1, <1>2, <1>3, <2>1, <2>2 DEF TalliesAgree, EveryMutantCounted
<1>5. SurvivorsPartitioned' /\ WeakSurvivorsSplit' /\ WeakKillsSplit'
  BY <1>0, <1>2, <1>3, CounterNames
     DEF TalliesAgree, SurvivorsPartitioned, WeakSurvivorsSplit, WeakKillsSplit
<1>6. KillsCoverDamage' /\ KillsCoverTriviality'
  BY <1>0, <1>1, <1>2, <1>3, CounterNames
     DEF TalliesAgree, KillsCoverDamage, KillsCoverTriviality
<1>7. SurvivorDeviationsClassified' /\ DeviationsClassified'
  BY <1>0, <1>1, <1>2, CounterNames
     DEF TalliesAgree, SurvivorDeviationsClassified, DeviationsClassified
<1> QED
  BY <1>4, <1>5, <1>6, <1>7 DEF TalliesAgree

\* A failed injection is a kill, and a mutant no longer under way.
LEMMA TallyFailed ==
    ASSUME TallyInv, pc = "make", RecordFailedInjection
    PROVE  TalliesAgree'
<1>0. FileInv /\ TalliesAgree
  BY DEF TallyInv
<1>1. /\ Unjudged = 1 /\ UnclassifiedKill = 0 /\ SurvivorDeviation = 0 /\ KillDeviation = 0
      /\ Unjudged' = 0 /\ UnclassifiedKill' = 0 /\ SurvivorDeviation' = 0 /\ KillDeviation' = 0
  BY DEF RecordFailedInjection, Unjudged, UnclassifiedKill, SurvivorDeviation,
         KillDeviation, Surviving, Dying
<1>2. \A c \in Counters \ {"mutant_kill_count", "failed_injection"} : fom'[c] = fom[c]
  BY <1>0, TallyTypes DEF RecordFailedInjection, Increment
<1>3. /\ fom'["mutant_kill_count"] = fom["mutant_kill_count"] + 1
      /\ fom'["failed_injection"] = fom["failed_injection"] + 1
  BY <1>0, TallyTypes, CounterNames DEF RecordFailedInjection, Increment
<1>4. UNCHANGED <<survived, nonTrivial>>
  BY DEF RecordFailedInjection, arrays
<1>5. EveryMutantCounted'
  <2>1. /\ fom["total_mutants"] \in Nat /\ fom["mutant_kill_count"] \in Nat
        /\ Len(survived) \in Nat
    BY <1>0, TallyTypes
  <2>2. fom'["total_mutants"] = fom["total_mutants"]
    BY <1>2, CounterNames
  <2> QED
    BY <1>0, <1>1, <1>3, <1>4, <2>1, <2>2 DEF TalliesAgree, EveryMutantCounted
<1>6. SurvivorsPartitioned' /\ WeakSurvivorsSplit' /\ WeakKillsSplit'
  BY <1>0, <1>2, <1>4, CounterNames
     DEF TalliesAgree, SurvivorsPartitioned, WeakSurvivorsSplit, WeakKillsSplit
<1>7. KillsCoverDamage'
  <2>1. /\ fom["failed_injection"] \in Nat /\ fom["mutant_kill_count"] \in Nat
        /\ fom["killed_SD"] \in Nat /\ fom["killed_WD"] \in Nat
    BY <1>0, TallyTypes
  <2>2. fom'["killed_SD"] = fom["killed_SD"] /\ fom'["killed_WD"] = fom["killed_WD"]
    BY <1>2, CounterNames
  <2> QED
    BY <1>0, <1>1, <1>3, <2>1, <2>2 DEF TalliesAgree, KillsCoverDamage
<1>8. KillsCoverTriviality'
  <2>1. /\ fom["failed_injection"] \in Nat /\ fom["mutant_kill_count"] \in Nat
        /\ fom["dumb_mutants"] \in Nat /\ Len(nonTrivial) \in Nat
    BY <1>0, TallyTypes
  <2>2. fom'["dumb_mutants"] = fom["dumb_mutants"]
    BY <1>2, CounterNames
  <2> QED
    BY <1>0, <1>1, <1>3, <1>4, <2>1, <2>2 DEF TalliesAgree, KillsCoverTriviality
<1>9. SurvivorDeviationsClassified' /\ DeviationsClassified'
  BY <1>0, <1>1, <1>2, CounterNames
     DEF TalliesAgree, SurvivorDeviationsClassified, DeviationsClassified
<1> QED
  BY <1>5, <1>6, <1>7, <1>8, <1>9 DEF TalliesAgree

\* The mutant is judged: a kill is counted at once, a survivor not yet, and a
\* deviation is counted in total.
LEMMA TallyTests ==
    ASSUME TallyInv, EvaluateTests
    PROVE  TalliesAgree'
<1>0. FileInv /\ TalliesAgree
  BY DEF TallyInv
<1>1. Unjudged = 1 /\ UnclassifiedKill = 0 /\ SurvivorDeviation = 0 /\ KillDeviation = 0
  BY DEF EvaluateTests, Unjudged, UnclassifiedKill, SurvivorDeviation,
         KillDeviation, Surviving, Dying
<1>2. UNCHANGED <<survived, nonTrivial>> /\ pc' = "valgrind"
  BY DEF EvaluateTests
<1>3. PICK d \in 0..1 :
        /\ dev' = d
        /\ IF KilledByTests(prev, temp.kills)
           THEN Increment({"mutant_kill_count"} \cup
                          IF d > 0 THEN {"caused_CFG_deviation"} ELSE {})
           ELSE Increment(IF d > 0 THEN {"caused_CFG_deviation",
                                         "survived_caused_CFG_deviation"} ELSE {})
  BY Zenon DEF EvaluateTests
<1>4. Killed' <=> KilledByTests(prev, temp.kills)
  BY DEF EvaluateTests, Killed, KilledByTests
<1>5. d = 0 \/ d = 1
  BY <1>3
<1>6. CASE KilledByTests(prev, temp.kills)
  <2>1. Unjudged' = 0 /\ UnclassifiedKill' = 1 /\ SurvivorDeviation' = 0 /\ KillDeviation' = d
    BY <1>2, <1>3, <1>4, <1>5, <1>6 DEF Unjudged, UnclassifiedKill, SurvivorDeviation,
         KillDeviation, Surviving, Dying
  <2>2. /\ \A c \in Counters \ {"mutant_kill_count", "caused_CFG_deviation"} : fom'[c] = fom[c]
        /\ fom'["mutant_kill_count"] = fom["mutant_kill_count"] + 1
    BY <1>0, <1>3, <1>6, TallyTypes, CounterNames DEF Increment
  <2>3. fom'["caused_CFG_deviation"] = fom["caused_CFG_deviation"] + d
    <3>1. CASE d = 0
      BY <1>0, <1>3, <1>6, <3>1, TallyTypes, CounterNames, SMTT(20) DEF Increment
    <3>2. CASE d = 1
      <4>1. Increment({"mutant_kill_count"} \cup {"caused_CFG_deviation"})
        BY <1>3, <1>6, <3>2
      <4> QED
        BY <1>0, <3>2, <4>1, TallyTypes, CounterNames DEF Increment
    <3> QED
      BY <1>5, <3>1, <3>2
  <2>4. EveryMutantCounted'
    <3>1. /\ fom["total_mutants"] \in Nat /\ fom["mutant_kill_count"] \in Nat
          /\ Len(survived) \in Nat
      BY <1>0, TallyTypes
    <3>2. /\ fom'["total_mutants"] = fom["total_mutants"]
          /\ fom'["mutant_kill_count"] = fom["mutant_kill_count"] + 1
      BY <2>2, CounterNames
    <3> QED
      BY <1>0, <1>1, <1>2, <2>1, <3>1, <3>2 DEF TalliesAgree, EveryMutantCounted
  <2>5. SurvivorsPartitioned' /\ WeakSurvivorsSplit' /\ WeakKillsSplit'
    BY <1>0, <1>2, <2>2, CounterNames
       DEF TalliesAgree, SurvivorsPartitioned, WeakSurvivorsSplit, WeakKillsSplit
  <2>6. KillsCoverDamage'
    <3>1. /\ fom["failed_injection"] \in Nat /\ fom["mutant_kill_count"] \in Nat
          /\ fom["killed_SD"] \in Nat /\ fom["killed_WD"] \in Nat
      BY <1>0, TallyTypes
    <3>2. /\ fom'["killed_SD"] = fom["killed_SD"] /\ fom'["killed_WD"] = fom["killed_WD"]
          /\ fom'["failed_injection"] = fom["failed_injection"]
          /\ fom'["mutant_kill_count"] = fom["mutant_kill_count"] + 1
      BY <2>2, CounterNames
    <3> QED
      BY <1>0, <1>1, <2>1, <3>1, <3>2 DEF TalliesAgree, KillsCoverDamage
  <2>7. KillsCoverTriviality'
    <3>1. /\ fom["failed_injection"] \in Nat /\ fom["mutant_kill_count"] \in Nat
          /\ fom["dumb_mutants"] \in Nat /\ Len(nonTrivial) \in Nat
      BY <1>0, TallyTypes
    <3>2. /\ fom'["dumb_mutants"] = fom["dumb_mutants"]
          /\ fom'["failed_injection"] = fom["failed_injection"]
          /\ fom'["mutant_kill_count"] = fom["mutant_kill_count"] + 1
      BY <2>2, CounterNames
    <3> QED
      BY <1>0, <1>1, <1>2, <2>1, <3>1, <3>2 DEF TalliesAgree, KillsCoverTriviality
  <2>8. SurvivorDeviationsClassified'
    BY <1>0, <1>1, <2>1, <2>2, CounterNames DEF TalliesAgree, SurvivorDeviationsClassified
  <2>9. DeviationsClassified'
    <3>1. /\ fom["caused_CFG_deviation"] \in Nat /\ fom["killed_SD"] \in Nat
          /\ fom["survived_caused_CFG_deviation"] \in Nat
          /\ fom["killed_WD_caused_CFG_deviation"] \in Nat
      BY <1>0, TallyTypes
    <3>2. /\ fom'["survived_caused_CFG_deviation"] = fom["survived_caused_CFG_deviation"]
          /\ fom'["killed_SD"] = fom["killed_SD"]
          /\ fom'["killed_WD_caused_CFG_deviation"] = fom["killed_WD_caused_CFG_deviation"]
      BY <2>2, CounterNames
    <3> QED
      BY <1>0, <1>1, <1>5, <2>1, <2>3, <3>1, <3>2 DEF TalliesAgree, DeviationsClassified
  <2> QED
    BY <2>4, <2>5, <2>6, <2>7, <2>8, <2>9 DEF TalliesAgree
<1>7. CASE ~KilledByTests(prev, temp.kills)
  <2>1. Unjudged' = 1 /\ UnclassifiedKill' = 0 /\ SurvivorDeviation' = d /\ KillDeviation' = 0
    BY <1>2, <1>3, <1>4, <1>5, <1>7 DEF Unjudged, UnclassifiedKill, SurvivorDeviation,
         KillDeviation, Surviving, Dying
  <2>2. \A c \in Counters \ {"caused_CFG_deviation", "survived_caused_CFG_deviation"} :
            fom'[c] = fom[c]
    BY <1>0, <1>3, <1>7, TallyTypes, CounterNames DEF Increment
  <2>3. /\ fom'["caused_CFG_deviation"] = fom["caused_CFG_deviation"] + d
        /\ fom'["survived_caused_CFG_deviation"] = fom["survived_caused_CFG_deviation"] + d
    BY <1>0, <1>3, <1>5, <1>7, TallyTypes, CounterNames, SMTT(20) DEF Increment
  <2>4. EveryMutantCounted' /\ SurvivorsPartitioned'
    BY <1>0, <1>1, <1>2, <2>1, <2>2, CounterNames
       DEF TalliesAgree, EveryMutantCounted, SurvivorsPartitioned
  <2>5. WeakSurvivorsSplit' /\ WeakKillsSplit'
    BY <1>0, <2>2, CounterNames DEF TalliesAgree, WeakSurvivorsSplit, WeakKillsSplit
  <2>6. KillsCoverDamage' /\ KillsCoverTriviality'
    BY <1>0, <1>1, <1>2, <2>1, <2>2, CounterNames
       DEF TalliesAgree, KillsCoverDamage, KillsCoverTriviality
  <2>7. SurvivorDeviationsClassified'
    <3>1. /\ fom["survived_caused_CFG_deviation"] \in Nat /\ fom["survived_SD"] \in Nat
          /\ fom["survived_WD_caused_CFG_deviation"] \in Nat
      BY <1>0, TallyTypes
    <3>2. /\ fom'["survived_SD"] = fom["survived_SD"]
          /\ fom'["survived_WD_caused_CFG_deviation"] = fom["survived_WD_caused_CFG_deviation"]
      BY <2>2, CounterNames
    <3> QED
      BY <1>0, <1>1, <1>5, <2>1, <2>3, <3>1, <3>2 DEF TalliesAgree, SurvivorDeviationsClassified
  <2>8. DeviationsClassified'
    <3>1. /\ fom["caused_CFG_deviation"] \in Nat /\ fom["killed_SD"] \in Nat
          /\ fom["survived_caused_CFG_deviation"] \in Nat
          /\ fom["killed_WD_caused_CFG_deviation"] \in Nat
      BY <1>0, TallyTypes
    <3>2. /\ fom'["killed_SD"] = fom["killed_SD"]
          /\ fom'["killed_WD_caused_CFG_deviation"] = fom["killed_WD_caused_CFG_deviation"]
      BY <2>2, CounterNames
    <3> QED
      BY <1>0, <1>1, <1>5, <2>1, <2>3, <3>1, <3>2 DEF TalliesAgree, DeviationsClassified
  <2> QED
    BY <2>4, <2>5, <2>6, <2>7, <2>8 DEF TalliesAgree
<1> QED
  BY <1>6, <1>7

\* The class of a killed mutant: a, b and c are what it adds to the strongly
\* damaging, to the ones with Valgrind errors and to the ones that deviate.
LEMMA KilledClass ==
    ASSUME FileInv, Dying, NEW errors, RecordKilled(errors)
    PROVE  \E a, b, c \in 0..1 :
              /\ a + b + c <= 1
              /\ KillDeviation = a + c
              /\ fom'["killed_SD"] = fom["killed_SD"] + a
              /\ fom'["killed_WD"] = fom["killed_WD"] + (b + c)
              /\ fom'["killed_WD_causedValgrindErrors"]
                    = fom["killed_WD_causedValgrindErrors"] + b
              /\ fom'["killed_WD_caused_CFG_deviation"]
                    = fom["killed_WD_caused_CFG_deviation"] + c
<1> DEFINE count == IF errors = Nil THEN Nil ELSE Adjusted(errors)
           ve    == count # Nil /\ count # PUTValgrindErrors
           dumb  == IF Dumb THEN {"dumb_mutants"} ELSE {}
<1>0. /\ fom["killed_SD"] \in Nat /\ fom["killed_WD"] \in Nat
      /\ fom["killed_WD_causedValgrindErrors"] \in Nat
      /\ fom["killed_WD_caused_CFG_deviation"] \in Nat
  BY TallyTypes
<1>1. Increment(DamageClass("killed", ve, dev > 0) \cup dumb)
  BY DEF RecordKilled
<1> HIDE DEF ve
<1>2. /\ "killed_SD" \notin dumb /\ "killed_WD" \notin dumb
      /\ "killed_WD_causedValgrindErrors" \notin dumb
      /\ "killed_WD_caused_CFG_deviation" \notin dumb
  OBVIOUS
<1> HIDE DEF dumb
<1>3. dev = 0 \/ dev = 1
  BY TallyTypes
<1>4. CASE ve /\ dev > 0
  <2>1. Increment({"killed_SD"} \cup dumb) /\ KillDeviation = 1
    BY <1>1, <1>4 DEF DamageClass, KillDeviation
  <2>2. fom'["killed_SD"] = fom["killed_SD"] + 1
    BY <2>1, <1>2, <1>0, CounterNames DEF Increment
  <2>3. fom'["killed_WD"] = fom["killed_WD"] + 0
    BY <2>1, <1>2, <1>0, CounterNames DEF Increment
  <2>4. fom'["killed_WD_causedValgrindErrors"] = fom["killed_WD_causedValgrindErrors"] + 0
    BY <2>1, <1>2, <1>0, CounterNames DEF Increment
  <2>5. fom'["killed_WD_caused_CFG_deviation"] = fom["killed_WD_caused_CFG_deviation"] + 0
    BY <2>1, <1>2, <1>0, CounterNames DEF Increment
  <2> QED
    BY <2>1, <2>2, <2>3, <2>4, <2>5
<1>5. CASE ve /\ ~(dev > 0)
  <2>1. Increment({"killed_WD", "killed_WD_causedValgrindErrors"} \cup dumb) /\ KillDeviation = 0
    BY <1>1, <1>5 DEF DamageClass, KillDeviation
  <2>2. fom'["killed_SD"] = fom["killed_SD"] + 0
    BY <2>1, <1>2, <1>0, CounterNames DEF Increment
  <2>3. fom'["killed_WD"] = fom["killed_WD"] + 1
    BY <2>1, <1>2, <1>0, CounterNames DEF Increment
  <2>4. fom'["killed_WD_causedValgrindErrors"] = fom["killed_WD_causedValgrindErrors"] + 1
    BY <2>1, <1>2, <1>0, CounterNames DEF Increment
  <2>5. fom'["killed_WD_caused_CFG_deviation"] = fom["killed_WD_caused_CFG_deviation"] + 0
    BY <2>1, <1>2, <1>0, CounterNames DEF Increment
  <2> QED
    BY <2>1, <2>2, <2>3, <2>4, <2>5
<1>6. CASE ~ve /\ dev > 0
  <2>1. Increment({"killed_WD", "killed_WD_caused_CFG_deviation"} \cup dumb) /\ KillDeviation = 1
    BY <1>1, <1>6 DEF DamageClass, KillDeviation
  <2>2. fom'["killed_SD"] = fom["killed_SD"] + 0
    BY <2>1, <1>2, <1>0, CounterNames DEF Increment
  <2>3. fom'["killed_WD"] = fom["killed_WD"] + 1
    BY <2>1, <1>2, <1>0, CounterNames DEF Increment
  <2>4. fom'["killed_WD_causedValgrindErrors"] = fom["killed_WD_causedValgrindErrors"] + 0
    BY <2>1, <1>2, <1>0, CounterNames DEF Increment
  <2>5. fom'["killed_WD_caused_CFG_deviation"] = fom["killed_WD_caused_CFG_deviation"] + 1
    BY <2>1, <1>2, <1>0, CounterNames DEF Increment
  <2> QED
    BY <2>1, <2>2, <2>3, <2>4, <2>5
<1>7. CASE ~ve /\ ~(dev > 0)
  <2>1. Increment({} \cup dumb) /\ KillDeviation = 0
    BY <1>1, <1>7 DEF DamageClass, KillDeviation
  <2>2. fom'["killed_SD"] = fom["killed_SD"] + 0
    BY <2>1, <1>2, <1>0, CounterNames DEF Increment
  <2>3. fom'["killed_WD"] = fom["killed_WD"] + 0
    BY <2>1, <1>2, <1>0, CounterNames DEF Increment
  <2>4. fom'["killed_WD_causedValgrindErrors"] = fom["killed_WD_causedValgrindErrors"] + 0
    BY <2>1, <1>2, <1>0, CounterNames DEF Increment
  <2>5. fom'["killed_WD_caused_CFG_deviation"] = fom["killed_WD_caused_CFG_deviation"] + 0
    BY <2>1, <1>2, <1>0, CounterNames DEF Increment
  <2> QED
    BY <2>1, <2>2, <2>3, <2>4, <2>5
<1> QED
  BY <1>3, <1>4, <1>5, <1>6, <1>7

\* A killed mutant is stored as non-trivial or counted as dumb, or neither.
LEMMA KilledTriviality ==
    ASSUME FileInv, NEW errors, RecordKilled(errors)
    PROVE  \E e, n \in 0..1 :
              /\ e + n <= 1
              /\ fom'["dumb_mutants"] = fom["dumb_mutants"] + e
              /\ Len(nonTrivial') = Len(nonTrivial) + n
<1> DEFINE count == IF errors = Nil THEN Nil ELSE Adjusted(errors)
           ve    == count # Nil /\ count # PUTValgrindErrors
           class == DamageClass("killed", ve, dev > 0)
           entry == [mutant |-> mut, errors |-> count, by |-> stats.by]
<1>1. /\ Increment(class \cup IF Dumb THEN {"dumb_mutants"} ELSE {})
      /\ nonTrivial' = IF NonTrivial THEN Append(nonTrivial, entry) ELSE nonTrivial
  BY DEF RecordKilled
<1>2. "dumb_mutants" \notin class
  BY DEF DamageClass
<1> HIDE DEF class, entry
<1>3. ~(Dumb /\ NonTrivial)
  BY DEF FileInv, TypeOK, ControlTypes, Reports, Dumb, NonTrivial
<1>4. fom'["dumb_mutants"] = fom["dumb_mutants"] + (IF Dumb THEN 1 ELSE 0)
  <2>1. CASE Dumb
    <3>1. Increment(class \cup {"dumb_mutants"})
      BY <1>1, <2>1
    <3> QED
      BY <2>1, <3>1, TallyTypes, CounterNames DEF Increment
  <2>2. CASE ~Dumb
    <3>1. Increment(class \cup {})
      BY <1>1, <2>2
    <3> QED
      BY <1>2, <2>2, <3>1, TallyTypes, CounterNames DEF Increment
  <2> QED
    BY <2>1, <2>2
<1>5. Len(nonTrivial') = Len(nonTrivial) + (IF NonTrivial THEN 1 ELSE 0)
  BY <1>1 DEF FileInv, TypeOK, ResultTypes
<1> QED
  BY <1>3, <1>4, <1>5

\* The class of a survivor: it adds one to exactly one of the strongly damaging
\* (a), the ones with Valgrind errors (b), the ones that deviate (c) and the
\* equivalent ones (e).
LEMMA SurvivedClass ==
    ASSUME FileInv, Surviving, NEW errors, RecordSurvived(errors)
    PROVE  \E a, b, c, e \in 0..1 :
              /\ a + b + c + e = 1
              /\ SurvivorDeviation = a + c
              /\ fom'["survived_SD"] = fom["survived_SD"] + a
              /\ fom'["survived_WD"] = fom["survived_WD"] + (b + c)
              /\ fom'["survived_WD_causedValgrindErrors"]
                    = fom["survived_WD_causedValgrindErrors"] + b
              /\ fom'["survived_WD_caused_CFG_deviation"]
                    = fom["survived_WD_caused_CFG_deviation"] + c
              /\ fom'["equivalent_mutants"] = fom["equivalent_mutants"] + e
<1> DEFINE ve == errors # Nil /\ errors # PUTValgrindErrors
<1>0. /\ fom["survived_SD"] \in Nat /\ fom["survived_WD"] \in Nat
      /\ fom["survived_WD_causedValgrindErrors"] \in Nat
      /\ fom["survived_WD_caused_CFG_deviation"] \in Nat
      /\ fom["equivalent_mutants"] \in Nat
  BY TallyTypes
<1>1. Increment(DamageClass("survived", ve, dev > 0))
  BY DEF RecordSurvived
<1> HIDE DEF ve
<1>2. dev = 0 \/ dev = 1
  BY TallyTypes
<1>3. CASE ve /\ dev > 0
  <2>1. Increment({"survived_SD"}) /\ SurvivorDeviation = 1
    BY <1>1, <1>3 DEF DamageClass, SurvivorDeviation
  <2>2. fom'["survived_SD"] = fom["survived_SD"] + 1
    BY <2>1, <1>0, CounterNames DEF Increment
  <2>3. fom'["survived_WD"] = fom["survived_WD"] + 0
    BY <2>1, <1>0, CounterNames DEF Increment
  <2>4. fom'["survived_WD_causedValgrindErrors"] = fom["survived_WD_causedValgrindErrors"] + 0
    BY <2>1, <1>0, CounterNames DEF Increment
  <2>5. fom'["survived_WD_caused_CFG_deviation"] = fom["survived_WD_caused_CFG_deviation"] + 0
    BY <2>1, <1>0, CounterNames DEF Increment
  <2>6. fom'["equivalent_mutants"] = fom["equivalent_mutants"] + 0
    BY <2>1, <1>0, CounterNames DEF Increment
  <2> QED
    BY <2>1, <2>2, <2>3, <2>4, <2>5, <2>6
<1>4. CASE ve /\ ~(dev > 0)
  <2>1. Increment({"survived_WD", "survived_WD_causedValgrindErrors"}) /\ SurvivorDeviation = 0
    BY <1>1, <1>4 DEF DamageClass, SurvivorDeviation
  <2>2. fom'["survived_SD"] = fom["survived_SD"] + 0
    BY <2>1, <1>0, CounterNames DEF Increment
  <2>3. fom'["survived_WD"] = fom["survived_WD"] + 1
    BY <2>1, <1>0, CounterNames DEF Increment
  <2>4. fom'["survived_WD_causedValgrindErrors"] = fom["survived_WD_causedValgrindErrors"] + 1
    BY <2>1, <1>0, CounterNames DEF Increment
  <2>5. fom'["survived_WD_caused_CFG_deviation"] = fom["survived_WD_caused_CFG_deviation"] + 0
    BY <2>1, <1>0, CounterNames DEF Increment
  <2>6. fom'["equivalent_mutants"] = fom["equivalent_mutants"] + 0
    BY <2>1, <1>0, CounterNames DEF Increment
  <2> QED
    BY <2>1, <2>2, <2>3, <2>4, <2>5, <2>6
<1>5. CASE ~ve /\ dev > 0
  <2>1. Increment({"survived_WD", "survived_WD_caused_CFG_deviation"}) /\ SurvivorDeviation = 1
    BY <1>1, <1>5 DEF DamageClass, SurvivorDeviation
  <2>2. fom'["survived_SD"] = fom["survived_SD"] + 0
    BY <2>1, <1>0, CounterNames DEF Increment
  <2>3. fom'["survived_WD"] = fom["survived_WD"] + 1
    BY <2>1, <1>0, CounterNames DEF Increment
  <2>4. fom'["survived_WD_causedValgrindErrors"] = fom["survived_WD_causedValgrindErrors"] + 0
    BY <2>1, <1>0, CounterNames DEF Increment
  <2>5. fom'["survived_WD_caused_CFG_deviation"] = fom["survived_WD_caused_CFG_deviation"] + 1
    BY <2>1, <1>0, CounterNames DEF Increment
  <2>6. fom'["equivalent_mutants"] = fom["equivalent_mutants"] + 0
    BY <2>1, <1>0, CounterNames DEF Increment
  <2> QED
    BY <2>1, <2>2, <2>3, <2>4, <2>5, <2>6
<1>6. CASE ~ve /\ ~(dev > 0)
  <2>1. Increment({"equivalent_mutants"}) /\ SurvivorDeviation = 0
    BY <1>1, <1>6 DEF DamageClass, SurvivorDeviation
  <2>2. fom'["survived_SD"] = fom["survived_SD"] + 0
    BY <2>1, <1>0, CounterNames DEF Increment
  <2>3. fom'["survived_WD"] = fom["survived_WD"] + 0
    BY <2>1, <1>0, CounterNames DEF Increment
  <2>4. fom'["survived_WD_causedValgrindErrors"] = fom["survived_WD_causedValgrindErrors"] + 0
    BY <2>1, <1>0, CounterNames DEF Increment
  <2>5. fom'["survived_WD_caused_CFG_deviation"] = fom["survived_WD_caused_CFG_deviation"] + 0
    BY <2>1, <1>0, CounterNames DEF Increment
  <2>6. fom'["equivalent_mutants"] = fom["equivalent_mutants"] + 1
    BY <2>1, <1>0, CounterNames DEF Increment
  <2> QED
    BY <2>1, <2>2, <2>3, <2>4, <2>5, <2>6
<1> QED
  BY <1>2, <1>3, <1>4, <1>5, <1>6

\* The counters a classification leaves alone.
LEMMA ClassFrame ==
    ASSUME FileInv, NEW errors
    PROVE  /\ RecordKilled(errors) =>
                 \A c \in {"total_mutants", "mutant_kill_count", "failed_injection",
                           "caused_CFG_deviation", "survived_caused_CFG_deviation",
                           "equivalent_mutants", "survived_SD", "survived_WD",
                           "survived_WD_causedValgrindErrors",
                           "survived_WD_caused_CFG_deviation"} : fom'[c] = fom[c]
           /\ RecordSurvived(errors) =>
                 \A c \in {"total_mutants", "mutant_kill_count", "failed_injection",
                           "caused_CFG_deviation", "survived_caused_CFG_deviation",
                           "killed_SD", "killed_WD", "killed_WD_causedValgrindErrors",
                           "killed_WD_caused_CFG_deviation", "dumb_mutants"} : fom'[c] = fom[c]
<1>1. ASSUME RecordKilled(errors)
      PROVE  \A c \in {"total_mutants", "mutant_kill_count", "failed_injection",
                       "caused_CFG_deviation", "survived_caused_CFG_deviation",
                       "equivalent_mutants", "survived_SD", "survived_WD",
                       "survived_WD_causedValgrindErrors",
                       "survived_WD_caused_CFG_deviation"} : fom'[c] = fom[c]
  <2> DEFINE count == IF errors = Nil THEN Nil ELSE Adjusted(errors)
             ve    == count # Nil /\ count # PUTValgrindErrors
             incs  == DamageClass("killed", ve, dev > 0) \cup
                         IF Dumb THEN {"dumb_mutants"} ELSE {}
  <2>1. Increment(incs)
    BY <1>1 DEF RecordKilled
  <2> HIDE DEF ve
  <2>2. incs \subseteq {"killed_SD", "killed_WD", "killed_WD_causedValgrindErrors",
                        "killed_WD_caused_CFG_deviation", "dumb_mutants"}
    <3>1. CASE ve /\ dev > 0
      BY <3>1 DEF DamageClass
    <3>2. CASE ve /\ ~(dev > 0)
      BY <3>2 DEF DamageClass
    <3>3. CASE ~ve /\ dev > 0
      BY <3>3 DEF DamageClass
    <3>4. CASE ~ve /\ ~(dev > 0)
      BY <3>4 DEF DamageClass
    <3> QED
      BY <3>1, <3>2, <3>3, <3>4
  <2> HIDE DEF incs
  <2> QED
    BY <2>1, <2>2, CounterNames DEF Increment
<1>2. ASSUME RecordSurvived(errors)
      PROVE  \A c \in {"total_mutants", "mutant_kill_count", "failed_injection",
                       "caused_CFG_deviation", "survived_caused_CFG_deviation",
                       "killed_SD", "killed_WD", "killed_WD_causedValgrindErrors",
                       "killed_WD_caused_CFG_deviation", "dumb_mutants"} : fom'[c] = fom[c]
  <2> DEFINE ve   == errors # Nil /\ errors # PUTValgrindErrors
             incs == DamageClass("survived", ve, dev > 0)
  <2>1. Increment(incs)
    BY <1>2 DEF RecordSurvived
  <2> HIDE DEF ve
  <2>2. incs \subseteq {"survived_SD", "survived_WD", "survived_WD_causedValgrindErrors",
                        "survived_WD_caused_CFG_deviation", "equivalent_mutants"}
    <3>1. CASE ve /\ dev > 0
      BY <3>1 DEF DamageClass
    <3>2. CASE ve /\ ~(dev > 0)
      BY <3>2 DEF DamageClass
    <3>3. CASE ~ve /\ dev > 0
      BY <3>3 DEF DamageClass
    <3>4. CASE ~ve /\ ~(dev > 0)
      BY <3>4 DEF DamageClass
    <3> QED
      BY <3>1, <3>2, <3>3, <3>4
  <2> HIDE DEF incs
  <2> QED
    BY <2>1, <2>2, CounterNames DEF Increment
<1> QED
  BY <1>1, <1>2

\* A killed mutant is classified.
LEMMA TallyKilled ==
    ASSUME TallyInv, Dying, NEW errors, RecordKilled(errors), pc' = "readdir"
    PROVE  TalliesAgree'
<1>0. FileInv /\ TalliesAgree
  BY DEF TallyInv
<1>1. /\ Unjudged = 0 /\ UnclassifiedKill = 1 /\ SurvivorDeviation = 0
      /\ Unjudged' = 0 /\ UnclassifiedKill' = 0 /\ SurvivorDeviation' = 0 /\ KillDeviation' = 0
  BY DEF Unjudged, UnclassifiedKill, SurvivorDeviation, KillDeviation, Surviving, Dying
<1>2. PICK a, b, c \in 0..1 :
        /\ a + b + c <= 1
        /\ KillDeviation = a + c
        /\ fom'["killed_SD"] = fom["killed_SD"] + a
        /\ fom'["killed_WD"] = fom["killed_WD"] + (b + c)
        /\ fom'["killed_WD_causedValgrindErrors"] = fom["killed_WD_causedValgrindErrors"] + b
        /\ fom'["killed_WD_caused_CFG_deviation"] = fom["killed_WD_caused_CFG_deviation"] + c
  BY <1>0, KilledClass
<1>3. PICK e, n \in 0..1 :
        /\ e + n <= 1
        /\ fom'["dumb_mutants"] = fom["dumb_mutants"] + e
        /\ Len(nonTrivial') = Len(nonTrivial) + n
  BY <1>0, KilledTriviality
<1>4. /\ fom'["total_mutants"] = fom["total_mutants"]
      /\ fom'["mutant_kill_count"] = fom["mutant_kill_count"]
      /\ fom'["failed_injection"] = fom["failed_injection"]
      /\ fom'["caused_CFG_deviation"] = fom["caused_CFG_deviation"]
      /\ fom'["survived_caused_CFG_deviation"] = fom["survived_caused_CFG_deviation"]
      /\ fom'["equivalent_mutants"] = fom["equivalent_mutants"]
      /\ fom'["survived_SD"] = fom["survived_SD"]
      /\ fom'["survived_WD"] = fom["survived_WD"]
      /\ fom'["survived_WD_causedValgrindErrors"] = fom["survived_WD_causedValgrindErrors"]
      /\ fom'["survived_WD_caused_CFG_deviation"] = fom["survived_WD_caused_CFG_deviation"]
      /\ survived' = survived
  BY <1>0, ClassFrame, Zenon DEF RecordKilled
<1>5. EveryMutantCounted' /\ SurvivorsPartitioned' /\ WeakSurvivorsSplit'
  BY <1>0, <1>1, <1>4, Zenon
     DEF TalliesAgree, EveryMutantCounted, SurvivorsPartitioned, WeakSurvivorsSplit
<1>6. SurvivorDeviationsClassified'
  BY <1>0, <1>1, <1>4 DEF TalliesAgree, SurvivorDeviationsClassified
<1>7. WeakKillsSplit'
  <2>1. /\ fom["killed_WD"] \in Nat
        /\ fom["killed_WD_causedValgrindErrors"] \in Nat
        /\ fom["killed_WD_caused_CFG_deviation"] \in Nat
    BY <1>0, TallyTypes
  <2> QED
    BY <1>0, <1>2, <2>1 DEF TalliesAgree, WeakKillsSplit
<1>8. KillsCoverDamage'
  <2>1. /\ fom["failed_injection"] \in Nat /\ fom["mutant_kill_count"] \in Nat
        /\ fom["killed_SD"] \in Nat /\ fom["killed_WD"] \in Nat
    BY <1>0, TallyTypes
  <2> QED
    BY <1>0, <1>1, <1>2, <1>4, <2>1 DEF TalliesAgree, KillsCoverDamage
<1>9. KillsCoverTriviality'
  <2>1. /\ fom["failed_injection"] \in Nat /\ fom["mutant_kill_count"] \in Nat
        /\ fom["dumb_mutants"] \in Nat /\ Len(nonTrivial) \in Nat
    BY <1>0, TallyTypes
  <2> QED
    BY <1>0, <1>1, <1>3, <1>4, <2>1 DEF TalliesAgree, KillsCoverTriviality
<1>10. DeviationsClassified'
  <2>1. /\ fom["caused_CFG_deviation"] \in Nat /\ fom["killed_SD"] \in Nat
        /\ fom["survived_caused_CFG_deviation"] \in Nat
        /\ fom["killed_WD_caused_CFG_deviation"] \in Nat
    BY <1>0, TallyTypes
  <2> QED
    BY <1>0, <1>1, <1>2, <1>4, <2>1 DEF TalliesAgree, DeviationsClassified
<1> QED
  BY <1>5, <1>6, <1>7, <1>8, <1>9, <1>10 DEF TalliesAgree

\* Arithmetic: one more survivor, in exactly one class.
LEMMA OneClassMore ==
    ASSUME NEW n \in Nat, NEW x \in Nat, NEW y \in Nat, NEW z \in Nat,
           NEW a \in Nat, NEW b \in Nat, NEW c \in Nat, NEW e \in Nat,
           n = x + y + z, a + b + c + e = 1
    PROVE  n + 1 = (x + e) + (y + a) + (z + (b + c))
  OBVIOUS

\* A survivor is classified and stored.
LEMMA TallySurvived ==
    ASSUME TallyInv, Surviving, NEW errors, RecordSurvived(errors), pc' = "readdir"
    PROVE  TalliesAgree'
<1>0. FileInv /\ TalliesAgree
  BY DEF TallyInv
<1>1. /\ Unjudged = 1 /\ UnclassifiedKill = 0 /\ KillDeviation = 0
      /\ Unjudged' = 0 /\ UnclassifiedKill' = 0 /\ SurvivorDeviation' = 0 /\ KillDeviation' = 0
  BY DEF Unjudged, UnclassifiedKill, SurvivorDeviation, KillDeviation, Surviving, Dying
<1>2. PICK a, b, c, e \in 0..1 :
        /\ a + b + c + e = 1
        /\ SurvivorDeviation = a + c
        /\ fom'["survived_SD"] = fom["survived_SD"] + a
        /\ fom'["survived_WD"] = fom["survived_WD"] + (b + c)
        /\ fom'["survived_WD_causedValgrindErrors"] = fom["survived_WD_causedValgrindErrors"] + b
        /\ fom'["survived_WD_caused_CFG_deviation"] = fom["survived_WD_caused_CFG_deviation"] + c
        /\ fom'["equivalent_mutants"] = fom["equivalent_mutants"] + e
  BY <1>0, SurvivedClass
<1>3. Len(survived') = Len(survived) + 1 /\ nonTrivial' = nonTrivial
  BY <1>0 DEF RecordSurvived, FileInv, TypeOK, ResultTypes
<1>4. /\ fom'["total_mutants"] = fom["total_mutants"]
      /\ fom'["mutant_kill_count"] = fom["mutant_kill_count"]
      /\ fom'["failed_injection"] = fom["failed_injection"]
      /\ fom'["caused_CFG_deviation"] = fom["caused_CFG_deviation"]
      /\ fom'["survived_caused_CFG_deviation"] = fom["survived_caused_CFG_deviation"]
      /\ fom'["killed_SD"] = fom["killed_SD"]
      /\ fom'["killed_WD"] = fom["killed_WD"]
      /\ fom'["killed_WD_causedValgrindErrors"] = fom["killed_WD_causedValgrindErrors"]
      /\ fom'["killed_WD_caused_CFG_deviation"] = fom["killed_WD_caused_CFG_deviation"]
      /\ fom'["dumb_mutants"] = fom["dumb_mutants"]
  BY <1>0, ClassFrame
<1>5. WeakKillsSplit' /\ KillsCoverDamage' /\ KillsCoverTriviality' /\ DeviationsClassified'
  BY <1>0, <1>1, <1>3, <1>4
     DEF TalliesAgree, WeakKillsSplit, KillsCoverDamage, KillsCoverTriviality,
         DeviationsClassified
<1>6. EveryMutantCounted'
  <2>1. /\ fom["total_mutants"] \in Nat /\ fom["mutant_kill_count"] \in Nat
        /\ Len(survived) \in Nat
    BY <1>0, TallyTypes
  <2> QED
    BY <1>0, <1>1, <1>3, <1>4, <2>1 DEF TalliesAgree, EveryMutantCounted
<1>7. SurvivorsPartitioned'
  <2> DEFINE n == Len(survived)
             x == fom["equivalent_mutants"]
             y == fom["survived_SD"]
             z == fom["survived_WD"]
  <2>1. n \in Nat /\ x \in Nat /\ y \in Nat /\ z \in Nat
    BY <1>0, TallyTypes
  <2>2. n = x + y + z
    BY <1>0 DEF TalliesAgree, SurvivorsPartitioned
  <2>3. a \in Nat /\ b \in Nat /\ c \in Nat /\ e \in Nat /\ a + b + c + e = 1
    BY <1>2
  <2>4. /\ Len(survived') = n + 1 /\ fom'["equivalent_mutants"] = x + e
        /\ fom'["survived_SD"] = y + a /\ fom'["survived_WD"] = z + (b + c)
    BY <1>2, <1>3
  <2> HIDE DEF n, x, y, z
  <2>5. n + 1 = (x + e) + (y + a) + (z + (b + c))
    BY <2>1, <2>2, <2>3, OneClassMore
  <2> QED
    BY <2>4, <2>5 DEF SurvivorsPartitioned
<1>8. WeakSurvivorsSplit'
  <2>1. /\ fom["survived_WD"] \in Nat
        /\ fom["survived_WD_causedValgrindErrors"] \in Nat
        /\ fom["survived_WD_caused_CFG_deviation"] \in Nat
    BY <1>0, TallyTypes
  <2> QED
    BY <1>0, <1>2, <2>1 DEF TalliesAgree, WeakSurvivorsSplit
<1>9. SurvivorDeviationsClassified'
  <2>1. /\ fom["survived_caused_CFG_deviation"] \in Nat /\ fom["survived_SD"] \in Nat
        /\ fom["survived_WD_caused_CFG_deviation"] \in Nat
    BY <1>0, TallyTypes
  <2> QED
    BY <1>0, <1>1, <1>2, <1>4, <2>1 DEF TalliesAgree, SurvivorDeviationsClassified
<1> QED
  BY <1>5, <1>6, <1>7, <1>8, <1>9 DEF TalliesAgree

\* The first and the last step of a source file, and the end of the program.
LEMMA TallyBoundary ==
    ASSUME TallyInv,
           (\E s \in Sources : StartSource(s)) \/ FinishSource \/ Finish
    PROVE  TalliesAgree'
<1>0. FileInv /\ TalliesAgree
  BY DEF TallyInv
<1>1. Unjudged = 0 /\ UnclassifiedKill = 0 /\ SurvivorDeviation = 0 /\ KillDeviation = 0
  BY NothingUnderWay DEF StartSource, FinishSource, Finish
<1>2. Unjudged' = 0 /\ UnclassifiedKill' = 0 /\ SurvivorDeviation' = 0 /\ KillDeviation' = 0
  BY DEF StartSource, FinishSource, Finish, Unjudged, UnclassifiedKill, SurvivorDeviation,
         KillDeviation, Surviving, Dying
<1>3. CASE \E s \in Sources : StartSource(s)
  <2>1. \A c \in Counters : fom'[c] = 0
    BY <1>3 DEF StartSource
  <2>2. Len(survived') = 0 /\ Len(nonTrivial') = 0
    BY <1>3 DEF StartSource
  <2> QED
    BY <1>2, <2>1, <2>2, CounterNames
       DEF TalliesAgree, EveryMutantCounted, SurvivorsPartitioned, WeakSurvivorsSplit,
           WeakKillsSplit, KillsCoverDamage, KillsCoverTriviality,
           SurvivorDeviationsClassified, DeviationsClassified
<1>4. CASE FinishSource \/ Finish
  <2>1. UNCHANGED <<fom, survived, nonTrivial>>
    BY <1>4 DEF FinishSource, Finish, result, arrays
  <2> QED
    BY <1>0, <1>1, <1>2, <2>1
       DEF TalliesAgree, EveryMutantCounted, SurvivorsPartitioned, WeakSurvivorsSplit,
           WeakKillsSplit, KillsCoverDamage, KillsCoverTriviality,
           SurvivorDeviationsClassified, DeviationsClassified
<1> QED
  BY <1>3, <1>4

\* The counters of a source file add up after every step, however the test
\* programs, make and Valgrind behave: the report process_source_file prints is
\* consistent for any number of sources, mutants, suites and late finishers.
THEOREM Tallies == Spec => []TalliesAgree
<1>1. Init => TalliesAgree
  BY TallyInit
<1>2. ASSUME FileInv, TalliesAgree, [Next]_vars
      PROVE  TalliesAgree'
  <2>0. TallyInv
    BY <1>2 DEF TallyInv
  <2>1. CASE (\E s \in Sources : StartSource(s)) \/ FinishSource \/ Finish
    BY <2>0, <2>1, TallyBoundary
  <2>2. CASE \E m \in Mutants : InjectMutant(m)
    BY <2>0, <2>2, TallyInject
  <2>3. CASE MakeFailed \/ MakeTimeout
    BY <2>0, <2>3, TallyFailed DEF MakeFailed, MakeTimeout
  <2>4. CASE EvaluateTests
    BY <2>0, <2>4, TallyTests
  <2>5. CASE EvaluateValgrind
    <3>1. pc = "valgrind" /\ pc' = "readdir"
      BY <2>5 DEF EvaluateValgrind
    <3>2. PICK errors \in ValgrindCounts :
             IF KilledByTests(prev, stats.kills)
             THEN RecordKilled(errors)
             ELSE RecordSurvived(errors)
      BY <2>5 DEF EvaluateValgrind
    <3>3. CASE KilledByTests(prev, stats.kills)
      BY <2>0, <3>1, <3>2, <3>3, TallyKilled DEF Dying, Killed
    <3>4. CASE ~KilledByTests(prev, stats.kills)
      BY <2>0, <3>1, <3>2, <3>4, TallySurvived DEF Surviving, Killed
    <3> QED
      BY <3>3, <3>4
  <2>6. CASE (\E m \in Mutants : TestProcess(m)) \/ Terminated \/ UNCHANGED vars
    <3>1. UNCHANGED <<pc, prev, stats, dev, fom, nonTrivial, survived>>
      BY <2>6, Zenon DEF TestProcess, BuildSucceeds, BuildFails, SuitePasses, SuiteFails,
            SuiteCrashes, ReadKillCount, TruncateReport, WriteReport, Terminated,
            vars, control, locals, result, arrays
    <3> QED
      BY <1>2, <3>1, TallyFrame
  <2> QED
    BY <1>2, <2>1, <2>2, <2>3, <2>4, <2>5, <2>6 DEF Next, Controller
<1> QED
  BY <1>1, <1>2, FileInvariant, PTL DEF Spec

-----------------------------------------------------------------------------
(* The array of survivors *)

\* The array is grown only when it already is too long, so a survivor may be
\* stored one slot behind its end; doubling then makes room for that one too.
OneBehind ==
    /\ Len(survived) <= svBuf + 1
    /\ SurvivedOverrunAtMostOne

LEMMA SurvivorStored ==
    ASSUME FileInv, OneBehind, EvaluateValgrind
    PROVE  OneBehind'
<1>0. survived \in Seq(SurvivedMutants) /\ svBuf \in Nat /\ mut \in Mutants
  BY Zenon DEF FileInv, TypeOK, ResultTypes, Placed, EvaluateValgrind
<1>1. pc = "valgrind" /\ pc' = "readdir" /\ svBuf' = svBuf
  BY DEF EvaluateValgrind
<1>2. CASE KilledByTests(prev, stats.kills)
  <2>1. survived' = survived
    BY <1>2 DEF EvaluateValgrind, RecordKilled
  <2> QED
    BY <1>1, <2>1 DEF OneBehind, SurvivedOverrunAtMostOne
<1>3. CASE ~KilledByTests(prev, stats.kills)
  <2>1. Len(survived) <= svBuf
    BY <1>1, <1>3 DEF OneBehind, SurvivedOverrunAtMostOne, Killed
  <2>2. PICK e \in ValgrindCounts : survived' = Append(survived, [mutant |-> mut, errors |-> e])
    BY <1>3 DEF EvaluateValgrind, RecordSurvived
  <2>3. [mutant |-> mut, errors |-> e] \in SurvivedMutants
    BY <1>0 DEF SurvivedMutants, ValgrindErrorCounts, ValgrindCounts
  <2>4. Len(survived') = Len(survived) + 1
    BY <1>0, <2>2, <2>3
  <2>5. Len(survived) \in Nat
    BY <1>0
  <2> QED
    BY <1>0, <1>1, <2>1, <2>4, <2>5 DEF OneBehind, SurvivedOverrunAtMostOne
<1> QED
  BY <1>2, <1>3

\* A survivor is never stored further than one slot behind the end of
\* survived[], for any number of mutants and whatever the tests report: the
\* check in genResultsFOM comes one survivor too late, and no more than one.
THEOREM OneSlotBehind == Spec => []SurvivedOverrunAtMostOne
<1>1. Init => OneBehind
  BY BoundsAssumption DEF Init, OneBehind, SurvivedOverrunAtMostOne
<1>2. ASSUME FileInv, OneBehind, [Next]_vars
      PROVE  OneBehind'
  <2>0. Len(survived) \in Nat /\ svBuf \in Nat \ {0}
    BY <1>2 DEF FileInv, TypeOK, ResultTypes
  <2>1. CASE \E s \in Sources : StartSource(s)
    BY <2>1, BoundsAssumption, SMTT(20) DEF StartSource, OneBehind, SurvivedOverrunAtMostOne
  <2>2. CASE EvaluateTests
    <3>1. CASE KilledByTests(prev, temp.kills)
      <4>1. svBuf' = svBuf /\ survived' = survived /\ prev' = prev /\ stats' = temp
        BY <2>2, <3>1 DEF EvaluateTests
      <4>2. Killed'
        BY <3>1, <4>1 DEF Killed, KilledByTests
      <4> QED
        BY <1>2, <4>1, <4>2 DEF OneBehind, SurvivedOverrunAtMostOne
    <3>2. CASE ~KilledByTests(prev, temp.kills)
      <4>1. svBuf' = Grown(Len(survived), svBuf) /\ survived' = survived
        BY <2>2, <3>2 DEF EvaluateTests
      <4>2. Len(survived') <= svBuf'
        BY <1>2, <2>0, <4>1 DEF Grown, OneBehind
      <4>3. svBuf' \in Nat
        BY <2>0, <4>1 DEF Grown
      <4> QED
        BY <2>0, <4>1, <4>2, <4>3 DEF OneBehind, SurvivedOverrunAtMostOne
    <3> QED
      BY <3>1, <3>2
  <2>3. CASE EvaluateValgrind
    BY <1>2, <2>3, SurvivorStored
  <2>4. CASE \/ (\E m \in Mutants : InjectMutant(m)) \/ MakeFailed \/ MakeTimeout
             \/ FinishSource \/ Finish
    <3>1. UNCHANGED <<survived, svBuf>> /\ pc' # "valgrind"
      BY <2>4 DEF InjectMutant, MakeFailed, MakeTimeout, RecordFailedInjection,
            FinishSource, Finish, arrays, result
    <3> QED
      BY <1>2, <3>1 DEF OneBehind, SurvivedOverrunAtMostOne
  <2>5. CASE (\E m \in Mutants : TestProcess(m)) \/ Terminated \/ UNCHANGED vars
    <3>1. UNCHANGED <<pc, prev, stats, survived, svBuf>>
      BY <2>5, Zenon DEF TestProcess, BuildSucceeds, BuildFails, SuitePasses, SuiteFails,
            SuiteCrashes, ReadKillCount, TruncateReport, WriteReport, Terminated,
            vars, control, locals, result, arrays
    <3> QED
      BY <1>2, <3>1 DEF OneBehind, SurvivedOverrunAtMostOne, Killed
  <2> QED
    BY <1>2, <2>1, <2>2, <2>3, <2>4, <2>5 DEF Next, Controller
<1>3. OneBehind => SurvivedOverrunAtMostOne
  BY DEF OneBehind
<1> QED
  BY <1>1, <1>2, <1>3, FileInvariant, PTL DEF Spec

-----------------------------------------------------------------------------
(* The verdicts, when every test program ends in time *)

\* One suite per make, CuTest, and no test program that outlives its make.
OnTime == NumSuites = 1 /\ LateFinishers = {} /\ Framework = "cutest"

\* Only the make of the mutant under evaluation has a process.
NobodyElse ==
    \A m \in Mutants : proc[m].st # "none" => pc = "make" /\ mut = m /\ make = "running"

\* How far the kill count of the file has got since the controller read it.
CountFollows ==
    pc = "make" =>
        /\ proc[mut].st \in {"build", "tests"} => temp.kills = prev /\ reported[mut] = 0
        /\ proc[mut].st = "read" => temp.kills = prev /\ reported[mut] > 0
        /\ proc[mut].st \in {"truncate", "write"} =>
              proc[mut].count = prev /\ reported[mut] > 0
        /\ make = "ok" /\ reported[mut] = 0 => temp.kills = prev
        /\ make = "ok" /\ reported[mut] > 0 => temp.kills = prev + 1 /\ temp.by = mut

\* The mutants without a verdict are the one make runs for, the ones readdir
\* has not returned, and those of later sources; the last two without a report.
InTurn ==
    /\ Active => src \in todo /\ pending \subseteq MutantsOf[src]
    /\ Active => \A m \in MutantsOf[src] :
          verdict[m] = "none" <=> (m \in pending \/ (pc = "make" /\ m = mut))
    /\ Active => \A m \in pending : reported[m] = 0
    /\ pc \in {"make", "valgrind"} => mut \in MutantsOf[src] /\ mut \notin pending
    /\ \A s \in todo : (Active => s # src) =>
          \A m \in MutantsOf[s] : verdict[m] = "none" /\ reported[m] = 0

\* A mutant is stored with its own tests, after its turn and not before.
StoredInTurn ==
    /\ pc = "valgrind" /\ Killed => stats.by = mut
    /\ KillersAreOwn
    /\ Active => \A i \in DOMAIN nonTrivial :
          /\ nonTrivial[i].mutant \notin pending
          /\ pc \in {"make", "valgrind"} => nonTrivial[i].mutant # mut

VerdictInv == NobodyElse /\ CountFollows /\ InTurn /\ StoredInTurn

LEMMA VerdictInit == Init => VerdictInv
<1> SUFFICES ASSUME Init PROVE VerdictInv
  OBVIOUS
<1>1. NobodyElse /\ CountFollows
  BY DEF Init, NobodyElse, CountFollows, NoProcess
<1>2. InTurn
  BY SourcesAssumption DEF Init, InTurn, Active
<1>3. StoredInTurn
  <2>1. pc = "source" /\ DOMAIN nonTrivial = {}
    BY DEF Init
  <2> QED
    BY <2>1, Zenon DEF StoredInTurn, Active, KillersAreOwn
<1> QED
  BY <1>1, <1>2, <1>3 DEF VerdictInv

\* Who has a process, and whose turn it is.
LEMMA OwnProcess ==
    ASSUME FileInv, VerdictInv, NEW m \in Mutants, proc[m].st # "none"
    PROVE  /\ pc = "make" /\ mut = m /\ make = "running"
           /\ src \in todo /\ src \in Sources /\ todo \subseteq Sources
           /\ m \in MutantsOf[src] /\ m \notin pending /\ verdict[m] = "none"
           /\ \A k \in Mutants \ {m} : proc[k].st = "none"
<1>1. pc = "make" /\ mut = m /\ make = "running"
  BY DEF VerdictInv, NobodyElse
<1>2. src \in todo /\ m \in MutantsOf[src] /\ m \notin pending /\ verdict[m] = "none"
  BY <1>1 DEF VerdictInv, InTurn, Active
<1>3. src \in Sources /\ todo \subseteq Sources
  BY <1>2 DEF FileInv, TypeOK, ControlTypes
<1>4. \A k \in Mutants \ {m} : proc[k].st = "none"
  BY <1>1 DEF VerdictInv, NobodyElse
<1> QED
  BY <1>1, <1>2, <1>3, <1>4

\* The others stay without a process when the one make runs for takes a step.
LEMMA OthersQuiet ==
    ASSUME NEW m \in Mutants, pc' = "make", mut' = m,
           \A k \in Mutants \ {m} : proc[k].st = "none" /\ proc'[k] = proc[k],
           proc'[m].st # "none" => make' = "running"
    PROVE  NobodyElse'
  BY DEF NobodyElse

\* A test program that logs nothing changes no turn.
LEMMA TurnsKept ==
    ASSUME VerdictInv, UNCHANGED <<control, locals, nonTrivial, reported, verdict>>
    PROVE  InTurn' /\ StoredInTurn'
  BY DEF VerdictInv, InTurn, StoredInTurn, Active, KillersAreOwn, Killed, KilledByTests,
         control, locals

\* With one suite per make, a test program that returns ends its make.
LEMMA LastSuite ==
    ASSUME OnTime, FileInv, VerdictInv, NEW m \in Mutants, proc[m].st # "none",
           SuiteReturns(m)
    PROVE  proc' = [proc EXCEPT ![m] = NoProcess] /\ make' = "ok"
<1>1. MakeAlive(m)
  BY OwnProcess DEF MakeAlive
<1>2. ~(proc[m].suite < NumSuites)
  BY DEF OnTime, FileInv, TypeOK, TestTypes, Processes
<1> QED
  BY <1>1, <1>2 DEF SuiteReturns

\* A step of a test program preserves the invariant.
LEMMA VerdictTest ==
    ASSUME OnTime, FileInv, VerdictInv, NEW m \in Mutants, TestProcess(m)
    PROVE  VerdictInv'
<1>0. proc[m].st # "none"
  BY DEF TestProcess, BuildSucceeds, BuildFails, SuitePasses, SuiteFails, SuiteCrashes,
         ReadKillCount, TruncateReport, WriteReport
<1>1. /\ pc = "make" /\ mut = m /\ make = "running"
      /\ src \in todo /\ src \in Sources /\ todo \subseteq Sources
      /\ m \in MutantsOf[src] /\ m \notin pending /\ verdict[m] = "none"
      /\ \A k \in Mutants \ {m} : proc[k].st = "none"
  BY <1>0, OwnProcess
<1>2. /\ proc \in [Mutants -> Processes] /\ proc[m] \in Processes
      /\ reported \in [Mutants -> Nat] /\ reported[m] \in Nat
      /\ prev \in Nat /\ temp.kills \in Nat
  BY DEF FileInv, TypeOK, TestTypes, ControlTypes, FileTypes, Reports
<1>3. /\ UNCHANGED <<control, locals, nonTrivial, verdict>>
      /\ pc' = "make" /\ mut' = m /\ prev' = prev
  BY <1>1 DEF TestProcess, BuildSucceeds, BuildFails, SuitePasses, SuiteFails,
         SuiteCrashes, ReadKillCount, TruncateReport, WriteReport, control, locals,
         result, arrays, history
<1>4. NobodyElse /\ CountFollows
  BY DEF VerdictInv
<1>5. CASE BuildSucceeds(m)
  <2>1. proc' = [proc EXCEPT ![m].st = "tests"] /\ UNCHANGED <<make, temp, reported>>
    BY <1>5 DEF BuildSucceeds, history
  <2>2. proc'[m].st = "tests" /\ \A k \in Mutants \ {m} : proc'[k] = proc[k]
    BY <1>2, <2>1 DEF Processes
  <2>3. NobodyElse'
    BY <1>1, <1>3, <2>1, <2>2, OthersQuiet
  <2>4. CountFollows'
    BY <1>1, <1>3, <1>4, <1>5, <2>1, <2>2 DEF CountFollows, BuildSucceeds
  <2> QED
    BY <1>3, <2>1, <2>3, <2>4, TurnsKept DEF VerdictInv
<1>6. CASE BuildFails(m) \/ SuiteCrashes(m)
  <2>1. /\ proc' = [proc EXCEPT ![m] = NoProcess] /\ make' = "error"
        /\ UNCHANGED <<temp, reported>>
    BY <1>1, <1>6 DEF BuildFails, SuiteCrashes, MakeAlive, history
  <2>2. proc'[m].st = "none" /\ \A k \in Mutants \ {m} : proc'[k] = proc[k]
    BY <1>2, <2>1 DEF NoProcess
  <2>3. NobodyElse'
    BY <1>1, <1>3, <2>1, <2>2, OthersQuiet, Zenon
  <2>4. CountFollows'
    BY <1>3, <2>1, <2>2 DEF CountFollows
  <2> QED
    BY <1>3, <2>1, <2>3, <2>4, TurnsKept DEF VerdictInv
<1>7. CASE SuitePasses(m)
  <2>1. proc' = [proc EXCEPT ![m] = NoProcess] /\ make' = "ok" /\ UNCHANGED <<temp, reported>>
    BY <1>0, <1>7, LastSuite DEF SuitePasses, history
  <2>2. proc'[m].st = "none" /\ \A k \in Mutants \ {m} : proc'[k] = proc[k]
    BY <1>2, <2>1 DEF NoProcess
  <2>3. temp.kills = prev /\ reported[m] = 0
    BY <1>1, <1>4, <1>7 DEF CountFollows, SuitePasses
  <2>4. NobodyElse'
    BY <1>1, <1>3, <2>2, OthersQuiet, Zenon
  <2>5. CountFollows'
    <3>1. temp'.kills = prev' /\ reported'[mut'] = 0 /\ proc'[mut'].st = "none"
      BY <1>3, <2>1, <2>2, <2>3
    <3>2. ~(reported'[mut'] > 0)
      BY <3>1
    <3> QED
      BY <3>1, <3>2, Zenon DEF CountFollows
  <2> QED
    BY <1>3, <2>1, <2>4, <2>5, TurnsKept DEF VerdictInv
<1>8. CASE SuiteFails(m)
  <2>1. PICK f \in 1..NumTests :
            proc' = [proc EXCEPT ![m].st = "read", ![m].fails = f]
    BY <1>8, Zenon DEF SuiteFails
  <2>2. proc'[m].st = "read" /\ \A k \in Mutants \ {m} : proc'[k] = proc[k]
    BY <1>2, <2>1 DEF Processes
  <2>3. UNCHANGED <<make, temp>> /\ reported' = [reported EXCEPT ![m] = @ + 1]
    BY <1>8 DEF SuiteFails
  <2>4. reported'[m] > 0 /\ \A k \in Mutants \ {m} : reported'[k] = reported[k]
    BY <1>2, <2>3
  <2>5. NobodyElse' /\ CountFollows'
    <3>1. NobodyElse'
      BY <1>1, <1>3, <2>2, <2>3, OthersQuiet
    <3>2. proc[mut].st = "tests"
      BY <1>1, <1>8, Zenon DEF SuiteFails
    <3>3. temp.kills = prev
      BY <1>1, <1>4, <3>2 DEF CountFollows
    <3>4. CountFollows'
      BY <1>1, <1>3, <2>2, <2>3, <2>4, <3>3, Zenon DEF CountFollows
    <3> QED
      BY <3>1, <3>4
  <2>6. UNCHANGED <<pc, todo, src, pending, mut, verdict, stats, prev, nonTrivial>>
    BY <1>3 DEF control, locals
  <2>7. InTurn'
    <3>1. pending \subseteq Mutants \ {m}
      BY <1>1, Zenon DEF FileInv, TypeOK, ControlTypes
    <3>2. \A s \in todo : s # src => MutantsOf[s] \subseteq Mutants \ {m}
      BY <1>1, SourcesAssumption
    <3>3. /\ \A k \in pending : reported'[k] = 0
          /\ \A s \in todo : s # src =>
                \A k \in MutantsOf[s] : verdict[k] = "none" /\ reported'[k] = 0
      BY <1>1, <2>4, <3>1, <3>2, Zenon DEF VerdictInv, InTurn, Active
    <3> QED
      BY <1>1, <2>6, <3>3, Zenon DEF VerdictInv, InTurn, Active
  <2>8. StoredInTurn'
    BY <2>6, Zenon DEF VerdictInv, StoredInTurn, Active, KillersAreOwn, Killed, KilledByTests
  <2> QED
    BY <2>5, <2>7, <2>8 DEF VerdictInv
<1>9. CASE ReadKillCount(m)
  <2>1. /\ proc' = [proc EXCEPT ![m].st = "truncate", ![m].count = CountRead(temp)]
        /\ UNCHANGED <<make, temp, reported>>
    BY <1>9 DEF ReadKillCount, history
  <2>2. /\ proc'[m].st = "truncate" /\ proc'[m].count = temp.kills
        /\ \A k \in Mutants \ {m} : proc'[k] = proc[k]
    BY <1>2, <2>1 DEF Processes, CountRead, OnTime
  <2>3. NobodyElse'
    BY <1>1, <1>3, <2>1, <2>2, OthersQuiet, Zenon
  <2>4. CountFollows'
    BY <1>1, <1>3, <1>4, <1>9, <2>1, <2>2 DEF CountFollows, ReadKillCount
  <2> QED
    BY <1>3, <2>1, <2>3, <2>4, TurnsKept DEF VerdictInv
<1>10. CASE TruncateReport(m)
  <2>1. proc' = [proc EXCEPT ![m].st = "write"] /\ UNCHANGED <<make, reported>>
    BY <1>10 DEF TruncateReport, history
  <2>2. /\ proc'[m].st = "write" /\ proc'[m].count = proc[m].count
        /\ \A k \in Mutants \ {m} : proc'[k] = proc[k]
    BY <1>2, <2>1 DEF Processes
  <2>3. NobodyElse'
    BY <1>1, <1>3, <2>1, <2>2, OthersQuiet
  <2>4. CountFollows'
    BY <1>1, <1>3, <1>4, <1>10, <2>1, <2>2 DEF CountFollows, TruncateReport
  <2> QED
    BY <1>3, <2>1, <2>3, <2>4, TurnsKept DEF VerdictInv
<1>11. CASE WriteReport(m)
  <2>1. /\ proc' = [proc EXCEPT ![m] = NoProcess] /\ make' = "ok" /\ UNCHANGED reported
        /\ temp' = Report(m, proc[m].count, proc[m].fails)
    BY <1>0, <1>11, LastSuite DEF WriteReport, history
  <2>2. proc'[m].st = "none" /\ \A k \in Mutants \ {m} : proc'[k] = proc[k]
    BY <1>2, <2>1 DEF NoProcess
  <2>3. temp'.kills = proc[m].count + 1 /\ temp'.by = m
    BY <2>1 DEF Report
  <2>4. proc[m].count = prev /\ reported[m] > 0
    BY <1>1, <1>4, <1>11 DEF CountFollows, WriteReport
  <2>5. temp'.kills = prev' + 1 /\ temp'.by = mut' /\ reported'[mut'] # 0
    BY <1>2, <1>3, <2>1, <2>3, <2>4
  <2>6. NobodyElse'
    BY <1>1, <1>3, <2>2, OthersQuiet
  <2>7. CountFollows'
    BY <1>3, <2>2, <2>5 DEF CountFollows
  <2> QED
    BY <1>3, <2>1, <2>6, <2>7, TurnsKept DEF VerdictInv
<1> QED
  BY <1>5, <1>6, <1>7, <1>8, <1>9, <1>10, <1>11 DEF TestProcess

\* A failed injection closes the turn of its mutant.
LEMMA VerdictFailed ==
    ASSUME FileInv, VerdictInv, pc = "make", RecordFailedInjection,
           \A m \in Mutants : proc'[m].st = "none"
    PROVE  VerdictInv'
<1>1. /\ pc' = "readdir" /\ verdict' = [verdict EXCEPT ![mut] = "failed"]
      /\ UNCHANGED <<todo, src, pending, mut, reported, nonTrivial>>
  BY DEF RecordFailedInjection, arrays
<1>2. src \in todo /\ todo \subseteq Sources /\ mut \in MutantsOf[src] /\ mut \notin pending
  BY DEF VerdictInv, InTurn, Active, FileInv, TypeOK, ControlTypes
<1>3. verdict'[mut] = "failed" /\ \A m \in Mutants \ {mut} : verdict'[m] = verdict[m]
  BY <1>1, <1>2, SourcesAssumption DEF FileInv, TypeOK, TestTypes
<1>4. \A s \in todo : s # src => mut \notin MutantsOf[s]
  BY <1>2, SourcesAssumption
<1>5. \A s \in todo : MutantsOf[s] \subseteq Mutants
  BY <1>2, SourcesAssumption
<1>6. InTurn'
  <2>1. \A m \in MutantsOf[src] : verdict'[m] = "none" <=> m \in pending
    BY <1>2, <1>3, <1>5 DEF VerdictInv, InTurn, Active
  <2>2. \A s \in todo : s # src =>
            \A m \in MutantsOf[s] : verdict'[m] = "none" /\ reported[m] = 0
    BY <1>3, <1>4, <1>5 DEF VerdictInv, InTurn
  <2>3. pending \subseteq MutantsOf[src] /\ \A m \in pending : reported[m] = 0
    BY DEF VerdictInv, InTurn, Active
  <2> QED
    BY <1>1, <1>2, <2>1, <2>2, <2>3 DEF InTurn, Active
<1>7. NobodyElse' /\ CountFollows'
  BY <1>1 DEF NobodyElse, CountFollows
<1>8. StoredInTurn'
  BY <1>1, Zenon DEF VerdictInv, StoredInTurn, Active, KillersAreOwn
<1> QED
  BY <1>6, <1>7, <1>8 DEF VerdictInv

\* What the controller infers from the two counts is what the log says.
LEMMA JudgedAsLogged ==
    ASSUME FileInv, VerdictInv, EvaluateTests
    PROVE  /\ mut \in Mutants
           /\ KilledByTests(prev, temp.kills) => /\ reported[mut] > 0
                                                 /\ temp.by = mut
                                                 /\ verdict' = [verdict EXCEPT ![mut] = "killed"]
           /\ ~KilledByTests(prev, temp.kills) => /\ reported[mut] = 0
                                                  /\ verdict' = [verdict EXCEPT ![mut] = "survived"]
<1>1. mut \in Mutants /\ pc = "make" /\ make = "ok"
  BY DEF EvaluateTests, FileInv, Placed
<1>2. reported[mut] \in Nat /\ temp.kills \in Nat /\ prev \in Nat
  BY <1>1 DEF FileInv, TypeOK, TestTypes, FileTypes, ControlTypes, Reports
<1>3. /\ reported[mut] = 0 => temp.kills = prev
      /\ reported[mut] > 0 => temp.kills = prev + 1 /\ temp.by = mut
  BY <1>1, Zenon DEF VerdictInv, CountFollows
<1>4. /\ KilledByTests(prev, temp.kills) => reported[mut] > 0 /\ temp.by = mut
      /\ ~KilledByTests(prev, temp.kills) => reported[mut] = 0
  <2>1. KilledByTests(prev, temp.kills) <=> temp.kills = prev + 1
    BY <1>2 DEF KilledByTests
  <2>2. prev # prev + 1 /\ (reported[mut] = 0 \/ reported[mut] > 0)
    BY <1>2
  <2> QED
    BY <1>3, <2>1, <2>2, Zenon
<1> QED
  BY <1>1, <1>4, Zenon DEF EvaluateTests

\* The comparison of the counts closes the turn of its mutant.
LEMMA VerdictJudged ==
    ASSUME FileInv, VerdictInv, EvaluateTests
    PROVE  VerdictInv'
<1>1. /\ pc = "make" /\ make = "ok" /\ pc' = "valgrind" /\ stats' = temp
      /\ UNCHANGED <<todo, src, pending, mut, prev, make, proc, reported, nonTrivial>>
  BY DEF EvaluateTests, tests
<1>2. src \in todo /\ todo \subseteq Sources /\ mut \in MutantsOf[src] /\ mut \notin pending
  BY <1>1 DEF VerdictInv, InTurn, Active, FileInv, TypeOK, ControlTypes
<1>3. verdict'[mut] # "none" /\ \A m \in Mutants \ {mut} : verdict'[m] = verdict[m]
  BY JudgedAsLogged DEF FileInv, TypeOK, TestTypes
<1>4. \A s \in todo : MutantsOf[s] \subseteq Mutants /\ (s # src => mut \notin MutantsOf[s])
  BY <1>2, SourcesAssumption
<1>5. InTurn'
  <2>1. \A m \in MutantsOf[src] : verdict'[m] = "none" <=> m \in pending
    BY <1>1, <1>2, <1>3, <1>4 DEF VerdictInv, InTurn, Active
  <2>2. \A s \in todo : s # src =>
            \A m \in MutantsOf[s] : verdict'[m] = "none" /\ reported[m] = 0
    BY <1>3, <1>4, Zenon DEF VerdictInv, InTurn
  <2>3. pending \subseteq MutantsOf[src] /\ \A m \in pending : reported[m] = 0
    BY <1>1 DEF VerdictInv, InTurn, Active
  <2> QED
    BY <1>1, <1>2, <2>1, <2>2, <2>3 DEF InTurn, Active
<1>6. NobodyElse' /\ CountFollows'
  BY <1>1 DEF VerdictInv, NobodyElse, CountFollows
<1>7. StoredInTurn'
  <2>1. Killed' => stats'.by = mut'
    BY <1>1, JudgedAsLogged, Zenon DEF Killed, KilledByTests
  <2> QED
    BY <1>1, <2>1, Zenon DEF VerdictInv, StoredInTurn, Active, KillersAreOwn
<1> QED
  BY <1>5, <1>6, <1>7 DEF VerdictInv

\* The classification stores a killed mutant with its own tests, once.
LEMMA VerdictStored ==
    ASSUME FileInv, VerdictInv, EvaluateValgrind
    PROVE  VerdictInv'
<1>1. /\ pc = "valgrind" /\ pc' = "readdir"
      /\ UNCHANGED <<todo, src, pending, mut, make, proc, reported, verdict>>
  BY DEF EvaluateValgrind, tests, history
<1>2. InTurn'
  BY <1>1, Zenon DEF VerdictInv, InTurn, Active
<1>3. NobodyElse' /\ CountFollows'
  BY <1>1, Zenon DEF VerdictInv, NobodyElse, CountFollows
<1>4. mut \in Mutants /\ mut \notin pending /\ nonTrivial \in Seq(NonTrivialMutants)
  BY <1>1, Zenon DEF VerdictInv, InTurn, FileInv, Placed, TypeOK, ResultTypes
<1>5. StoredInTurn'
  <2>1. CASE nonTrivial' = nonTrivial
    BY <1>1, <2>1 DEF VerdictInv, StoredInTurn, Active, KillersAreOwn
  <2>2. CASE nonTrivial' # nonTrivial
    <3>1. PICK errors \in ValgrindCounts : RecordKilled(errors) /\ Killed
      BY <2>2 DEF EvaluateValgrind, RecordSurvived, Killed
    <3> DEFINE count == IF errors = Nil THEN Nil ELSE Adjusted(errors)
               entry == [mutant |-> mut, errors |-> count, by |-> stats.by]
    <3>2. nonTrivial' = Append(nonTrivial, entry)
      BY <2>2, <3>1 DEF RecordKilled
    <3>3. entry.mutant = mut /\ entry.by = mut
      BY <1>1, <3>1, Zenon DEF VerdictInv, StoredInTurn
    <3> HIDE DEF entry
    <3>4. /\ DOMAIN nonTrivial' = 1 .. Len(nonTrivial) + 1
          /\ Len(nonTrivial) \in Nat
          /\ \A i \in 1 .. Len(nonTrivial) : nonTrivial'[i] = nonTrivial[i]
          /\ nonTrivial'[Len(nonTrivial) + 1] = entry
      BY <1>4, <3>2
    <3>5. \A i \in 1 .. Len(nonTrivial) :
              /\ nonTrivial[i].mutant # mut
              /\ nonTrivial[i].mutant \notin pending
              /\ nonTrivial[i].by = nonTrivial[i].mutant
      <4>1. DOMAIN nonTrivial = 1 .. Len(nonTrivial)
        BY <1>4
      <4> QED
        BY <1>1, <4>1, Zenon DEF VerdictInv, StoredInTurn, Active, KillersAreOwn
    <3>6. \A i, j \in 1 .. Len(nonTrivial) :
              nonTrivial[i].mutant = nonTrivial[j].mutant => i = j
      <4>1. DOMAIN nonTrivial = 1 .. Len(nonTrivial)
        BY <1>4
      <4> QED
        BY <4>1 DEF VerdictInv, StoredInTurn, KillersAreOwn
    <3>7. \A i \in DOMAIN nonTrivial' : i \in 1 .. Len(nonTrivial) \/ i = Len(nonTrivial) + 1
      BY <3>4
    <3>8. \A i \in DOMAIN nonTrivial' :
              nonTrivial'[i].by = nonTrivial'[i].mutant /\ nonTrivial'[i].mutant \notin pending
      BY <1>4, <3>3, <3>4, <3>5, <3>7
    <3>9. \A i, j \in DOMAIN nonTrivial' :
              nonTrivial'[i].mutant = nonTrivial'[j].mutant => i = j
      BY <3>3, <3>4, <3>5, <3>6, <3>7
    <3> QED
      BY <1>1, <3>8, <3>9, Zenon DEF StoredInTurn, KillersAreOwn
  <2> QED
    BY <2>1, <2>2
<1> QED
  BY <1>2, <1>3, <1>5 DEF VerdictInv

\* A step of the controller preserves the invariant.
LEMMA VerdictController ==
    ASSUME OnTime, FileInv, VerdictInv, Controller
    PROVE  VerdictInv'
<1>0. NobodyElse /\ CountFollows /\ InTurn /\ StoredInTurn /\ todo \subseteq Sources
  BY DEF VerdictInv, FileInv, TypeOK, ControlTypes
<1>1. ASSUME NEW s \in Sources, StartSource(s)
      PROVE  VerdictInv'
  <2>1. /\ pc = "source" /\ pc' = "readdir" /\ s \in todo /\ src' = s
        /\ pending' = MutantsOf[s] /\ nonTrivial' = << >>
        /\ UNCHANGED <<todo, proc, reported, verdict>>
    BY <1>1 DEF StartSource, tests, history
  <2>2. \A t \in todo : \A m \in MutantsOf[t] : verdict[m] = "none" /\ reported[m] = 0
    BY <1>0, <2>1 DEF InTurn, Active
  <2>3. InTurn'
    BY <2>1, <2>2 DEF InTurn, Active
  <2>4. NobodyElse' /\ CountFollows'
    BY <1>0, <2>1 DEF NobodyElse, CountFollows
  <2>5. StoredInTurn'
    <3>1. DOMAIN nonTrivial' = {}
      BY <2>1
    <3> QED
      BY <2>1, <3>1 DEF StoredInTurn, KillersAreOwn
  <2> QED
    BY <2>3, <2>4, <2>5 DEF VerdictInv
<1>2. ASSUME NEW m \in Mutants, InjectMutant(m)
      PROVE  VerdictInv'
  <2>1. /\ pc = "readdir" /\ m \in pending /\ pc' = "make" /\ mut' = m /\ prev' = temp.kills
        /\ pending' = pending \ {m} /\ make' = "running"
        /\ UNCHANGED <<todo, src, temp, reported, verdict, nonTrivial>>
    BY <1>2 DEF InjectMutant, arrays, history
  <2>2. proc'[m].st = "build" /\ \A k \in Mutants \ {m} : proc'[k].st = "none"
    BY <1>0, <1>2, <2>1 DEF InjectMutant, NoProcess, NobodyElse, FileInv, TypeOK, TestTypes
  <2>3. NobodyElse'
    BY <2>1, <2>2 DEF NobodyElse
  <2>4. CountFollows'
    BY <1>0, <2>1, <2>2 DEF CountFollows, InTurn, Active
  <2>5. InTurn'
    BY <1>0, <2>1 DEF InTurn, Active
  <2>6. StoredInTurn'
    BY <1>0, <2>1, Zenon DEF StoredInTurn, Active, KillersAreOwn
  <2> QED
    BY <2>3, <2>4, <2>5, <2>6 DEF VerdictInv
<1>3. CASE MakeFailed
  <2>1. \A m \in Mutants : proc'[m].st = "none"
    BY <1>0, <1>3 DEF MakeFailed, tests, NobodyElse
  <2> QED
    BY <1>3, <2>1, VerdictFailed DEF MakeFailed
<1>4. CASE MakeTimeout
  <2>1. proc' = [proc EXCEPT ![mut] = NoProcess]
    BY <1>4 DEF MakeTimeout, OnTime
  <2>2. \A m \in Mutants : proc'[m].st = "none"
    BY <1>0, <1>4, <2>1 DEF MakeTimeout, NobodyElse, NoProcess, FileInv, TypeOK, TestTypes
  <2> QED
    BY <1>4, <2>2, VerdictFailed DEF MakeTimeout
<1>5. CASE EvaluateTests
  BY <1>5, VerdictJudged
<1>6. CASE EvaluateValgrind
  BY <1>6, VerdictStored
<1>7. CASE FinishSource \/ Finish
  <2>1. /\ pc \in {"readdir", "source"} /\ pc' \in {"source", "crashed", "done"}
        /\ pc = "readdir" => todo' = todo \ {src}
        /\ pc = "source" => todo' = todo
        /\ UNCHANGED <<proc, nonTrivial, reported, verdict>>
    BY <1>7 DEF FinishSource, Finish, tests, result, arrays, history
  <2>2. InTurn'
    BY <1>0, <2>1 DEF InTurn, Active
  <2>3. NobodyElse' /\ CountFollows'
    BY <1>0, <2>1, Zenon DEF NobodyElse, CountFollows
  <2>4. StoredInTurn'
    BY <1>0, <2>1 DEF StoredInTurn, KillersAreOwn, Active
  <2> QED
    BY <2>2, <2>3, <2>4 DEF VerdictInv
<1> QED
  BY <1>1, <1>2, <1>3, <1>4, <1>5, <1>6, <1>7 DEF Controller

LEMMA VerdictStep ==
    ASSUME OnTime, FileInv, VerdictInv, [Next]_vars
    PROVE  VerdictInv'
<1>1. CASE Controller
  BY <1>1, VerdictController
<1>2. ASSUME NEW m \in Mutants, TestProcess(m) PROVE VerdictInv'
  BY <1>2, VerdictTest, SMTT(20)
<1>3. CASE UNCHANGED vars
  BY <1>3, Zenon DEF vars, control, locals, tests, result, arrays, history, VerdictInv,
         NobodyElse, CountFollows, InTurn, StoredInTurn, Active, KillersAreOwn, Killed,
         KilledByTests
<1> QED
  BY <1>1, <1>2, <1>3 DEF Next, Terminated

LEMMA VerdictInvariant == OnTime => (Spec => []VerdictInv)
<1> SUFFICES ASSUME OnTime PROVE Spec => []VerdictInv
  OBVIOUS
<1>1. FileInv /\ VerdictInv /\ [Next]_vars => VerdictInv'
  BY VerdictStep
<1> QED
  BY <1>1, VerdictInit, FileInvariant, PTL DEF Spec

\* With CuTest, one suite per make and no test program that outlives it, every
\* stored non-trivial mutant comes with the tests that killed it, and once.
THEOREM KillersOwn == OnTime => (Spec => []KillersAreOwn)
<1> SUFFICES ASSUME OnTime PROVE Spec => []KillersAreOwn
  OBVIOUS
<1>1. VerdictInv => KillersAreOwn
  BY DEF VerdictInv, StoredInTurn
<1> QED
  BY <1>1, VerdictInvariant, PTL

\* Each step of the evaluation is a step of the ledger, or changes nothing there.
LEMMA LedgerStep ==
    ASSUME OnTime, FileInv, VerdictInv, [Next]_vars
    PROVE  [Ledger!Next]_(Ledger!vars)
<1>0. /\ Active => src \in Sources /\ src # Nil
      /\ InTurn
  BY SourcesAssumption DEF FileInv, Placed, VerdictInv
<1>1. ASSUME NEW s \in Sources, StartSource(s)
      PROVE  Ledger!Next
  <2>1. Ledger!Open(s)
    BY <1>1 DEF StartSource, history, Ledger!Open
  <2> QED
    BY <2>1 DEF Ledger!Next
<1>2. ASSUME NEW m \in Mutants, SuiteFails(m)
      PROVE  Ledger!Next
  <2>1. proc[m].st # "none"
    BY <1>2 DEF SuiteFails
  <2>2. pc = "make" /\ src \in Sources /\ m \in MutantsOf[src] /\ verdict[m] = "none"
    BY <2>1, OwnProcess
  <2>3. pc' = pc /\ src' = src /\ verdict' = verdict /\ reported' = [reported EXCEPT ![m] = @ + 1]
    BY <1>2 DEF SuiteFails, control
  <2>4. Ledger!Report(m)
    BY <2>2, <2>3, SourcesAssumption DEF Ledger!Report
  <2> QED
    BY <2>4 DEF Ledger!Next
<1>3. ASSUME pc = "make", pc' \in {"readdir", "valgrind"}, src' = src, reported' = reported,
             NEW v \in {"failed", "killed", "survived"},
             verdict' = [verdict EXCEPT ![mut] = v],
             v = "killed" => reported[mut] > 0,
             v = "survived" => reported[mut] = 0
      PROVE  Ledger!Next
  <2>1. src # Nil /\ mut \in Mutants /\ mut \in MutantsOf[src] /\ verdict[mut] = "none"
    BY <1>0, <1>3 DEF InTurn, Active, FileInv, Placed
  <2>2. Ledger!Judge(mut, v)
    BY <1>3, <2>1 DEF Ledger!Judge
  <2> QED
    BY <2>1, <2>2 DEF Ledger!Next
<1>4. CASE MakeFailed \/ MakeTimeout
  <2>1. /\ pc = "make" /\ pc' = "readdir" /\ src' = src /\ reported' = reported
        /\ verdict' = [verdict EXCEPT ![mut] = "failed"]
    BY <1>4 DEF MakeFailed, MakeTimeout, RecordFailedInjection
  <2> QED
    BY <1>3, <2>1
<1>5. CASE EvaluateTests
  <2>1. pc = "make" /\ pc' = "valgrind" /\ src' = src /\ reported' = reported
    BY <1>5 DEF EvaluateTests
  <2>2. CASE KilledByTests(prev, temp.kills)
    <3>1. verdict' = [verdict EXCEPT ![mut] = "killed"] /\ reported[mut] > 0
      BY <1>5, <2>2, JudgedAsLogged
    <3> QED
      BY <1>3, <2>1, <3>1
  <2>3. CASE ~KilledByTests(prev, temp.kills)
    <3>1. verdict' = [verdict EXCEPT ![mut] = "survived"] /\ reported[mut] = 0
      BY <1>5, <2>3, JudgedAsLogged
    <3> QED
      BY <1>3, <2>1, <3>1
  <2> QED
    BY <2>2, <2>3
<1>6. CASE FinishSource
  <2>1. /\ pc = "readdir" /\ pending = {} /\ pc' \in {"source", "crashed"}
        /\ UNCHANGED <<reported, verdict>>
    BY <1>6 DEF FinishSource, history
  <2>2. src # Nil /\ \A m \in MutantsOf[src] : verdict[m] # "none"
    BY <1>0, <2>1 DEF InTurn, Active
  <2>3. Ledger!Close
    BY <2>1, <2>2 DEF Ledger!Close
  <2> QED
    BY <2>3 DEF Ledger!Next
<1>7. CASE (\E m \in Mutants : InjectMutant(m)) \/ EvaluateValgrind \/ Finish
  <2>1. /\ \/ pc \in {"readdir", "valgrind"} /\ pc' \in {"make", "readdir"} /\ src' = src
           \/ pc = "source" /\ pc' = "done"
        /\ UNCHANGED <<reported, verdict>>
    BY <1>7 DEF InjectMutant, EvaluateValgrind, Finish, history
  <2> QED
    BY <2>1 DEF Ledger!vars
<1>8. ASSUME NEW m \in Mutants, TestProcess(m), ~SuiteFails(m)
      PROVE  UNCHANGED Ledger!vars
  BY <1>8 DEF TestProcess, BuildSucceeds, BuildFails, SuitePasses, SuiteCrashes,
       ReadKillCount, TruncateReport, WriteReport, control, history, Ledger!vars
<1>9. CASE UNCHANGED vars
  BY <1>9 DEF vars, control, history, Ledger!vars
<1> QED
  BY <1>1, <1>2, <1>4, <1>5, <1>6, <1>7, <1>8, <1>9 DEF Next, Controller, Terminated

\* With CuTest, one suite per make and no test program that outlives it, the
\* evaluation implements the ledger for any sources and mutants: each mutant of
\* the open source is judged once, "killed" only if its suite logged a failure
\* and "survived" only if it did not, and no report comes after the judgement.
THEOREM LedgerImplemented == OnTime => (Spec => ImplementsLedger)
<1> SUFFICES ASSUME OnTime PROVE Spec => ImplementsLedger
  OBVIOUS
<1>1. Init => Ledger!Init
  BY DEF Init, Ledger!Init
<1>2. FileInv /\ VerdictInv /\ [Next]_vars => [Ledger!Next]_(Ledger!vars)
  BY LedgerStep
<1> QED
  BY <1>1, <1>2, VerdictInvariant, FileInvariant, PTL DEF Spec, ImplementsLedger, Ledger!Spec

-----------------------------------------------------------------------------
(* The non-trivial mutants *)

\* CuTest, and no test program that outlives its make; any number of suites.
InTime == LateFinishers = {} /\ Framework = "cutest"

\* The count in the file, or the one a suite holds while it rewrites the file,
\* is never below the count the controller read.
CountGrows ==
    pc = "make" =>
        /\ proc[mut].st \notin {"truncate", "write"} => prev <= temp.kills
        /\ proc[mut].st \in {"truncate", "write"} => prev <= proc[mut].count

\* The kill count the array is grown by is never behind the length of the array.
CountCovers ==
    /\ NobodyElse
    /\ CountGrows
    /\ Len(nonTrivial) <= ntBuf
    /\ pc = "readdir" => Len(nonTrivial) <= temp.kills
    /\ pc \in {"make", "valgrind"} => Len(nonTrivial) <= prev
    /\ pc = "valgrind" => temp.kills = stats.kills /\ prev <= stats.kills
    /\ NonTrivialInBounds

\* A step of a test program preserves the invariant.
LEMMA CoversTest ==
    ASSUME InTime, FileInv, CountCovers, NEW m \in Mutants, TestProcess(m)
    PROVE  CountCovers'
<1>1. proc[m].st # "none"
  BY DEF TestProcess, BuildSucceeds, BuildFails, SuitePasses, SuiteFails, SuiteCrashes,
         ReadKillCount, TruncateReport, WriteReport
<1>2. /\ pc = "make" /\ mut = m /\ make = "running"
      /\ \A k \in Mutants \ {m} : proc[k].st = "none"
  BY <1>1 DEF CountCovers, NobodyElse
<1>3. UNCHANGED <<pc, mut, prev, nonTrivial, ntBuf>>
  BY DEF TestProcess, BuildSucceeds, BuildFails, SuitePasses, SuiteFails,
         SuiteCrashes, ReadKillCount, TruncateReport, WriteReport, control, locals,
         result, arrays
<1>4. /\ proc \in [Mutants -> Processes] /\ proc[m] \in Processes
      /\ prev \in Nat /\ temp.kills \in Nat /\ proc[m].count \in Nat \cup {-1}
  BY DEF FileInv, TypeOK, TestTypes, ControlTypes, FileTypes, Reports, Processes
<1>5. SUFFICES NobodyElse' /\ CountGrows'
  BY <1>2, <1>3, Zenon DEF CountCovers, NonTrivialInBounds
<1>6. CASE BuildSucceeds(m) \/ SuiteFails(m)
  <2>1. /\ UNCHANGED <<make, temp>> /\ proc[m].st \in {"build", "tests"}
        /\ proc'[m].st \in {"tests", "read"} /\ \A k \in Mutants \ {m} : proc'[k] = proc[k]
    BY <1>4, <1>6 DEF BuildSucceeds, SuiteFails, Processes
  <2> QED
    BY <1>2, <1>3, <2>1, Zenon DEF CountCovers, NobodyElse, CountGrows
<1>7. CASE BuildFails(m) \/ SuiteCrashes(m)
  <2>1. /\ temp' = temp /\ proc[m].st \in {"build", "tests"}
        /\ proc'[m].st = "none" /\ \A k \in Mutants \ {m} : proc'[k] = proc[k]
    BY <1>4, <1>7, SMTT(20) DEF BuildFails, SuiteCrashes, NoProcess
  <2> QED
    BY <1>2, <1>3, <2>1, Zenon DEF CountCovers, NobodyElse, CountGrows
<1>8. ASSUME SuiteReturns(m), prev <= temp'.kills
      PROVE  NobodyElse' /\ CountGrows'
  <2>1. /\ \A k \in Mutants \ {m} : proc'[k] = proc[k]
        /\ \/ proc'[m].st = "none"
           \/ proc'[m].st = "tests" /\ make' = make
    <3>1. CASE MakeAlive(m) /\ proc[m].suite < NumSuites
      <4> DEFINE next == [NoProcess EXCEPT !.st = "tests", !.suite = proc[m].suite + 1]
      <4>1. next.st = "tests"
        BY DEF NoProcess
      <4>2. proc' = [proc EXCEPT ![m] = next] /\ make' = make
        BY <1>8, <3>1 DEF SuiteReturns
      <4> HIDE DEF next
      <4> QED
        BY <1>4, <4>1, <4>2
    <3>2. CASE ~(MakeAlive(m) /\ proc[m].suite < NumSuites)
      <4>1. proc' = [proc EXCEPT ![m] = NoProcess]
        BY <1>8, <3>2 DEF SuiteReturns
      <4> QED
        BY <1>4, <4>1 DEF NoProcess
    <3> QED
      BY <3>1, <3>2, Zenon
  <2> QED
    <3>1. NobodyElse'
      <4>1. ASSUME NEW k \in Mutants, proc'[k].st # "none"
            PROVE  k = m /\ make' = "running"
        BY <1>2, <2>1, <4>1, SMTT(20)
      <4> QED
        BY <1>2, <1>3, <4>1 DEF NobodyElse
    <3>2. proc'[mut'].st \notin {"truncate", "write"} /\ prev' <= temp'.kills
      BY <1>2, <1>3, <1>8, <2>1, Zenon
    <3> QED
      BY <3>1, <3>2 DEF CountGrows
<1>9. CASE SuitePasses(m)
  <2>1. SuiteReturns(m) /\ temp' = temp /\ proc[m].st = "tests"
    BY <1>9 DEF SuitePasses
  <2>2. prev <= temp.kills
    <3>1. proc[mut].st \notin {"truncate", "write"}
      BY <1>2, <2>1
    <3> QED
      BY <1>2, <3>1, Zenon DEF CountCovers, CountGrows
  <2> QED
    BY <1>8, <2>1, <2>2
<1>10. CASE ReadKillCount(m)
  <2>1. /\ UNCHANGED <<make, temp>> /\ proc[m].st = "read"
        /\ proc'[m].st = "truncate" /\ proc'[m].count = temp.kills
        /\ \A k \in Mutants \ {m} : proc'[k] = proc[k]
    BY <1>4, <1>10 DEF ReadKillCount, Processes, CountRead, InTime
  <2> QED
    BY <1>2, <1>3, <2>1, Zenon DEF CountCovers, NobodyElse, CountGrows
<1>11. CASE TruncateReport(m)
  <2>1. /\ make' = make /\ proc[m].st = "truncate"
        /\ proc'[m].st = "write" /\ proc'[m].count = proc[m].count
        /\ \A k \in Mutants \ {m} : proc'[k] = proc[k]
    BY <1>4, <1>11 DEF TruncateReport, Processes
  <2> QED
    BY <1>2, <1>3, <2>1, Zenon DEF CountCovers, NobodyElse, CountGrows
<1>12. CASE WriteReport(m)
  <2>1. SuiteReturns(m) /\ temp'.kills = proc[m].count + 1 /\ proc[m].st = "write"
    BY <1>12, Zenon DEF WriteReport, Report
  <2>2. prev <= proc[m].count
    BY <1>2, <2>1, Zenon DEF CountCovers, CountGrows
  <2>3. prev <= temp'.kills
    BY <1>4, <2>1, <2>2
  <2> QED
    BY <1>8, <2>1, <2>3, SMTT(20)
<1> QED
  BY <1>6, <1>7, <1>9, <1>10, <1>11, <1>12 DEF TestProcess

LEMMA CoversStep ==
    ASSUME InTime, FileInv, CountCovers, [Next]_vars
    PROVE  CountCovers'
<1>0. /\ nonTrivial \in Seq(NonTrivialMutants) /\ Len(nonTrivial) \in Nat
      /\ ntBuf \in Nat \ {0} /\ prev \in Nat /\ temp.kills \in Nat /\ stats.kills \in Nat
      /\ proc \in [Mutants -> Processes]
  BY SMTT(20) DEF FileInv, TypeOK, ResultTypes, ControlTypes, FileTypes, TestTypes, Reports
<1>1. CASE \E s \in Sources : StartSource(s)
  <2>1. pc = "source" /\ pc' = "readdir" /\ proc' = proc
    BY <1>1, Zenon DEF StartSource, tests
  <2>2. NobodyElse' /\ CountGrows'
    BY <2>1 DEF CountCovers, NobodyElse, CountGrows
  <2>3. Len(nonTrivial') = 0 /\ ntBuf' \in Nat /\ temp'.kills = 0
    <3>1. nonTrivial' = << >> /\ ntBuf' = InitialBuffer /\ temp' = NoKills
      BY <1>1, Zenon DEF StartSource
    <3>2. InitialBuffer \in Nat
      BY BoundsAssumption
    <3> QED
      BY <3>1, <3>2 DEF NoKills
  <2> QED
    BY <2>1, <2>2, <2>3 DEF CountCovers, NonTrivialInBounds
<1>2. ASSUME NEW m \in Mutants, InjectMutant(m)
      PROVE  CountCovers'
  <2>1. /\ pc = "readdir" /\ pc' = "make" /\ mut' = m /\ prev' = temp.kills
        /\ make' = "running" /\ UNCHANGED <<temp, nonTrivial, ntBuf>>
    BY <1>2 DEF InjectMutant, arrays
  <2>2. proc'[m].st = "build" /\ \A k \in Mutants \ {m} : proc'[k].st = "none"
    BY <1>0, <1>2, <2>1 DEF InjectMutant, NoProcess, CountCovers, NobodyElse
  <2>3. NobodyElse' /\ CountGrows'
    BY <1>0, <2>1, <2>2, SMTT(20) DEF NobodyElse, CountGrows
  <2> QED
    BY <2>1, <2>3 DEF CountCovers, NonTrivialInBounds
<1>3. CASE MakeFailed \/ MakeTimeout
  <2>1. /\ pc = "make" /\ pc' = "readdir" /\ mut \in Mutants
        /\ UNCHANGED <<temp, nonTrivial, ntBuf>>
    BY <1>3 DEF MakeFailed, MakeTimeout, RecordFailedInjection, arrays, FileInv, Placed
  <2>2. proc[mut].st \notin {"truncate", "write"}
    BY <1>3, <2>1 DEF MakeFailed, MakeTimeout, CountCovers, NobodyElse, InTime
  <2>3. \A m \in Mutants : proc'[m].st = "none"
    <3>1. CASE MakeFailed
      BY <3>1 DEF MakeFailed, tests, CountCovers, NobodyElse
    <3>2. CASE MakeTimeout
      BY <1>0, <2>1, <3>2 DEF MakeTimeout, InTime, CountCovers, NobodyElse, NoProcess
    <3> QED
      BY <1>3, <3>1, <3>2
  <2>4. Len(nonTrivial) <= temp.kills
    BY <1>0, <2>1, <2>2 DEF CountCovers, CountGrows
  <2> QED
    BY <2>1, <2>3, <2>4, Zenon DEF CountCovers, NobodyElse, CountGrows, NonTrivialInBounds
<1>4. CASE EvaluateTests
  <2>1. /\ pc = "make" /\ make = "ok" /\ pc' = "valgrind" /\ stats' = temp
        /\ UNCHANGED <<prev, temp, nonTrivial, proc>>
    BY <1>4 DEF EvaluateTests, tests
  <2>2. NobodyElse' /\ CountGrows' /\ prev <= temp.kills
    BY <2>1 DEF CountCovers, NobodyElse, CountGrows, FileInv, Placed
  <2>3. CASE KilledByTests(prev, temp.kills)
    <3>1. ntBuf' = Grown(temp.kills, ntBuf)
      BY <1>4, <2>3 DEF EvaluateTests
    <3>2. temp.kills = prev + 1 /\ Len(nonTrivial) <= prev /\ Len(nonTrivial) <= ntBuf
      BY <1>0, <2>1, <2>3 DEF KilledByTests, CountCovers
    <3>3. Len(nonTrivial) < ntBuf' /\ ntBuf' \in Nat
      BY <1>0, <3>1, <3>2 DEF Grown
    <3> QED
      BY <1>0, <2>1, <2>2, <3>2, <3>3 DEF CountCovers, NonTrivialInBounds
  <2>4. CASE ~KilledByTests(prev, temp.kills)
    <3>1. ntBuf' = ntBuf
      BY <1>4, <2>4 DEF EvaluateTests
    <3>2. ~Killed'
      BY <2>1, <2>4 DEF Killed, KilledByTests
    <3> QED
      BY <2>1, <2>2, <3>1, <3>2 DEF CountCovers, NonTrivialInBounds
  <2> QED
    BY <2>3, <2>4
<1>5. CASE EvaluateValgrind
  <2>1. /\ pc = "valgrind" /\ pc' = "readdir" /\ mut \in Mutants
        /\ UNCHANGED <<ntBuf, proc, prev>>
    BY <1>5, Zenon DEF EvaluateValgrind, FileInv, Placed, tests, locals
  <2>2. NobodyElse' /\ CountGrows'
    BY <2>1 DEF CountCovers, NobodyElse, CountGrows
  <2>3. temp'.kills \in Nat /\ temp'.kills >= temp.kills
    <3>1. Report(mut, CountRead(temp), NumTests).kills = temp.kills + 1
      BY DEF Report, CountRead, InTime
    <3>2. temp' = IF isMutate = "true" THEN Report(mut, CountRead(temp), NumTests) ELSE temp
      BY <1>5 DEF EvaluateValgrind
    <3> QED
      BY <1>0, <3>1, <3>2
  <2>4. CASE nonTrivial' = nonTrivial
    <3>1. Len(nonTrivial) <= temp.kills
      BY <1>0, <2>1 DEF CountCovers
    <3> QED
      BY <1>0, <2>1, <2>2, <2>3, <2>4, <3>1 DEF CountCovers, NonTrivialInBounds
  <2>5. CASE nonTrivial' # nonTrivial
    <3>1. Killed /\ \E entry : nonTrivial' = Append(nonTrivial, entry)
      BY <1>5, <2>5, Zenon DEF EvaluateValgrind, RecordKilled, RecordSurvived, Killed
    <3>2. Len(nonTrivial') = Len(nonTrivial) + 1
      BY <1>0, <3>1
    <3>3. stats.kills = prev + 1
      BY <1>0, <3>1 DEF Killed, KilledByTests
    <3> QED
      BY <1>0, <2>1, <2>2, <2>3, <3>1, <3>2, <3>3, SMTT(20)
         DEF CountCovers, NonTrivialInBounds
  <2> QED
    BY <2>4, <2>5
<1>6. CASE FinishSource \/ Finish
  <2>1. /\ pc \in {"source", "readdir"} /\ pc' \in {"source", "crashed", "done"}
        /\ UNCHANGED <<proc, nonTrivial, ntBuf>>
    BY <1>6 DEF FinishSource, Finish, tests, result, arrays
  <2> QED
    BY <2>1, Zenon DEF CountCovers, NobodyElse, CountGrows, NonTrivialInBounds
<1>7. CASE \E m \in Mutants : TestProcess(m)
  BY <1>7, CoversTest
<1>8. CASE UNCHANGED vars
  BY <1>8, Zenon DEF vars, control, locals, tests, result, arrays, CountCovers, NobodyElse,
         CountGrows, NonTrivialInBounds, Killed, KilledByTests
<1> QED
  BY <1>1, <1>2, <1>3, <1>4, <1>5, <1>6, <1>7, <1>8 DEF Next, Controller, Terminated

LEMMA CoversInvariant == InTime => (Spec => []CountCovers)
<1> SUFFICES ASSUME InTime PROVE Spec => []CountCovers
  OBVIOUS
<1>1. ASSUME Init PROVE CountCovers
  <2>1. NobodyElse /\ CountGrows
    BY <1>1, Zenon DEF Init, NobodyElse, CountGrows, NoProcess
  <2>2. pc = "source" /\ Len(nonTrivial) = 0 /\ ntBuf \in Nat
    BY <1>1, BoundsAssumption DEF Init
  <2> QED
    BY <2>1, <2>2 DEF CountCovers, NonTrivialInBounds
<1>2. FileInv /\ CountCovers /\ [Next]_vars => CountCovers'
  BY CoversStep
<1> QED
  BY <1>1, <1>2, FileInvariant, PTL DEF Spec

\* With CuTest and no test program that outlives its make, for any number of
\* suites and any initial size, a non-trivial mutant is written inside
\* non_trivial_FOMS, although the array is grown by the kill count, which
\* failed injections and further suites may have moved far ahead of its length.
THEOREM NonTrivialInside == InTime => (Spec => []NonTrivialInBounds)
<1>1. CountCovers => NonTrivialInBounds
  BY DEF CountCovers
<1> QED
  BY <1>1, CoversInvariant, PTL
=============================================================================
