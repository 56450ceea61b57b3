--------------------------- MODULE FOMEvaluation ---------------------------
(***************************************************************************)
(* The evaluation of first-order mutants (FOMs): controller.c, together    *)
(* with the processes it talks to only through a file, the test suites     *)
(* that "make" runs on every mutant (CuTest/CuTest.forked.c, and the       *)
(* modified Check library in libcheck/src/check.c).                        *)
(*                                                                         *)
(* For each source file the controller backs the file up, copies one       *)
(* mutant after the other over it, and runs make under a time limit.  A    *)
(* test suite that fails rewrites temp_results.log with the number of      *)
(* kills so far; the controller reads the number before and after make     *)
(* and takes a difference of exactly one to mean "killed by the tests".    *)
(* A make that is out of time is sent SIGKILL, but the test process it     *)
(* started is not, and may finish much later.                              *)
(***************************************************************************)
EXTENDS Integers, Sequences, FiniteSets

CONSTANTS
    Sources,            \* the source files the configuration lists
    Mutants,            \* all generated mutants
    MutantsOf,          \* source |-> the mutants the generator wrote for it
    NumSuites,          \* test programs one make runs, each one suite
    NumTests,           \* tests in a suite
    LateFinishers,      \* mutants whose tests can outlive make's time limit
    Framework,          \* "cutest" or "libcheck"
    PUTValgrindErrors,  \* Valgrind errors of the unmutated program
    MaxErrors,          \* bound on the Valgrind errors of one run
    InitialBuffer,      \* initial capacity of the two Mutant arrays (200)
    Original,           \* content of an unmutated source file
    Nil                 \* NULL

ASSUME SourcesAssumption ==
    /\ MutantsOf \in [Sources -> SUBSET Mutants]
    /\ \A s, t \in Sources : s # t => MutantsOf[s] \cap MutantsOf[t] = {}
    /\ Original \notin Mutants
    /\ Nil \notin Mutants
    /\ Nil \notin Sources

\* A directory of mutants holds finitely many files.
ASSUME DirectoriesAssumption == \A s \in Sources : IsFiniteSet(MutantsOf[s])

ASSUME BoundsAssumption ==
    /\ NumSuites \in Nat \ {0}
    /\ NumTests \in Nat \ {0}
    /\ PUTValgrindErrors \in Nat
    /\ MaxErrors \in Nat
    /\ InitialBuffer \in Nat \ {0}
    /\ Nil \notin Int

ASSUME EnvironmentAssumption ==
    /\ LateFinishers \subseteq Mutants
    /\ Framework \in {"cutest", "libcheck"}

VARIABLES
    \* the controller
    pc,         \* where it is
    todo,       \* sources not yet processed
    src,        \* the source being processed
    pending,    \* directory entries readdir has not returned yet
    mut,        \* the mutant under evaluation
    prev,       \* prev_killed_by_tests
    stats,      \* what get_non_trivial_FOM_stats() read after make
    dev,        \* cfgDeviation: 0 for none, 1 for any positive deviation
    isMutate,   \* environment variable IS_MUTATE
    \* the file system
    target,     \* content of each source file in the copied project
    backup,     \* content of <file>.original
    temp,       \* temp_results.log
    \* make and the test programs
    make,       \* state of the make process of the current mutant
    proc,       \* mutant |-> the process working for it
    \* FOMResult
    fom,        \* its counters
    totalVE,    \* total_valgrind_errors
    nonTrivial, \* non_trivial_FOMS[0 .. non_trivial_FOM_count-1]
    survived,   \* survived[0 .. survived_count-1]
    ntBuf,      \* *non_trivial_FOM_buffer
    svBuf,      \* *survived_buffer
    \* history
    reported,   \* mutant |-> "status: (killed)" entries in mutation_results.log
    verdict     \* mutant |-> what the controller decided

control == <<pc, todo, src, pending, mut>>
locals  == <<prev, stats, dev>>
files   == <<target, backup>>
tests   == <<make, proc>>
arrays  == <<nonTrivial, survived, ntBuf, svBuf>>
result  == <<fom, totalVE, arrays>>
history == <<reported, verdict>>
vars    == <<control, locals, isMutate, files, temp, tests, result, history>>

-----------------------------------------------------------------------------
(* Data *)

Counters == {"total_mutants", "mutant_kill_count", "failed_injection",
             "caused_CFG_deviation", "survived_caused_CFG_deviation",
             "equivalent_mutants", "survived_SD", "survived_WD",
             "survived_WD_causedValgrindErrors",
             "survived_WD_caused_CFG_deviation",
             "killed_SD", "killed_WD", "killed_WD_causedValgrindErrors",
             "killed_WD_caused_CFG_deviation", "dumb_mutants"}

\* Adds one to every counter in the set incs.
Increment(incs) ==
    fom' = [c \in Counters |-> IF c \in incs THEN fom[c] + 1 ELSE fom[c]]

\* A report in temp_results.log: the kill count, the failed tests, the tests
\* of the suite, and whose test ids follow.  scanned is what fscanf("%d")
\* returns for it: 1, or EOF (-1) when the file has just been truncated.
Reports == [scanned : {-1, 1}, kills : Nat, failed : Nat, total : Nat,
            by : Mutants \cup {Nil}]

NoKills   == [scanned |-> 1, kills |-> 0, failed |-> 0, total |-> 0, by |-> Nil]
Truncated == [NoKills EXCEPT !.scanned = -1]

\* A process working for a mutant.  "none": there is none; "build": make is
\* compiling; "tests": suite number "suite" runs; "read", "truncate", "write":
\* the three accesses of a failing suite to temp_results.log.
ProcStates == {"none", "build", "tests", "read", "truncate", "write"}
Processes  == [st : ProcStates, suite : 1..NumSuites, fails : 0..NumTests,
               count : Nat \cup {-1}]
NoProcess  == [st |-> "none", suite |-> 1, fails |-> 0, count |-> 0]

\* A test program runs alone once the make that started it was killed.
MakeAlive(m) == pc = "make" /\ mut = m /\ make = "running"

\* valgrindXML_evaluate: Nil when the run had no error, else their number.
ValgrindCounts == {Nil} \cup 1..MaxErrors

-----------------------------------------------------------------------------
Init ==
    /\ pc = "source"
    /\ todo = Sources
    /\ src = Nil
    /\ pending = {}
    /\ mut = Nil
    /\ prev = 0
    /\ stats = NoKills
    /\ dev = 0
    /\ isMutate = "true"
    /\ target = [s \in Sources |-> Original]
    /\ backup = [s \in Sources |-> Nil]
    /\ temp = NoKills
    /\ make = "ok"
    /\ proc = [m \in Mutants |-> NoProcess]
    /\ fom = [c \in Counters |-> 0]
    /\ totalVE = 0
    /\ nonTrivial = << >>
    /\ survived = << >>
    /\ ntBuf = InitialBuffer
    /\ svBuf = InitialBuffer
    /\ reported = [m \in Mutants |-> 0]
    /\ verdict = [m \in Mutants |-> "none"]

(* process_source_file up to the readdir loop of inject_mutations: reset     *)
(* temp_results.log, back the source up, fresh counters and arrays.          *)
StartSource(s) ==
    /\ pc = "source"
    /\ s \in todo
    /\ pc' = "readdir"
    /\ src' = s
    /\ pending' = MutantsOf[s]
    /\ temp' = NoKills
    /\ backup' = [backup EXCEPT ![s] = target[s]]
    /\ fom' = [c \in Counters |-> 0]
    /\ totalVE' = 0
    /\ nonTrivial' = << >>
    /\ survived' = << >>
    /\ ntBuf' = InitialBuffer
    /\ svBuf' = InitialBuffer
    /\ UNCHANGED <<todo, mut, locals, isMutate, target, tests, history>>

(* Mutation: the directory is read from its start again. *)
InjectAgain(m) ==
    /\ pc = "readdir"
    /\ m \in pending
    /\ pc' = "make"
    /\ mut' = m
    /\ target' = [target EXCEPT ![src] = m]
    /\ Increment({"total_mutants"})
    /\ prev' = temp.kills
    /\ make' = "running"
    /\ proc' = [proc EXCEPT ![m] = [NoProcess EXCEPT !.st = "build"]]
    /\ UNCHANGED <<todo, src, pending, stats, dev, isMutate, backup, temp,
                   totalVE, arrays, history>>

(* One turn of the readdir loop: copy the mutant over the source, count it,  *)
(* read the kill count and start make (genResultsFOM up to the fork).        *)
InjectMutant(m) ==
    /\ pc = "readdir"
    /\ m \in pending
    /\ pc' = "make"
    /\ pending' = pending \ {m}
    /\ mut' = m
    /\ target' = [target EXCEPT ![src] = m]
    /\ Increment({"total_mutants"})
    /\ prev' = temp.kills
    /\ make' = "running"
    /\ proc' = [proc EXCEPT ![m] = [NoProcess EXCEPT !.st = "build"]]
    /\ UNCHANGED <<todo, src, stats, dev, isMutate, backup, temp, totalVE,
                   arrays, history>>

-----------------------------------------------------------------------------
(* make and the test programs *)

\* The mutant compiles, and make starts the first test program.
BuildSucceeds(m) ==
    /\ proc[m].st = "build"
    /\ proc' = [proc EXCEPT ![m].st = "tests"]
    /\ UNCHANGED <<control, locals, isMutate, files, temp, make, result, history>>

\* It does not compile: make exits with status 2.
BuildFails(m) ==
    /\ proc[m].st = "build"
    /\ proc' = [proc EXCEPT ![m] = NoProcess]
    /\ make' = "error"
    /\ UNCHANGED <<control, locals, isMutate, files, temp, result, history>>

\* The test program of mutant m returns 0 from main: a living make goes on
\* with the next one and exits with status 0 after the last.
SuiteReturns(m) ==
    IF MakeAlive(m) /\ proc[m].suite < NumSuites
    THEN /\ proc' = [proc EXCEPT ![m] = [NoProcess EXCEPT
                        !.st = "tests", !.suite = proc[m].suite + 1]]
         /\ make' = make
    ELSE /\ proc' = [proc EXCEPT ![m] = NoProcess]
         /\ make' = IF MakeAlive(m) THEN "ok" ELSE make

\* CuSuiteRun, failCount = 0: only the log is written ("survived!!").
SuitePasses(m) ==
    /\ proc[m].st = "tests"
    /\ SuiteReturns(m)
    /\ UNCHANGED <<control, locals, isMutate, files, temp, result, history>>

\* CuSuiteRun, failCount > 0: "status: (killed)" goes to the log.
SuiteFails(m) ==
    /\ proc[m].st = "tests"
    /\ \E f \in 1..NumTests :
          proc' = [proc EXCEPT ![m].st = "read", ![m].fails = f]
    /\ reported' = [reported EXCEPT ![m] = @ + 1]
    /\ UNCHANGED <<control, locals, isMutate, files, temp, make, result, verdict>>

\* The mutated code crashes the test program: make exits with status 2.
SuiteCrashes(m) ==
    /\ proc[m].st = "tests"
    /\ proc' = [proc EXCEPT ![m] = NoProcess]
    /\ make' = IF MakeAlive(m) THEN "error" ELSE make
    /\ UNCHANGED <<control, locals, isMutate, files, temp, result, history>>

\* The kill count a failing suite gets from the file.  CuTest takes the number
\* (0 if there is none); libcheck overwrites it with the result of fscanf.
CountRead(report) ==
    IF Framework = "cutest" THEN report.kills ELSE report.scanned

ReadKillCount(m) ==
    /\ proc[m].st = "read"
    /\ proc' = [proc EXCEPT ![m].st = "truncate", ![m].count = CountRead(temp)]
    /\ UNCHANGED <<control, locals, isMutate, files, temp, make, result, history>>

\* fopen(temp_results_path, "w+")
TruncateReport(m) ==
    /\ proc[m].st = "truncate"
    /\ proc' = [proc EXCEPT ![m].st = "write"]
    /\ temp' = Truncated
    /\ UNCHANGED <<control, locals, isMutate, files, make, result, history>>

\* What a failing suite of mutant m with f failed tests writes.
Report(m, count, f) ==
    [scanned |-> 1, kills |-> count + 1, failed |-> f, total |-> NumTests, by |-> m]

WriteReport(m) ==
    /\ proc[m].st = "write"
    /\ temp' = Report(m, proc[m].count, proc[m].fails)
    /\ SuiteReturns(m)
    /\ UNCHANGED <<control, locals, isMutate, files, result, history>>

TestProcess(m) ==
    \/ BuildSucceeds(m)
    \/ BuildFails(m)
    \/ SuitePasses(m)
    \/ SuiteFails(m)
    \/ SuiteCrashes(m)
    \/ ReadKillCount(m)
    \/ TruncateReport(m)
    \/ WriteReport(m)

-----------------------------------------------------------------------------
(* genResultsFOM after make *)

\* Mutation: a failed injection is not counted as a kill.
FailedInjectionNotKilled ==
    /\ pc' = "readdir"
    /\ Increment({"failed_injection"})
    /\ verdict' = [verdict EXCEPT ![mut] = "failed"]
    /\ UNCHANGED <<todo, src, pending, mut, locals, isMutate, files, temp,
                   totalVE, arrays, reported>>

\* make_result = 2: "mutation caused a runtime error".
RecordFailedInjection ==
    /\ pc' = "readdir"
    /\ Increment({"mutant_kill_count", "failed_injection"})
    /\ verdict' = [verdict EXCEPT ![mut] = "failed"]
    /\ UNCHANGED <<todo, src, pending, mut, locals, isMutate, files, temp,
                   totalVE, arrays, reported>>

\* make exited with status 2.
MakeFailed ==
    /\ pc = "make"
    /\ make = "error"
    /\ RecordFailedInjection
    /\ UNCHANGED tests

\* Mutation: startMake waits for as long as make runs.
NoTimeout == FALSE

\* startMake gives up after WAIT_MAX_IN_MS and kills make, possibly just after
\* make finished.  The test program of a late finisher runs on; that of any
\* other mutant is one that hangs, and is heard of no more.
MakeTimeout ==
    /\ pc = "make"
    /\ mut \in LateFinishers \/ proc[mut].st \in {"none", "build", "tests"}
    /\ RecordFailedInjection
    /\ make' = "killed"
    /\ proc' = [proc EXCEPT ![mut] =
                   IF mut \in LateFinishers /\ @.st # "build" THEN @ ELSE NoProcess]

\* Mutation: the count before make is not subtracted.
KilledByAnyCount(before, after) == after > 0

\* The test that decides whether the tests killed the mutant.
KilledByTests(before, after) == after - before = 1

\* Mutation: the array is never reallocated.
NeverGrown(size, capacity) == capacity

\* Capacity after the check that precedes a write: doubled once if exceeded.
Grown(size, capacity) == IF size > capacity THEN 2 * capacity ELSE capacity

\* IS_MUTATE for the run under Valgrind ("Make sure we do not get duplicate
\* output when lanching valgrind").
ValgrindKeepsIsMutate == "true"

ValgrindIsMutate == "false"

\* The branch counts are compared, the report is read, the mutant is taken for
\* killed or for a survivor, and Valgrind is started with IS_MUTATE=false.
EvaluateTests ==
    /\ pc = "make"
    /\ make = "ok"
    /\ stats' = temp
    /\ \E deviation \in 0..1 :
        /\ dev' = deviation
        /\ IF KilledByTests(prev, temp.kills)
           THEN /\ Increment({"mutant_kill_count"} \cup
                             IF deviation > 0 THEN {"caused_CFG_deviation"} ELSE {})
                /\ ntBuf' = Grown(temp.kills, ntBuf)
                /\ svBuf' = svBuf
                /\ verdict' = [verdict EXCEPT ![mut] = "killed"]
           ELSE /\ Increment(IF deviation > 0
                             THEN {"caused_CFG_deviation",
                                   "survived_caused_CFG_deviation"}
                             ELSE {})
                /\ svBuf' = Grown(Len(survived), svBuf)
                /\ ntBuf' = ntBuf
                /\ verdict' = [verdict EXCEPT ![mut] = "survived"]
    /\ isMutate' = ValgrindIsMutate
    /\ pc' = "valgrind"
    /\ UNCHANGED <<todo, src, pending, mut, prev, files, temp, tests, totalVE,
                   nonTrivial, survived, reported>>

\* Errors of a killed mutant beyond those of the unmutated program.
Adjusted(errors) ==
    IF errors > PUTValgrindErrors THEN errors - PUTValgrindErrors ELSE 0

\* The class counters: kind is "killed" or "survived", ve whether Valgrind's
\* count is taken to be new.  A killed mutant may be in no class.
DamageClass(kind, ve, deviates) ==
    CASE kind = "killed" /\ ve /\ deviates -> {"killed_SD"}
      [] kind = "killed" /\ ve /\ ~deviates ->
            {"killed_WD", "killed_WD_causedValgrindErrors"}
      [] kind = "killed" /\ ~ve /\ deviates ->
            {"killed_WD", "killed_WD_caused_CFG_deviation"}
      [] kind = "killed" /\ ~ve /\ ~deviates -> {}
      [] kind = "survived" /\ ve /\ deviates -> {"survived_SD"}
      [] kind = "survived" /\ ve /\ ~deviates ->
            {"survived_WD", "survived_WD_causedValgrindErrors"}
      [] kind = "survived" /\ ~ve /\ deviates ->
            {"survived_WD", "survived_WD_caused_CFG_deviation"}
      [] kind = "survived" /\ ~ve /\ ~deviates -> {"equivalent_mutants"}

\* The counts are those of the test suite that wrote the last report.
NonTrivial == stats.failed > 0 /\ stats.failed < stats.total
Dumb       == stats.failed > 0 /\ stats.failed = stats.total

\* Mutation: the errors of a killed mutant are not added up.
KilledErrorsNotTotalled(errors) ==
    LET count == IF errors = Nil THEN Nil ELSE Adjusted(errors)
        ve    == count # Nil /\ count # PUTValgrindErrors
    IN /\ Increment(DamageClass("killed", ve, dev > 0) \cup
                    IF Dumb THEN {"dumb_mutants"} ELSE {})
       /\ nonTrivial' = IF NonTrivial
                        THEN Append(nonTrivial, [mutant |-> mut, errors |-> count,
                                                 by |-> stats.by])
                        ELSE nonTrivial
       /\ UNCHANGED <<survived, totalVE>>

\* Killed: the count is adjusted, then compared with PUTValgrindErrors.
RecordKilled(errors) ==
    LET count == IF errors = Nil THEN Nil ELSE Adjusted(errors)
        ve    == count # Nil /\ count # PUTValgrindErrors
    IN /\ Increment(DamageClass("killed", ve, dev > 0) \cup
                    IF Dumb THEN {"dumb_mutants"} ELSE {})
       /\ totalVE' = IF count = Nil THEN totalVE ELSE totalVE + count
       /\ nonTrivial' = IF NonTrivial
                        THEN Append(nonTrivial, [mutant |-> mut, errors |-> count,
                                                 by |-> stats.by])
                        ELSE nonTrivial
       /\ UNCHANGED survived

\* Survived: the count is compared and recorded as Valgrind gave it.
RecordSurvived(errors) ==
    LET ve == errors # Nil /\ errors # PUTValgrindErrors
    IN /\ Increment(DamageClass("survived", ve, dev > 0))
       /\ totalVE' = IF errors = Nil THEN totalVE ELSE totalVE + errors
       /\ survived' = Append(survived, [mutant |-> mut, errors |-> errors])
       /\ UNCHANGED nonTrivial

\* genValgrindResult: the test program runs once more under Valgrind, and
\* reports only if IS_MUTATE is true; then the mutant is classified.
EvaluateValgrind ==
    /\ pc = "valgrind"
    /\ temp' = IF isMutate = "true" THEN Report(mut, CountRead(temp), NumTests) ELSE temp
    /\ \E errors \in ValgrindCounts :
          IF KilledByTests(prev, stats.kills)
          THEN RecordKilled(errors)
          ELSE RecordSurvived(errors)
    /\ isMutate' = "true"
    /\ pc' = "readdir"
    /\ UNCHANGED <<todo, src, pending, mut, locals, files, tests, ntBuf, svBuf,
                   history>>

-----------------------------------------------------------------------------
(* The end of a source file: process_source_file after inject_mutations *)

\* calculate_average_damage divides by total_valgrind_errors for every stored
\* mutant that has a Valgrind result.
DividesByZero ==
    /\ totalVE = 0
    /\ \/ \E i \in DOMAIN survived : survived[i].errors # Nil
       \/ \E i \in DOMAIN nonTrivial : nonTrivial[i].errors # Nil

\* Mutation: the original is not put back.
FinishWithoutRestore ==
    /\ pc = "readdir"
    /\ pending = {}
    /\ pc' = IF fom["total_mutants"] > 0 /\ DividesByZero THEN "crashed" ELSE "source"
    /\ todo' = todo \ {src}
    /\ UNCHANGED <<src, pending, mut, locals, isMutate, files, temp, tests,
                   result, history>>

\* Mutation: the source is left before all its mutants are read.
FinishEarly ==
    /\ pc = "readdir"
    /\ target' = [target EXCEPT ![src] = backup[src]]
    /\ pc' = "source"
    /\ todo' = todo \ {src}
    /\ UNCHANGED <<src, pending, mut, locals, isMutate, backup, temp, tests,
                   result, history>>

\* The original is put back if any mutant was injected, and the damage is
\* averaged, which ends the program if it divides by zero.
FinishSource ==
    /\ pc = "readdir"
    /\ pending = {}
    /\ target' = IF fom["total_mutants"] > 0
                 THEN [target EXCEPT ![src] = backup[src]]
                 ELSE target
    /\ pc' = IF fom["total_mutants"] > 0 /\ DividesByZero THEN "crashed" ELSE "source"
    /\ todo' = todo \ {src}
    /\ UNCHANGED <<src, pending, mut, locals, isMutate, backup, temp, tests,
                   result, history>>

\* main: no source is left.
Finish ==
    /\ pc = "source"
    /\ todo = {}
    /\ pc' = "done"
    /\ UNCHANGED <<todo, src, pending, mut, locals, isMutate, files, temp, tests,
                   result, history>>

Controller ==
    \/ \E s \in Sources : StartSource(s)
    \/ \E m \in Mutants : InjectMutant(m)
    \/ MakeFailed
    \/ MakeTimeout
    \/ EvaluateTests
    \/ EvaluateValgrind
    \/ FinishSource
    \/ Finish

Terminated ==
    /\ pc \in {"done", "crashed"}
    /\ UNCHANGED vars

Next == Controller \/ (\E m \in Mutants : TestProcess(m)) \/ Terminated

WritingReport(m) == ReadKillCount(m) \/ TruncateReport(m) \/ WriteReport(m)

\* The controller goes on: it waits for nothing but a child it polls a bounded
\* number of times.  A suite that is done with its tests gets to its report.
\* Nothing is assumed of a build or of the tests themselves, which may hang.
Fairness == WF_vars(Controller) /\ \A m \in Mutants : WF_vars(WritingReport(m))

Spec == Init /\ [][Next]_vars /\ Fairness

-----------------------------------------------------------------------------
(* Properties *)

Verdicts == {"none", "failed", "killed", "survived"}

ControlTypes ==
    /\ pc \in {"source", "readdir", "make", "valgrind", "done", "crashed"}
    /\ todo \subseteq Sources
    /\ src \in Sources \cup {Nil}
    /\ pending \subseteq Mutants
    /\ mut \in Mutants \cup {Nil}
    /\ prev \in Nat
    /\ stats \in Reports
    /\ dev \in 0..1
    /\ isMutate \in {"true", "false"}

FileTypes ==
    /\ target \in [Sources -> Mutants \cup {Original}]
    /\ backup \in [Sources -> Mutants \cup {Original, Nil}]
    /\ temp \in Reports

TestTypes ==
    /\ make \in {"running", "ok", "error", "killed"}
    /\ proc \in [Mutants -> Processes]
    /\ reported \in [Mutants -> Nat]
    /\ verdict \in [Mutants -> Verdicts]

\* The elements of the arrays; total_valgrind_errors adds up their errors.
ValgrindErrorCounts == Nat \cup {Nil}
NonTrivialMutants == [mutant : Mutants, errors : ValgrindErrorCounts,
                      by : Mutants \cup {Nil}]
SurvivedMutants   == [mutant : Mutants, errors : ValgrindErrorCounts]

ResultTypes ==
    /\ fom \in [Counters -> Nat]
    /\ totalVE \in Nat
    /\ nonTrivial \in Seq(NonTrivialMutants)
    /\ survived \in Seq(SurvivedMutants)
    /\ ntBuf \in Nat \ {0}
    /\ svBuf \in Nat \ {0}

\* Every variable has its type.
TypeOK == ControlTypes /\ FileTypes /\ TestTypes /\ ResultTypes

Killed == KilledByTests(prev, stats.kills)

\* The mutant Valgrind runs on is already judged, but not yet classified.
Surviving == pc = "valgrind" /\ ~Killed
Dying     == pc = "valgrind" /\ Killed

\* What the mutant under way still has to add to the counters.
Unjudged          == IF pc = "make" \/ Surviving THEN 1 ELSE 0
UnclassifiedKill  == IF Dying THEN 1 ELSE 0
SurvivorDeviation == IF Surviving /\ dev > 0 THEN 1 ELSE 0
KillDeviation     == IF Dying /\ dev > 0 THEN 1 ELSE 0

EveryMutantCounted ==
    fom["total_mutants"] = fom["mutant_kill_count"] + Len(survived)
                           + Unjudged

SurvivorsPartitioned ==
    Len(survived) = fom["equivalent_mutants"] + fom["survived_SD"] + fom["survived_WD"]

WeakSurvivorsSplit ==
    fom["survived_WD"] = fom["survived_WD_causedValgrindErrors"]
                         + fom["survived_WD_caused_CFG_deviation"]

WeakKillsSplit ==
    fom["killed_WD"] = fom["killed_WD_causedValgrindErrors"]
                       + fom["killed_WD_caused_CFG_deviation"]

KillsCoverDamage ==
    fom["failed_injection"] + fom["killed_SD"] + fom["killed_WD"] + UnclassifiedKill
       <= fom["mutant_kill_count"]

KillsCoverTriviality ==
    fom["failed_injection"] + fom["dumb_mutants"] + Len(nonTrivial) + UnclassifiedKill
       <= fom["mutant_kill_count"]

SurvivorDeviationsClassified ==
    fom["survived_caused_CFG_deviation"]
       = fom["survived_SD"] + fom["survived_WD_caused_CFG_deviation"] + SurvivorDeviation

DeviationsClassified ==
    fom["caused_CFG_deviation"]
       = fom["survived_caused_CFG_deviation"] + fom["killed_SD"]
         + fom["killed_WD_caused_CFG_deviation"] + KillDeviation

\* The counters of the report printed for a source file add up, whatever the
\* tests, make and Valgrind do: every injected mutant is killed or survived,
\* the classes of survivors partition them, the weakly damaging ones split by
\* cause, a kill is a failed injection, trivial or not, and each CFG deviation
\* shows up in one class (genResultsFOM increments them at different points).
TalliesAgree ==
    /\ EveryMutantCounted
    /\ SurvivorsPartitioned
    /\ WeakSurvivorsSplit
    /\ WeakKillsSplit
    /\ KillsCoverDamage
    /\ KillsCoverTriviality
    /\ SurvivorDeviationsClassified
    /\ DeviationsClassified

\* The counters count mutants: for the source in hand, the kills are the
\* mutants judged killed or failed, the stored survivors are the ones judged
\* survived and stored once each, and all are judged when the source is left.
VerdictsTallied ==
    src # Nil =>
        LET judged(vs) == {m \in MutantsOf[src] : verdict[m] \in vs}
        IN /\ fom["mutant_kill_count"] = Cardinality(judged({"failed", "killed"}))
           /\ Len(survived) + (IF Surviving THEN 1 ELSE 0)
                 = Cardinality(judged({"survived"}))
           /\ {survived[i].mutant : i \in DOMAIN survived}
                 = judged({"survived"}) \ (IF pc = "valgrind" THEN {mut} ELSE {})
           /\ pc \in {"source", "done"} => judged({"none"}) = {}

\* Mutants stay first-order: make never sees two mutated source files, the
\* mutant it builds is the one being judged, and once a source is finished its
\* original is back ("Re-inject the original source file into the project").
FirstOrderOnly ==
    /\ \A s \in Sources : target[s] # Original =>
          s = src /\ pc \in {"readdir", "make", "valgrind"}
    /\ pc \in {"make", "valgrind"} => target[src] = mut

\* The verdict the controller infers from the kill counts is the one the test
\* suite wrote to the log: killed after one failing suite, survived after none.
VerdictFaithful ==
    \A m \in Mutants : /\ verdict[m] = "killed" => reported[m] > 0
                       /\ verdict[m] = "survived" => reported[m] = 0

\* The tests stored with a non-trivial mutant are the tests that killed it
\* ("set of tests which killed this mutant"), and no mutant is stored twice.
KillersAreOwn ==
    /\ \A i \in DOMAIN nonTrivial : nonTrivial[i].by = nonTrivial[i].mutant
    /\ \A i, j \in DOMAIN nonTrivial :
          nonTrivial[i].mutant = nonTrivial[j].mutant => i = j

\* A non-trivial mutant is written inside non_trivial_FOMS, although the array
\* is grown by the kill count of the file and not by its own length.
NonTrivialInBounds ==
    pc = "valgrind" /\ Killed => Len(nonTrivial) < ntBuf

\* A survivor is written at most one slot behind the end of survived[].
SurvivedOverrunAtMostOne ==
    pc = "valgrind" /\ ~Killed => Len(survived) <= svBuf

\* The "status: (killed)" entries of the log for the mutants of the source.
LogEntries == UNION {{m} \X (1..reported[m]) : m \in MutantsOf[src]}

\* When no test program is running, the kill count in temp_results.log is the
\* number of "status: (killed)" entries the suites logged for this source: no
\* report is lost, and the run under Valgrind adds none (IS_MUTATE=false).
ReportsAccounted ==
    pc \in {"readdir", "valgrind"} /\ (\A m \in Mutants : proc[m].st = "none") =>
        temp.kills = Cardinality(LogEntries)

\* Mutants classified as causing Valgrind errors are the ones that added errors
\* to the total: if none was added, no killed mutant is in a class that
\* "Caused Valgrind errors", and mutants that are all equivalent add none.
ClassesMatchErrors ==
    /\ survived = << >> /\ totalVE = 0 =>
          fom["killed_SD"] = 0 /\ fom["killed_WD_causedValgrindErrors"] = 0
    /\ fom["equivalent_mutants"] = fom["total_mutants"] => totalVE = 0

\* Averaging the damage never divides by zero.
NoArithmeticFault == pc # "crashed"

\* What the report says about damage can be computed and fits the errors found:
\* classes and total agree, and the total is not zero where it is divided by.
DamageDefined == ClassesMatchErrors /\ NoArithmeticFault

\* The controller comes to an end, even if the tests of a mutant never do.
EvaluationTerminates == <>(pc \in {"done", "crashed"})

Ledger == INSTANCE VerdictLedger WITH
    open <- IF pc \in {"readdir", "make", "valgrind"} THEN src ELSE Nil

\* The evaluation implements the ledger: one judgement per mutant, in the
\* order of the sources, and the judgement the log calls for.
ImplementsLedger == Ledger!Spec
=============================================================================
