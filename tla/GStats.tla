------------------------------- MODULE GStats -------------------------------
(***************************************************************************)
(* gstats.xml, the statistics kept from one run of the controller to the   *)
(* next: gstats.c, and the places of controller.c that update them.        *)
(*                                                                         *)
(* The controller opens the file for each mutant and each summary, changes *)
(* the document in memory and writes the whole file again.  It can be      *)
(* killed at any point, also while it writes; --gstats-collect and         *)
(* --gstats-clear may be called at any time, and run.sh removes the file   *)
(* before each subject.                                                    *)
(*                                                                         *)
(* An attribute that is missing reads as 0 and no counter is stored as 0,  *)
(* so a document gives every operator all its counters.  The sums of       *)
(* percentages, damage_raw and cfg_deviation_raw, count the mutants they   *)
(* are summed over.  valgrind_errors_count is written and never read, and  *)
(* is left out.                                                            *)
(***************************************************************************)
EXTENDS Integers, FiniteSets

CONSTANTS
    Operators,      \* the mutation codes
    Suite,          \* the number of tests in the suite
    MaxMutants,     \* bound on the mutants evaluated per operator
    Absent,         \* there is no file
    Torn,           \* the file does not parse
    Unset           \* a ratio that was not derived yet

ASSUME GStatsAssumption ==
    /\ Suite \in Nat \ {0}
    /\ MaxMutants \in Nat
    /\ Absent # Torn

VARIABLES
    disk,       \* gstats.xml: a document, Absent or Torn
    doc,        \* the document in memory
    phase,      \* what the controller is doing with the file
    job,        \* on whose behalf
    mutants,    \* fomResult->total_mutants
    owed,       \* per operator, the mutants calculate_average_damage will charge
    history,    \* what happened since the file was created, per operator
    disturbed   \* 1 once a command has changed the file of a running controller

vars == <<disk, doc, phase, job, mutants, owed, history, disturbed>>

Counters == {"generated_mutants", "failed_injection", "killed_by_tests",
             "killed_SD", "killed_WD", "killed_WD_VE", "killed_WD_CFD",
             "equivalent_mutants", "survived_SD", "survived_WD",
             "survived_WD_VE", "survived_WD_CFD", "cfg_deviation_raw",
             "damage_raw"}

Ratios == {"damage", "fragilty", "average_CFD", "infectiveness",
           "valgrind_immunity", "CFD_immunity"}

Jobs   == {"mutant", "damage", "aggregate", "derived"}
Phases == {"idle", "closed", "open", "saving"}

Empty ==
    [count |-> [op \in Operators |-> [k \in Counters |-> 0]],
     ratio |-> [op \in Operators |-> [r \in Ratios |-> Unset]]]

Unused == [op \in Operators |-> [mutants |-> 0, run |-> 0, failed |-> 0]]

-----------------------------------------------------------------------------
(* The controller's updates *)

\* Add 1 to each counter in keys, get_gstat_value_mutation first.
Bump(d, op, keys) ==
    [d EXCEPT !.count[op] =
        [k \in Counters |-> IF k \in keys THEN @[k] + 1 ELSE @[k]]]

\* The counters of a mutant that is killed or survives: ve if Valgrind's count
\* is not the one of the unmutated program, deviates if branch counts differ.
KilledKeys(ve, deviates) ==
    {"killed_by_tests"} \cup
    CASE ve /\ deviates   -> {"killed_SD"}
      [] ve /\ ~deviates  -> {"killed_WD", "killed_WD_VE"}
      [] ~ve /\ deviates  -> {"killed_WD", "killed_WD_CFD"}
      [] ~ve /\ ~deviates -> {}

\* Mutation: a survivor that differs in nothing is in no class.
SurvivedKeysNotEquivalent(ve, deviates) ==
    CASE ve /\ deviates   -> {"survived_SD"}
      [] ve /\ ~deviates  -> {"survived_WD", "survived_WD_VE"}
      [] ~ve /\ deviates  -> {"survived_WD", "survived_WD_CFD"}
      [] ~ve /\ ~deviates -> {}

SurvivedKeys(ve, deviates) ==
    CASE ve /\ deviates   -> {"survived_SD"}
      [] ve /\ ~deviates  -> {"survived_WD", "survived_WD_VE"}
      [] ~ve /\ deviates  -> {"survived_WD", "survived_WD_CFD"}
      [] ~ve /\ ~deviates -> {"equivalent_mutants"}

DeviationKeys(deviates) == IF deviates THEN {"cfg_deviation_raw"} ELSE {}

\* Mutation: a missing generated_mutants is not noticed.
RatioUnguarded(n, generated, old) == IF n = 0 THEN old ELSE <<n, generated>>

\* A ratio is a pair; it keeps its value if the counter it needs is missing.
Ratio(n, generated, old) == IF n = 0 \/ generated = 0 THEN old ELSE <<n, generated>>

Immunity(survived, killed) ==
    CASE survived = 0                -> <<0, 1>>
      [] survived > 0 /\ killed = 0  -> <<1, 1>>
      [] survived > 0 /\ killed > 0  -> <<survived, survived + killed>>

\* generate_derived_stats for one operator; count are its counters.
DerivedOf(count, old) ==
    LET g == count["generated_mutants"] IN
    [damage            |-> Ratio(count["damage_raw"], g, old["damage"]),
     fragilty          |-> Ratio(count["killed_by_tests"], g, old["fragilty"]),
     average_CFD       |-> Ratio(count["cfg_deviation_raw"], g, old["average_CFD"]),
     infectiveness     |-> IF count["failed_injection"] = 0 \/ g = 0
                           THEN old["infectiveness"]
                           ELSE <<g - count["failed_injection"], g>>,
     valgrind_immunity |-> Immunity(count["survived_WD_VE"], count["killed_WD_VE"]),
     CFD_immunity      |-> Immunity(count["survived_WD_CFD"], count["killed_WD_CFD"])]

\* Only operators that have an entry in the document.
generate_derived_stats(d) ==
    [d EXCEPT !.ratio = [op \in Operators |->
        IF \A k \in Counters : d.count[op][k] = 0
        THEN @[op]
        ELSE DerivedOf(d.count[op], @[op])]]

-----------------------------------------------------------------------------
(* The file *)

\* The document that open_GStats leaves in memory and, since a new one is
\* flushed at once, in the file.
Parsed(file) == IF file \in {Absent, Torn} THEN Empty ELSE file

Recreated(file) == IF file \in {Absent, Torn} THEN Unused ELSE history

\* Mutation: the document in memory is kept from one open to the next.
OpenKeepsDocument ==
    /\ doc' = doc
    /\ disk' = Parsed(disk)
    /\ history' = Recreated(disk)

open_GStats ==
    /\ doc' = Parsed(disk)
    /\ disk' = Parsed(disk)
    /\ history' = Recreated(disk)

\* xmlSaveFormatFileEnc truncates the file, writes it and closes it.  In
\* between, it does not parse.
StartFlush(d) ==
    /\ phase = "open"
    /\ phase' = "saving"
    /\ doc' = d
    /\ disk' = Torn

\* If the file was removed meanwhile, what is written goes with it; if it was
\* replaced by an empty document, the two may have been mixed up.
FlushedFile ==
    CASE disk = Torn              -> {doc}
      [] disk = Absent            -> {Absent}
      [] disk \notin {Torn, Absent} -> {doc, Torn}

-----------------------------------------------------------------------------
Init ==
    /\ disk = Absent
    /\ doc = Empty
    /\ phase = "idle"
    /\ job = "mutant"
    /\ mutants = 0
    /\ owed = [op \in Operators |-> 0]
    /\ history = Unused
    /\ disturbed = 0

\* main: with a single argument the file is opened and closed once.
Start ==
    /\ phase = "idle"
    /\ phase' = "closed"
    /\ \/ open_GStats
       \/ UNCHANGED <<disk, doc, history>>
    /\ UNCHANGED <<job, mutants, owed, disturbed>>

\* process_source_file: another mutant, or the damage and then the totals.
Open(j) ==
    /\ phase = "closed"
    /\ \/ job = "mutant" /\ j \in {"mutant", "damage"} /\ (j = "damage" => mutants > 0)
       \/ job = "aggregate" /\ j = "aggregate"
    /\ open_GStats
    /\ job' = j
    /\ phase' = "open"
    /\ UNCHANGED <<mutants, owed, disturbed>>

Log(op, run, failed) ==
    history' = [history EXCEPT ![op] = [mutants |-> @.mutants + 1,
                                        run     |-> @.run + run,
                                        failed  |-> @.failed + failed]]

\* The end of genResultsFOM, with all its updates of the document.
genResultsFOM(op) ==
    /\ job = "mutant"
    /\ mutants < MaxMutants /\ history[op].mutants < MaxMutants
    /\ doc.count[op]["generated_mutants"] < MaxMutants
    /\ mutants' = mutants + 1
    /\ \/ /\ StartFlush(Bump(doc, op, {"generated_mutants", "failed_injection"}))
          /\ Log(op, 0, 0)
          /\ UNCHANGED owed
       \/ \E ve, deviates \in BOOLEAN, failed \in 1..Suite, result \in 0..1 :
          /\ ve => result = 1
          /\ StartFlush(Bump(doc, op, {"generated_mutants"} \cup DeviationKeys(deviates)
                                      \cup KilledKeys(ve, deviates)))
          /\ Log(op, Suite, failed)
          /\ owed' = [owed EXCEPT ![op] = IF failed < Suite THEN @ + result ELSE @]
       \/ \E ve, deviates \in BOOLEAN, result \in 0..1 :
          /\ ve => result = 1
          /\ StartFlush(Bump(doc, op, {"generated_mutants"} \cup DeviationKeys(deviates)
                                      \cup SurvivedKeys(ve, deviates)))
          /\ Log(op, Suite, 0)
          /\ owed' = [owed EXCEPT ![op] = @ + result]
    /\ UNCHANGED <<job, disturbed>>

\* The damage of each survivor and each non-trivial FOM that has a Valgrind
\* result.
Charged(d) ==
    [d EXCEPT !.count = [op \in Operators |->
        [d.count[op] EXCEPT !["damage_raw"] = @ + owed[op]]]]

calculate_average_damage ==
    /\ job = "damage"
    /\ StartFlush(Charged(doc))
    /\ UNCHANGED <<job, mutants, owed, history, disturbed>>

\* total_tests_run is updated: no counter of an operator changes.
Aggregate ==
    /\ job = "aggregate"
    /\ StartFlush(doc)
    /\ UNCHANGED <<job, mutants, owed, history, disturbed>>

Derive ==
    /\ job = "derived"
    /\ StartFlush(generate_derived_stats(doc))
    /\ UNCHANGED <<job, mutants, owed, history, disturbed>>

\* The write ends; after all but the totals, which the derived statistics
\* follow at once, the file is closed.
EndFlush ==
    /\ phase = "saving"
    /\ disk' \in FlushedFile
    /\ \/ job = "mutant" /\ phase' = "closed" /\ UNCHANGED <<job, mutants, owed>>
       \/ job = "damage" /\ phase' = "closed" /\ job' = "aggregate" /\ UNCHANGED <<mutants, owed>>
       \/ job = "aggregate" /\ phase' = "open" /\ job' = "derived" /\ UNCHANGED <<mutants, owed>>
       \/ /\ job = "derived"
          /\ phase' = "closed"
          /\ job' = "mutant"
          /\ mutants' = 0
          /\ owed' = [op \in Operators |-> 0]
    /\ UNCHANGED <<doc, history, disturbed>>

\* The controller exits after its last source, or dies at any point.
Stop ==
    /\ phase # "idle"
    /\ phase' = "idle"
    /\ job' = "mutant"
    /\ mutants' = 0
    /\ owed' = [op \in Operators |-> 0]
    /\ doc' = Empty
    /\ UNCHANGED <<disk, history, disturbed>>

Disturbs(file) == IF phase # "idle" /\ file # disk THEN 1 ELSE disturbed

\* --gstats-collect prints the file, and replaces one that does not parse.
Collect ==
    /\ disk' = Parsed(disk)
    /\ history' = Recreated(disk)
    /\ disturbed' = Disturbs(Parsed(disk))
    /\ UNCHANGED <<doc, phase, job, mutants, owed>>

\* --gstats-clear, or the removal at the start of a subject in run.sh.
clear_GStats ==
    /\ disk' = Absent
    /\ history' = Unused
    /\ disturbed' = Disturbs(Absent)
    /\ UNCHANGED <<doc, phase, job, mutants, owed>>

Next ==
    \/ Start
    \/ \E j \in Jobs : Open(j)
    \/ \E op \in Operators : genResultsFOM(op)
    \/ calculate_average_damage
    \/ Aggregate
    \/ Derive
    \/ EndFlush
    \/ Stop
    \/ Collect
    \/ clear_GStats

Spec == Init /\ [][Next]_vars

-----------------------------------------------------------------------------
(* Properties *)

Documents ==
    [count : [Operators -> [Counters -> Nat]],
     ratio : [Operators -> [Ratios -> (Nat \X Nat) \cup {Unset}]]]

\* Neither is a document.
ASSUME FileAssumption == Absent \notin Documents /\ Torn \notin Documents

\* The variables have the values the declarations say.
TypeOK ==
    /\ disk \in Documents \cup {Absent, Torn}
    /\ doc \in Documents
    /\ phase \in Phases
    /\ job \in Jobs
    /\ mutants \in Nat
    /\ owed \in [Operators -> Nat]
    /\ history \in [Operators -> [mutants : Nat, run : Nat, failed : Nat]]
    /\ disturbed \in 0..1

AddsUp(count) ==
    /\ count["generated_mutants"] =
          count["failed_injection"] + count["killed_by_tests"]
          + count["equivalent_mutants"] + count["survived_SD"] + count["survived_WD"]
    /\ count["survived_WD"] = count["survived_WD_VE"] + count["survived_WD_CFD"]
    /\ count["killed_WD"] = count["killed_WD_VE"] + count["killed_WD_CFD"]
    /\ count["killed_SD"] + count["killed_WD"] <= count["killed_by_tests"]

\* Whenever gstats.xml can be read, the counters of every operator add up: each
\* generated mutant is in exactly one class.  No crash and no command leaves a
\* mutant half recorded, because genResultsFOM flushes once, at its end.
OperatorsAddUp ==
    disk \notin {Absent, Torn} => \A op \in Operators : AddsUp(disk.count[op])

\* The derived statistics in the file are never divided by a missing count, and
\* apart from the damage they lie between 0 and 1, even if the file is cleared
\* between the mutants of a source and its damage (generate_derived_stats tests
\* generated_mutants!=-1).
RatiosDefined ==
    disk \notin {Absent, Torn} =>
        \A op \in Operators, r \in Ratios :
            LET q == disk.ratio[op][r]
            IN q # Unset => q[2] > 0 /\ (r # "damage" => q[1] <= q[2])

\* Unless a command changed the file under a running controller, it knows every
\* mutant evaluated since it was created, in whatever run of the controller and
\* wherever that was killed, charges damage to no other mutants, and counts a mutant
\* as killed only if a test of it failed.
HistoryKept ==
    disturbed = 0 /\ disk \notin {Absent, Torn} =>
        \A op \in Operators :
            LET count == disk.count[op]
            IN /\ count["generated_mutants"] = history[op].mutants
               /\ count["damage_raw"] <= count["generated_mutants"]
               /\ count["killed_by_tests"] <= history[op].failed
=============================================================================
