------------------------------ MODULE EngineMC ------------------------------
(* The parts of the engine around the evaluation of a mutant: a behaviour    *)
(* belongs to one of them.                                                  *)
EXTENDS Supervisor, HomSearch, SourceWalk, Evaluators, HashSetIterator,
        EngineRuns

\* A program with a file of the same name in two directories, and the settings
\* that name files, directories, both and the whole of it
Tree ==
    (<<"put">> :> {"src", "doc"}) @@ (<<"put", "src">> :> {"a.c", "b.c", "lib", "a.h"})
    @@ (<<"put", "src", "lib">> :> {"a.c"}) @@ (<<"put", "doc">> :> {})

Settings ==
    {<<<<"src", "a.c">>, <<"src", "b.c">>>>, <<<<"src", "a.c">>, <<"src", "lib">>, <<"src", "b.c">>>>,
     <<<<"src">>>>, <<<<>>>>, <<<<"src", "lib">>, <<>>>>, <<<<"doc">>, <<"src">>>>}

Subjects == <<"cbuffer", "heap">>

Init ==
    \/ SupInit \/ HomInit \/ WalkInit \/ CfgInit \/ VgInit \/ ItrInit \/ DrvInit \/ StInit

Next ==
    \/ SupNext \/ HomNext \/ WalkNext \/ CfgNext \/ VgNext \/ ItrNext \/ DrvNext \/ StNext

Spec == Init /\ [][Next]_subjectVars /\ SupFairness /\ HomFairness

-----------------------------------------------------------------------------
\* What a mutant is charged with: its deviation from the branches of the original
\* program is its own, or the last measured one if it has no coverage, and the
\* location of a Valgrind error lists the functions above the test runner.
EvaluatorsExact == CfgMeasuresOwn /\ CfgMeasuresLast /\ VgLocated

\* The controller's calls return: those that start a program whatever the program
\* does, and the search for higher-order mutants if it can build none.
CallsReturn == SupReturns /\ HomGivesUp
=============================================================================
