----------------------------- MODULE LibcheckMC -----------------------------
(***************************************************************************)
(* The test library libcheck: a behaviour is the run of a test case, the   *)
(* reading of its messages, or the life of a list.                         *)
(***************************************************************************)
EXTENDS CheckRun, CheckPack, CheckList

Init == CkInit \/ PackInit \/ LstInit

Next == CkNext \/ PackNext \/ LstNext

Spec == Init /\ [][Next]_subjectVars /\ CkFairness

\* What was put in is met again, all of it and in order: the messages of a test by
\* punpack, the elements of a list by a loop over it.
ReadInOrder == PackRoundTrip /\ LstLoops
=============================================================================
