--------------------------- MODULE VerdictLedger ---------------------------
(***************************************************************************)
(* What the evaluation of first-order mutants promises its user, without   *)
(* make, files or counters: the mutants of one source file at a time are   *)
(* each judged exactly once, and the judgement is the one the test suites  *)
(* wrote to mutation_results.log: "killed" exactly if some suite logged    *)
(* "status: (killed)", unless the mutant could not be run ("failed").      *)
(***************************************************************************)
EXTENDS Naturals

CONSTANTS Sources, Mutants, MutantsOf, Nil

VARIABLES
    open,       \* the source whose mutants are being judged, or Nil
    reported,   \* mutant |-> "status: (killed)" entries in the log
    verdict     \* mutant |-> "none", "failed", "killed" or "survived"

vars == <<open, reported, verdict>>

Init ==
    /\ open = Nil
    /\ reported = [m \in Mutants |-> 0]
    /\ verdict = [m \in Mutants |-> "none"]

Open(s) ==
    /\ open = Nil
    /\ open' = s
    /\ UNCHANGED <<reported, verdict>>

\* A suite reports only on a mutant that is not judged yet.
Report(m) ==
    /\ open # Nil
    /\ m \in MutantsOf[open]
    /\ verdict[m] = "none"
    /\ reported' = [reported EXCEPT ![m] = @ + 1]
    /\ UNCHANGED <<open, verdict>>

Judge(m, v) ==
    /\ open # Nil
    /\ m \in MutantsOf[open]
    /\ verdict[m] = "none"
    /\ v = "killed" => reported[m] > 0
    /\ v = "survived" => reported[m] = 0
    /\ verdict' = [verdict EXCEPT ![m] = v]
    /\ UNCHANGED <<open, reported>>

\* A source is left only when all its mutants are judged.
Close ==
    /\ open # Nil
    /\ \A m \in MutantsOf[open] : verdict[m] # "none"
    /\ open' = Nil
    /\ UNCHANGED <<reported, verdict>>

Next ==
    \/ \E s \in Sources : Open(s)
    \/ \E m \in Mutants : Report(m)
    \/ \E m \in Mutants : \E v \in {"failed", "killed", "survived"} : Judge(m, v)
    \/ Close

Spec == Init /\ [][Next]_vars
=============================================================================
