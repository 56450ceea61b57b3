-------------------------- MODULE FOMEvaluationMC --------------------------
(* Small instances of FOMEvaluation: two sources with two mutants and one, *)
(* or one source with three.                                               *)
EXTENDS FOMEvaluation, TLC

CONSTANTS s1, s2, m1, m2, m3

TwoSources == (s1 :> {m1, m2}) @@ (s2 :> {m3})
OneSource  == s1 :> {m1, m2, m3}
=============================================================================
