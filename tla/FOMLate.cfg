SPECIFICATION Spec
CONSTANTS
  s1 = s1
  s2 = s2
  m1 = m1
  m2 = m2
  m3 = m3
  Sources = {s1, s2}
  Mutants = {m1, m2, m3}
  MutantsOf <- TwoSources
  NumSuites = 1
  NumTests = 2
  LateFinishers = {m1, m3}
  Framework = "cutest"
  PUTValgrindErrors = 2
  MaxErrors = 2
  InitialBuffer = 1
  Original = Original
  Nil = Nil
INVARIANTS TalliesAgree VerdictsTallied FirstOrderOnly
PROPERTIES EvaluationTerminates
