SPECIFICATION Spec
CONSTANTS
  s1 = s1
  s2 = s2
  m1 = m1
  m2 = m2
  m3 = m3
  Sources = {s1}
  Mutants = {m1, m2, m3}
  MutantsOf <- OneSource
  NumSuites = 1
  NumTests = 2
  LateFinishers = {m1}
  Framework = "cutest"
  PUTValgrindErrors = 0
  MaxErrors = 1
  InitialBuffer = 2
  Original = Original
  Nil = Nil
INVARIANT VerdictFaithful
