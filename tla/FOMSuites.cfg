SPECIFICATION Spec
CONSTANTS
  s1 = s1
  s2 = s2
  m1 = m1
  m2 = m2
  m3 = m3
  Sources = {s1}
  Mutants = {m1, m2, m3}
  MutantsOf <- OneSource
  NumSuites = 2
  NumTests = 2
  LateFinishers = {}
  Framework = "cutest"
  PUTValgrindErrors = 0
  MaxErrors = 1
  InitialBuffer = 1
  Original = Original
  Nil = Nil
INVARIANTS ReportsAccounted NonTrivialInBounds SurvivedOverrunAtMostOne
