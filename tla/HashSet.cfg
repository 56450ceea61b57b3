SPECIFICATION Spec
CONSTANTS
  AddInputs = {0, 1, 2, 3, 9, 10, 17, 18}
  RemoveInputs = {10}
  QueryInputs = {2, 18, 26}
  MaxBits = 4
INVARIANTS ItemsReachable
PROPERTIES ImplementsSet
