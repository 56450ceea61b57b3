SPECIFICATION Spec
CONSTANTS
  Operators = {"FOM1"}
  Suite = 2
  MaxMutants = 2
  Absent = Absent
  Torn = Torn
  Unset = Unset
INVARIANTS OperatorsAddUp RatiosDefined 
