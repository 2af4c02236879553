SPECIFICATION Spec
CONSTANTS
  Patterns <- AnyPattern
  Stores <- AnyStore
INVARIANTS StarMatchIsFnMatch NoFalseNegative FilterAgrees
