SPECIFICATION Spec
CONSTANTS
  Patterns <- Dotted
  Stores <- Trees
INVARIANTS NoFalseNegative
