SPECIFICATION Spec
CONSTANTS
  Names <- MCNames
  Groups <- MCGroups
  Arrays <- MCArrays
  Root <- StoreRoot
  Keep <- AllButC
  Faulty <- AFault
  Recursive = TRUE
  Unset = Unset
  MaxConcurrency = 2
  MaxWrites = 0
INVARIANTS TotalInFlightBounded
