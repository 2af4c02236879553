SPECIFICATION Spec
CONSTANTS
  Names <- MCNames
  Groups <- MCGroups
  Arrays <- MCArrays
  Root <- StoreRoot
  Recursive = TRUE
  Keep <- MCKeep
  Snapshots <- AnySnapshots
  Spelling <- MCSpelling
  Refusals <- EitherRefusal
  Corrupt <- MCCorrupt
  Panicky <- MCPanicky
INVARIANTS TypeOK SameAnswerInAnyOrder NoneLeftBehind NoArrayLost
PROPERTIES Terminates KeepsPromise
