SPECIFICATION CallSpec
CONSTANTS
  Names <- MCNames
  Groups <- MCGroups
  Arrays <- MCArrays
  Root <- StoreRoot
  Recursive = TRUE
  Keep <- AllButC
  Faulty <- AFault
  Unset = Unset
  MaxConcurrency = 2
  MaxWrites = 1
  Refusals <- EitherRefusal
  Stores <- MCStores
  MetaOf <- MCMetaOf
  Word = 256
  MaxElements = 20
  MaxObjectElements = 4
  MaxObjectBytes = 10
INVARIANTS TypeOK PreOrder WholeSemaphore Structured NeverStuck
INVARIANTS OneSemaphore ResidentWithinCaps OwnValues
PROPERTIES KeepsPromise Terminates
