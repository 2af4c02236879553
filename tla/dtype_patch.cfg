SPECIFICATION Spec
CONSTANTS
  t1 = t1
  t2 = t2
  t3 = t3
  Threads <- MCThreads
  MaxEntries = 4
SYMMETRY Symmetry
INVARIANTS TypeOK FallsBackToOlder RestoredIfAlone NoPeekIfAlone
