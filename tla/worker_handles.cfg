SPECIFICATION Spec
CONSTANTS
  client = client
  worker = worker
  temp = temp
  NoArray = NoArray
  Procs <- MCProcs
  Client = client
  Arrays <- MCArrays
  Skewed <- MCSkewed
  Flaky <- MCFlaky
  MaxCommits = 1
INVARIANTS TypeOK ReadsPinned StaysPicklable RaisesForAReason
PROPERTIES OnlyLateForksHang
