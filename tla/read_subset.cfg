SPECIFICATION Spec
CONSTANTS
  Word = 1024
  Requests <- MCRequests
INVARIANTS InBounds ReadsWhatIsSelected RaisesForAReason WholeTouchedChunks
