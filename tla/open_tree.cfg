SPECIFICATION Spec
CONSTANTS
  Names = {x, y}
  x = x
  y = y
  NoDim = NoDim
  Labels = {1, 2}
  Contents <- FewContents
  Depth = 2
  Sources <- AllSources
  Spellings <- FewSpellings
  MaxCommits = 1
INVARIANTS TypeOK SnapshotPinned CoordsOfSlice MissingMeansMissing
