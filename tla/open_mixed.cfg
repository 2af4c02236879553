SPECIFICATION Spec
CONSTANTS
  Names = {x, y}
  x = x
  y = y
  NoDim = NoDim
  Labels = {1, 2}
  Contents <- FewContents
  Depth = 2
  Sources <- PathsOnly
  Spellings <- AbsoluteOnly
  MaxCommits = 1
INVARIANTS OneSnapshot
