SPECIFICATION LiveSpec
CONSTANTS
  a = a
  b = b
  c = c
  d = d
  e = e
  Names = {a, b, c, d, e}
  Scripts <- TwoPairs
  Contents <- FileContents
  MaxWrites = 1
  MinVertices = 3
  MaxVertices = 4
  MinSize = 3
  MaxSize = 4
INVARIANTS TypeOK InStep ShownPathIsRight RefusedForItsEdges
PROPERTIES OnlyTheEndSpins ReadersAgree
CHECK_DEADLOCK FALSE
