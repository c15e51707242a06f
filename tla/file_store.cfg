SPECIFICATION Spec
CONSTANTS
  Writers = {s1, s2}
  Texts <- MCTexts
  Keys = {k1, k2}
  Records = {r1, r2}
  NoRecord = NoRecord
  Inodes = {i1, i2}
  Nothing = Nothing
  Pieces = 2
SYMMETRY Symmetry
INVARIANTS TypeOK FileIsWhole PutTookEffect
PROPERTY ImplementsMap
