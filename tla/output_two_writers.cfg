SPECIFICATION Spec
CONSTANTS
  Writers = {w1, w2}
  Texts = {t1, t2, t3}
  Inodes = {i1, i2, i3, i4}
  Nothing = Nothing
  Pieces = 2
SYMMETRY Symmetry
INVARIANT FileIsWhole
