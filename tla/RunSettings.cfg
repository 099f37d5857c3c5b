CONSTANTS
  Readers = {r1, r2}
  Savers = {s1, s2}
  Keys = {k1, k2}
  MaxSaves = 1
  NoCopy = NoCopy
SPECIFICATION Spec
SYMMETRY Symmetry
INVARIANTS ServedFresh QuietCacheIsTable
