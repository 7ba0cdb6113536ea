SPECIFICATION FairSpec
CONSTANTS
  Writers = {w1}
  Readers = {r1, r2}
  MaxStores = 3
  FrameReaders = {f1, f2}
  MaxSeq = 4
  Size = 4
  Levels = {0, 1, 2}
  MaxPushes = 9
  Trippers = {t1, t2}
  Resetters = {s1}
  Checkers = {c1}
  Reasons = {1, 5}
  MayForce = TRUE
  MaxTrips = 3
  Askers = {a1, a2}
  NonceMax = 4
  Minima = {0, 2, 4}
  MaxResets = 2
CHECK_DEADLOCK FALSE
INVARIANTS NoTornRead FrameConsistent FirstReasonWins
PROPERTIES IsBoundedLog LoadsReturn NoncesIncrease
