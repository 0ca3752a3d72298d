\* A statement of the repository that the code does not keep.
CONSTANTS
  m1 = m1  m2 = m2
  b1 = b1  b2 = b2  b3 = b3
  k1 = k1  k2 = k2
  Models = {m1}
  Blocks = {b1, b2, b3}
  Keys = {k1, k2}
  ModelOf <- MixedModelOf
  KeyOf <- MixedKeyOf
  Sloppy = {}
  NDEBUG = TRUE
  MaxRuns = 1
SPECIFICATION Spec
INVARIANT NoObjectForgotten
