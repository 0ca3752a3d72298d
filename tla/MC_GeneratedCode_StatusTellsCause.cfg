\* A statement of the repository that the code does not keep.
CONSTANTS
  w1 = w1  w2 = w2
  b1 = b1  b2 = b2  b3 = b3
  k1 = k1  k2 = k2
  Wrappers = {w1}
  Keys = {k1, k2}
  Order <- MixedOrder
  KeyOf <- MixedKeyOf
  Careless = {}
  Ported = {b1, b2, b3}
  Room = 3
  MaxInits = 1
SPECIFICATION Spec
CHECK_DEADLOCK FALSE
INVARIANTS
  StatusTellsCause
