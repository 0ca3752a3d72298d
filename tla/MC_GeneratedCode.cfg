\* Two wrappers of the same model class in one process, one of them with a careless client.
CONSTANTS
  w1 = w1  w2 = w2
  b1 = b1  b2 = b2  b3 = b3
  k1 = k1  k2 = k2
  Wrappers = {w1, w2}
  Keys = {k1, k2}
  Order <- MixedOrder
  KeyOf <- MixedKeyOf
  Careless = {w2}
  Ported = {b1}
  Room = 1
  MaxInits = 2
SPECIFICATION Spec
CHECK_DEADLOCK FALSE
INVARIANTS
  TypeOK
  LoadedIffUsed
  NoNullPWork
  ReadyIsComplete
  TerminatedIsClean
PROPERTIES
  ImplementsLifetime
