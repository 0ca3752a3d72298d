\* Two models share one class of blocks.
CONSTANTS
  m1 = m1  m2 = m2
  b1 = b1  b2 = b2  b3 = b3
  k1 = k1  k2 = k2
  Models = {m1, m2}
  Blocks = {b1, b2, b3}
  Keys = {k1}
  ModelOf <- SharedModelOf
  KeyOf <- SharedKeyOf
  Sloppy = {b1}
  NDEBUG = TRUE
  MaxRuns = 2
SPECIFICATION Spec
INVARIANTS
  TypeOK
  RefCountExact
  ObjectsKeepTheirFactory
  OnlySloppyErrorsPend
  ErrorsAttributed
  RunningBlocksExist
  TerminatedIsClean
  UnusedIsUnstarted
PROPERTIES
  ImplementsLifetime
