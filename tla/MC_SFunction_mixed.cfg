\* One model, two classes of blocks, no block that logs and returns true; every
\* simulation ends under the fairness of the engine.  A debug build: a failing
\* assertion ends the process, which then takes no step.
CONSTANTS
  m1 = m1  m2 = m2
  b1 = b1  b2 = b2  b3 = b3
  k1 = k1  k2 = k2
  Models = {m1}
  Blocks = {b1, b2, b3}
  Keys = {k1, k2}
  ModelOf <- MixedModelOf
  KeyOf <- MixedKeyOf
  Sloppy = {}
  NDEBUG = FALSE
  MaxRuns = 2
SPECIFICATION FairSpec
INVARIANTS
  RefCountExact
  ObjectsKeepTheirFactory
  OnlySloppyErrorsPend
  ErrorsAttributed
  TerminatedIsClean
  UnusedIsUnstarted
PROPERTIES
  ImplementsLifetime
  EveryRunEnds
CHECK_DEADLOCK FALSE
