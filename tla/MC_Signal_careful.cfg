\* Callers that initialize each signal once.
CONSTANTS
  s1 = s1  s2 = s2
  Slots = {s1, s2}
  Formats = {"NONCONTIGUOUS", "CONTIGUOUS", "CONTIGUOUS_ZEROCOPY"}
  Types = {"DOUBLE", "SINGLE", "INT8"}
  Values = {0, 1}
  NumCells = 3
  MaxLen = 2
  MaxBuffers = 2
  Careful = TRUE
SPECIFICATION Spec
SYMMETRY SlotSymmetry
INVARIANTS
  TypeOK
  BuffersInBounds
  OwnersAreDistinct
  OwnedContentIsGiven
  NothingLeaked
PROPERTIES
  CopiesAreIndependent
