\* A statement of the repository that the code does not keep.
CONSTANTS
  s1 = s1  s2 = s2
  Slots = {s1, s2}
  Formats = {"NONCONTIGUOUS", "CONTIGUOUS", "CONTIGUOUS_ZEROCOPY"}
  Types = {"DOUBLE"}
  Values = {0, 1}
  NumCells = 3
  MaxLen = 2
  MaxBuffers = 2
  Careful = TRUE
SPECIFICATION Spec
SYMMETRY SlotSymmetry
INVARIANTS
  NonContiguousIsGathered
