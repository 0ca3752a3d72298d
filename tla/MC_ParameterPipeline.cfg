\* One block, from its mask to the generated program.
CONSTANTS
  Declarable <- SmallDeclarable
  MaskValues <- SmallMaskValues
  Fragile <- FragileTexts
  Misread <- MisreadTexts
  MaxCalls = 5
SPECIFICATION Spec
CHECK_DEADLOCK FALSE
INVARIANTS
  TypeOK
  StoresCoherent
  GeneratedAccepts
  RoundTrip
PROPERTIES
  ParseOnlyAdds
