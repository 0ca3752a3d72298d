\* A statement of the repository that the code does not keep.
CONSTANTS
  Declarable <- SmallDeclarable
  MaskValues <- SmallMaskValues
  Fragile <- FragileTexts
  Misread <- MisreadTexts
  MaxCalls = 5
SPECIFICATION Spec
CHECK_DEADLOCK FALSE
INVARIANTS
  TransparentTranslation
