CONSTANTS
  Imm = 4
  Widths <- MCWidths
  IntHalf <- Int32Half
  MaxDepth = 2
  MaxItems = 7
  BOM <- MCBOM
  ValidUTF8 <- MCValidUTF8
  IsNFC <- MCIsNFC
  Inputs <- NarrowInputs
  NestedEncode <- EncValue
SPECIFICATION Spec
INVARIANTS
  AcceptedReencodes
CHECK_DEADLOCK FALSE
