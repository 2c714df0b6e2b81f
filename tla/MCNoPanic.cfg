CONSTANTS
  Imm = 4
  Widths <- MCWidths
  IntHalf <- Int64Half
  MaxDepth = 2
  MaxItems = 7
  BOM <- MCBOM
  ValidUTF8 <- MCValidUTF8
  IsNFC <- MCIsNFC
  Inputs <- LongArgs
  NestedEncode <- EncValue
SPECIFICATION Spec
INVARIANTS
  NoPanic
CHECK_DEADLOCK FALSE
