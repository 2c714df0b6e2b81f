CONSTANTS
  Imm = 4
  Widths <- MCWidths
  IntHalf <- Int64Half
  MaxDepth = 2
  MaxItems = 7
  BOM <- MCBOM
  ValidUTF8 <- MCValidUTF8
  IsNFC <- MCIsNFC
  Inputs <- MCInputs
  Values <- MCValues
  Tails <- MCTails
  NestedLogical <- Logical
  NestedEncode <- EncValue
  NestedCount <- ItemCount
SPECIFICATION RTSpec
INVARIANTS
  EncodedDecodes
CHECK_DEADLOCK FALSE
