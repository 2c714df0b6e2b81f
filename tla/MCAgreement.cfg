CONSTANTS
  Imm = 4
  Widths <- MCWidths
  BOM <- MCBOM
  ValidUTF8 <- MCValidUTF8
  IsNFC <- MCIsNFC
  Inputs <- MCInputs
  IntHalfA <- Int64Half
  MaxDepthA = 1
  MaxItemsA = 6
  IntHalfB <- Int32Half
  MaxDepthB = 2
  MaxItemsB = 3
  Tails <- MCTails
SPECIFICATION Spec
INVARIANTS
  SameVerdict
  SettledByPrefix
CHECK_DEADLOCK FALSE
