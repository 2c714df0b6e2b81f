CONSTANTS
  Imm = 4
  Widths <- MCWidths
  IntHalf <- Int64Half
  MaxDepth = 2
  MaxItems = 7
  BOM <- MCBOM
  ValidUTF8 <- MCValidUTF8
  IsNFC <- MCIsNFC
  Inputs <- MCInputs
  NestedEncode <- EncValue
SPECIFICATION Spec
INVARIANTS
  TypeOK
  AcceptedIsCanonical
  AcceptedReencodes
  WithinLimits
PROPERTIES
  OnlyForward
  PanicsOnlyOnHugeLengths
  LinearTime
  Termination
CHECK_DEADLOCK FALSE
