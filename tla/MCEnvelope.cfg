CONSTANTS
  Imm = 4
  Widths <- MCWidths
  IntHalf <- Int64Half
  MaxDepth = 2
  MaxItems = 5
  BOM <- MCBOM
  ValidUTF8 <- MCValidUTF8
  IsNFC <- MCIsNFC
  Inputs <- MCInputs
  Keys <- MCKeys
  BadKey = "short"
  MaxSignatures = 2
  NestedEncode <- EncValue
SPECIFICATION EnvSpec
INVARIANTS
  EnvTypeOK
  SignaturesAreGated
PROPERTIES
  Attestation
CHECK_DEADLOCK FALSE
