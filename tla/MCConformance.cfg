CONSTANTS
  Imm = 4
  Widths <- MCWidths
  IntHalf <- Int32Half
  MaxDepth = 4
  MaxItems = 20
  BOM <- MCBOM
  ValidUTF8 <- MCValidUTF8
  IsNFC <- MCIsNFC
  Inputs <- MCInputs
  Keys <- MCKeys
  BadKey = "short"
  MaxSignatures = 2
  Dollar = 9
  Tags <- MCTags
  Vectors <- Corpus
  MaxChecks = 2
  NestedValue <- MCNestedValue
  NestedType <- MCNestedType
  NestedLogical <- Logical
  NestedEncode <- EncValue
SPECIFICATION ConfSpec
INVARIANTS
  OneVerdict
  Consistent
  EncodePinsMeaning
