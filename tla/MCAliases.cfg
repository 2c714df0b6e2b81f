CONSTANTS
  IntHalf = 8
  LongHalf = 64
  NestedValue <- InterpretValue
  NestedType <- ParseTypeDescriptor
  NestedLogical <- Logical
  NestedFits <- Fits
  NestedMeaning <- Meaning
  NestedArtifact <- TypeArtifact
  TableArtifacts <- MCTables
  Artifacts <- FewArtifacts
  Types <- MCTypes
  Versions <- MCVersions
  KeySets <- MCKeySets
SPECIFICATION Spec
INVARIANTS
  OnlyDeclaredKeys
CHECK_DEADLOCK FALSE
