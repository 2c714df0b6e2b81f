CONSTANTS
  IntHalf = 64
  LongHalf = 64
  NestedValue <- InterpretValue
  NestedType <- ParseTypeDescriptor
  NestedLogical <- Logical
  NestedFits <- Fits
  NestedMeaning <- Meaning
  NestedArtifact <- TypeArtifact
  TableArtifacts <- FewTables
  Artifacts <- FewArtifacts
  Types <- MCTypes
  Versions <- MCVersions
  KeySets <- MCKeySets
SPECIFICATION Spec
INVARIANTS
  AnswersStand
  ActsOnWhatWasSent
CHECK_DEADLOCK FALSE
