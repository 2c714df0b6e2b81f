CONSTANTS
  IntHalf = 64
  LongHalf = 64
  NestedValue <- InterpretValue
  NestedType <- ParseTypeDescriptor
  NestedLogical <- Logical
  NestedFits <- Fits
  NestedMeaning <- Meaning
  NestedArtifact <- TypeArtifact
  TableArtifacts <- MCTables
  Artifacts <- MCArtifacts
  Types <- None
  Versions <- None
  KeySets <- None
SPECIFICATION Spec
INVARIANTS
  TablesSound
  NeverMalformed
  InterpretIsFaithful
  AccessorsAgree
  LoadsAgree
  TablesReload
CHECK_DEADLOCK FALSE
