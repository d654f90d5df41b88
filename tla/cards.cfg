SPECIFICATION Spec
CONSTANTS
  Ids = {"a", "b", "c"}
  Texts = {"t"}
  Indices <- MCIndices
  SizeT = 256
  MaxCards = 3
INVARIANTS
  TypeOK
  IndexInRange
  RefusedHasCause
PROPERTIES
  DeletionKeepsOthers
  LoadedWhole
CHECK_DEADLOCK FALSE
