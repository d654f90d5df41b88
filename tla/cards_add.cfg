SPECIFICATION Spec
CONSTANTS
  Ids = {"a", "b"}
  Texts = {"t"}
  Indices <- MCIndices
  SizeT = 256
  MaxCards = 2
INVARIANTS
  AddedIsListed
CHECK_DEADLOCK FALSE
