CONSTANTS
  Uploads <- MCTwoUploads
  Size <- MCTwoSizes
  Downloads = {d1}
SPECIFICATION Spec
INVARIANT StoredIsAPhoto
CHECK_DEADLOCK FALSE
