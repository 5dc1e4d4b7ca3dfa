SPECIFICATION Spec
CONSTANTS
  Inputs <- Usual
  Insertions <- AllLines
  Fields <- ThreeFields
  Hashes <- TwoHashes
INVARIANT EmptyMeansCurrent
CHECK_DEADLOCK FALSE
