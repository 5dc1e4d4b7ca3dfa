SPECIFICATION Spec
CONSTANTS
  Inputs <- Awkward
  Insertions <- AllLines
  Fields <- ThreeFields
  Hashes <- TwoHashes
INVARIANT DecodeInvertsEncode
CHECK_DEADLOCK FALSE
