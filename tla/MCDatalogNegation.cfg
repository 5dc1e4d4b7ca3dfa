SPECIFICATION Spec
CONSTANTS
  Names <- Relations
  Consts <- Nodes
  Programs <- NegationPrograms
INVARIANT NegationIsFailure
CHECK_DEADLOCK FALSE
