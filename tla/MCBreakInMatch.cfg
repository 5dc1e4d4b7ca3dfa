SPECIFICATION EitherSpec
CONSTANTS
  Exprs <- AllExprs
  Blocks <- AllBlocks
  Words <- EveryWord
  Names <- Relations
  Consts <- Nodes
  Programs <- Programs1
  Sources <- JumpInMatch
INVARIANT RunsAsWritten
CHECK_DEADLOCK FALSE
