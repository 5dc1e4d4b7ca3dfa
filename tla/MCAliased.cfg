SPECIFICATION EitherSpec
CONSTANTS
  Exprs <- AllExprs
  Blocks <- AllBlocks
  Words <- EveryWord
  Names <- Relations
  Consts <- Nodes
  Programs <- Programs1
  Sources <- Aliased
INVARIANT RunsAsWritten
CHECK_DEADLOCK FALSE
