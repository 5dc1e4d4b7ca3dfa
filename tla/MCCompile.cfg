SPECIFICATION EitherSpec
CONSTANTS
  Exprs <- AllExprs
  Blocks <- AllBlocks
  Words <- EveryWord
  Names <- Relations
  Consts <- Nodes
  Programs <- Programs1
  Sources <- Everything
INVARIANTS NothingElseFollows AnswerIsComplete VerifiedIsWellTyped RunsAsWritten
PROPERTIES RunsEnd
