SPECIFICATION FairSpec
CONSTANTS
  Agents = {a1}
  Callers = {c1, c2}
  Intents = {"inc", "bump"}
  ValueIntents = {"bump"}
  Paths <- CarelessPaths
  MaxSends = 2
INVARIANTS IInv AnswersAreSerial StopIsLast
PROPERTIES QuietAfterStop ImplementsService EveryCallComesBack
CHECK_DEADLOCK FALSE
