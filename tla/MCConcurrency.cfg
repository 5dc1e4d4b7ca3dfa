SPECIFICATION OneOfSpec
CONSTANTS
  t1 = t1
  t2 = t2
  t3 = t3
  Main = main
  Tasks = {t1, t2, t3}
  Body <- RacingBody
  Lists <- SomeLists
  MaxOps = 2
  c1 = c1
  c2 = c2
  NoCall = NoCall
  Calls <- TwoCalls
  s1 = s1
  s2 = s2
  r1 = r1
  r2 = r2
  h1 = h1
  h2 = h2
  Senders <- TwoSenders
  Receivers <- TwoReceivers
  Cap = 2
  MaxSends = 3
  Subs <- TwoHandles
  Readers <- TwoReceivers
  BufferCap = 2
  NoLimit = NoLimit
  Limit <- MixedLimits
  MaxItems = 3
INVARIANTS AllReportsInListOrder AnyReturnsOneOfItsOwn InterruptedTasksAreSettled
INVARIANTS CancelTellsTheTruth
INVARIANTS OwnValueOnce RegistryInv
INVARIANTS SenderOrder NoSilentLoss EveryItemInOrder EndIsLast
PROPERTIES WaitsEnd ValuesArrive WaitersWake NoReceiverHoldsUp
CHECK_DEADLOCK FALSE
