SPECIFICATION FairStreamSpec
CONSTANTS
  r1 = r1
  r2 = r2
  h1 = h1
  h2 = h2
  Subs <- TwoHandles
  Readers <- TwoReaders
  BufferCap = 1
  NoLimit = NoLimit
  Limit <- MixedLimits
  MaxItems = 1
PROPERTY RecvReturnsAtEnd
CHECK_DEADLOCK FALSE
