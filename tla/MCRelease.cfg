SPECIFICATION EitherSpec
CONSTANTS
  Inputs <- Usual
  Insertions <- AllLines
  Fields <- ThreeFields
  Hashes <- TwoHashes
  WithSources = TRUE
  Signed = TRUE
  MaxVersions = 2
  MaxBuilds = 2
  Timeout = 5
  Interval = 2
  Slow = 1
  MaxUploads = 2
  MaxClock = 10
INVARIANTS  EncodeIsCanonical ReportsWhatChanged
INVARIANTS SumsAreOfTheData AcceptedIsWhole VerdictIsTrue SettledInTimeIsSeen
CHECK_DEADLOCK FALSE
