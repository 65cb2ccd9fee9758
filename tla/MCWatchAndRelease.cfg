SPECIFICATION ChoiceSpec
CONSTANTS
  Records = {1, 2}
  Lasting = {2}
  WindowDays = {1}
  LastArrival = 1
  LastDay = 4
  FullDays = 1
  EvidenceDays = 2
  RescanDays = 2
  ImportPage = 1
  MaxCrashes = 1
  MaxIngest = 3
  ClockHorizon = 6
  Wrap = 4
  MaxSeq = 2
  MaxBoot = 2
  Tokens = {1}
  Patience = 2
  Interval = 2
  Guard = 1
  MaxDelta = 3
  Drift = 2
  StepSizes <- MCStepSizes
  MaxSteps = 1
  VersionOf <- MCVersionOf
  Builds = {1, 2}
  MaxJobs = 3
  MaxFaults = 2
  Units = {u1, u2, u3}
  Supported = {u1, u2}
  BaselineUnits = {u1, u2, u3}
  IdOf <- MCIds
  NoId = NoId
  Addresses = {p1, p2}
  None = None
  MaxCount = 2
  StablePolls = 2
  AwayPolls = 2
  MaxEditions = 2
  TargetOf <- MCTargets
  BoardVersions = {1}
  BoardAttempts = 2
  Depth = 1
  BoardEvents = 1
  KnownDelay = 1
  FirstDelay = 2
  Delays <- MCDelays
  Stable = 3
  ServerFresh = 1
  AbortAfter = 1
  UpdateAttempts = 2
  RecoveryEvents = 2
  u1 = u1
  u2 = u2
  u3 = u3
  p1 = p1
  p2 = p2
INVARIANTS
  SweptClean
  PlacedRight
  Archived
  OnlyFresh
  BeetlesSafe
  RestartsRationed
PROPERTIES
  DeletedForGood
CHECK_DEADLOCK FALSE
