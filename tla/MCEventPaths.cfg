SPECIFICATION PathsSpec
CONSTANTS
    MaxSeq = 2
    Tokens = {1, 2}
    BatchRecords = 1
    QueueSize = 1
    MaxFaults = 1
    Capacity = 2
    Watched = {g1, g2}
    Always = {a}
    Others = {}
    Silence = 8
    GroupMin = 2
    GroupWindow = 7
    Pause = 2
    Late = 1
    WatchHorizon = 13
    WatchEvents = 2
    g1 = g1
    g2 = g2
    a = a
INVARIANTS
  AckedIsKept
  FinishedIsOver
  BlamesRight
PROPERTIES
  FollowedUp
  Imported
  IngestDrains
  ReceivesAgain
  EachLineStored
CHECK_DEADLOCK FALSE
