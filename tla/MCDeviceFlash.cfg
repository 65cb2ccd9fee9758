SPECIFICATION FlashSpec
CONSTANTS
    Sectors = 2
    PerSector = 2
    Block = 4
    BatchRecords = 2
    MaxSeq = 7
    MaxFaults = 2
INVARIANTS
    Reopens
    SequenceFresh
    NothingForgotten
PROPERTIES
    RingDelivered
    SequenceEnds
CHECK_DEADLOCK FALSE
