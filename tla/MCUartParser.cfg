SPECIFICATION FairSpec
CONSTANTS
    ByteValues = 3
    kSof1 = 1
    kSof2 = 2
    kInit = 8
    CrcUpdate <- MCUpdate
    CrcCompute <- MCCompute
    CounterModulus = 2
INVARIANTS
    TypeOK
    FramingInv
    PayloadInBounds
    SyncLossIsCrcFailure
    DeliveredIsOnTheWire
    RejectedIsCorrupt
PROPERTIES
    NoSilentLoss
    AttemptEnds
