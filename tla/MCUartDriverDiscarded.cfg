SPECIFICATION DriverSpec
CONSTANTS
    ByteValues = 4
    kSof1 = 2
    kSof2 = 1
    kInit = 15
    CrcUpdate <- MCUpdate
    CrcCompute <- MCCompute
    CounterModulus = 64
    Streams <- MCStreams
INVARIANT
    DiscardedIsSkipped
