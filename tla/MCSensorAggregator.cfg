SPECIFICATION AggregatorSpec
CONSTANTS
    gps = gps
    imu = imu
    encoder = encoder
    Main = Main
    Sensors = {gps, imu, encoder}
    Order <- MCOrder
    Logs = {}
    Directories <- MCDirectories
    Arity <- MCArity
    NoFile = NoFile
    Word = Word
    Empty = Empty
    CarriageReturn = CarriageReturn
    SpeedNum = 1
    SpeedDen = 1
    StallAfter <- MCStallAfter
    StallDuration <- MCStallDuration
    kStaleAfter <- MCStaleAfter
    MaxTime = 1
INVARIANTS
    ShutdownIsNatural
    FinalStateIsComplete
PROPERTIES
    DisplayNeverGoesBack
    Terminates
