SPECIFICATION Spec
CONSTANTS
    gps = gps
    imu = imu
    printer = printer
    s1 = s1
    s2 = s2
    Sensors = {gps, imu}
    Readers = {printer}
    Inputs <- MCInputs
    NoSample = NoSample
    NoThread = NoThread
    kStaleAfter <- MCStaleAfter
    MaxTime = 2
INVARIANTS
    TypeOK
    OneInside
    FieldsTogether
    SnapshotConsistent
    AgeNotNegative
PROPERTIES
    ImplementsAtomicState
