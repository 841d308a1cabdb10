SPECIFICATION FairSpec
CONSTANTS
    imu = imu
    Sensors = {imu}
    Logs <- MCLogs
    SpeedNum = 3
    SpeedDen = 2
    StallAfter <- MCStallAfter
    StallDuration <- MCStallDuration
    MaxTime = 6
INVARIANTS
    TypeOK
    AppliedInOrder
    AtMostOneAfterStop
    StallShiftsTimeline
    OnTime
PROPERTIES
    ReplayEnds
