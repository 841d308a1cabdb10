SPECIFICATION Spec
CONSTANTS
    Numerals = {"0", "1", "2", "4"}
    stod <- MCStod
    Unit = 1
    stoul <- MCStoul
    stoi <- MCStoi
    rank <- MCRank
    ByteBits = 2
    PayloadBytes = 3
    DbcText <- MCDbcText
    CounterValues = 4
    kTimeoutMultiplier = 3
    StatModulus = 8
    Blank = Blank
    Throws = Throws
    Files <- MCFiles
    PollInterval = 2
    StatusInterval = 5
    Speeds = {1}
    TicksPerMs = 2
    Latenesses = {1}
INVARIANTS
    StatusLineHonest
