\* Late, lost and repeated messages; a client that comes and goes.
SPECIFICATION LanSpec
CONSTANTS
    a = a
    b = b
    Mac = {a, b}
    Client <- MCClients
    Eager = {}
    server_ip = 2
    network = 1
    broadcast = 6
    pool_start = 3
    pool_end = 3
    lease_time = 2
    statics <- MCNoStatics
    Packets <- MCPackets
    OldFiles <- MCOldFiles
    DECLINE_QUARANTINE_SECS = 2
    PURGE_INTERVAL_SECS = 3
    MaxTime = 2
    SaveMayFail = FALSE
    ReadMayFail = FALSE
    ClockMayStep = FALSE
    Squatted = {}
    Impatient = {a}
    Leaving = {a}
    MaxOutdated = 1
    MaxCrashes = 0
INVARIANTS
    LanTypeOK
    BeliefsPromised
    NoEviction
PROPERTIES
    TenancyBelieved
