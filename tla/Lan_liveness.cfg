\* Does a client that keeps trying get an address in the end?  Time stands still.
SPECIFICATION LanFairSpec
CONSTANTS
    a = a
    b = b
    Mac = {a, b}
    Client <- MCClients
    Eager = {a}
    server_ip = 2
    network = 1
    broadcast = 6
    pool_start = 3
    pool_end = 5
    lease_time = 1
    statics <- MCNoStatics
    Packets <- MCPackets
    OldFiles <- MCOldFiles
    DECLINE_QUARANTINE_SECS = 1
    PURGE_INTERVAL_SECS = 1
    MaxTime = 0
    SaveMayFail = FALSE
    ReadMayFail = FALSE
    ClockMayStep = FALSE
    Squatted = {3}
    Impatient = {}
    Leaving = {}
    MaxOutdated = 0
    MaxCrashes = 1
INVARIANTS
    NoConflict
PROPERTIES
    Served
CHECK_DEADLOCK FALSE
