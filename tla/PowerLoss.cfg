\* Crashes and power losses at any moment; no failing save, read or clock.
SPECIFICATION LossSpec
CONSTANTS
    a = a
    b = b
    Mac = {a, b}
    server_ip = 2
    network = 1
    broadcast = 6
    pool_start = 3
    pool_end = 3
    lease_time = 2
    statics <- MCNoStatics
    Packets <- MCPackets
    OldFiles <- MCOldFiles
    DECLINE_QUARANTINE_SECS = 1
    PURGE_INTERVAL_SECS = 2
    MaxTime = 4
    SaveMayFail = FALSE
    ReadMayFail = FALSE
    ClockMayStep = FALSE
INVARIANTS
    SettledIsDurable
    HarmConfined
SYMMETRY MCSymmetry
