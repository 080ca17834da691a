\* As LeaseServer_safety, with saves and loads that fail and a clock set back.
SPECIFICATION Spec
CONSTANTS
    a = a
    b = b
    s = s
    Mac = {a, b, s}
    server_ip = 2
    network = 1
    broadcast = 6
    pool_start = 3
    pool_end = 5
    lease_time = 1
    statics <- MCStatics
    Packets <- MCLeasePackets
    OldFiles <- MCOldFiles
    DECLINE_QUARANTINE_SECS = 1
    PURGE_INTERVAL_SECS = 1
    MaxTime = 2
    SaveMayFail = TRUE
    ReadMayFail = TRUE
    ClockMayStep = TRUE
INVARIANTS
    QuarantineHonoured
    OneOwner
SYMMETRY MCSymmetry
