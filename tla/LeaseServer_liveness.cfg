\* Under the fairness of the receive loop and of time; no symmetry.
SPECIFICATION FairSpec
CONSTANTS
    a = a
    b = b
    s = s
    Mac = {a, b, s}
    server_ip = 2
    network = 1
    broadcast = 6
    pool_start = 3
    pool_end = 5
    lease_time = 1
    statics <- MCStatics
    Packets <- MCBindingPackets
    OldFiles <- MCOldFiles
    DECLINE_QUARANTINE_SECS = 1
    PURGE_INTERVAL_SECS = 2
    MaxTime = 3
    SaveMayFail = TRUE
    ReadMayFail = FALSE
    ClockMayStep = FALSE
PROPERTIES
    ShutdownObeyed
    ExpiredSwept
