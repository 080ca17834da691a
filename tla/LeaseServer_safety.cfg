\* Crashes, restarts and every packet; no failing save, read or clock.
SPECIFICATION Spec
CONSTANTS
    a = a
    b = b
    s = s
    Mac = {a, b, s}
    server_ip = 2
    network = 1
    broadcast = 6
    pool_start = 3
    pool_end = 5
    lease_time = 2
    statics <- MCStatics
    Packets <- MCPackets
    OldFiles <- MCOldFiles
    DECLINE_QUARANTINE_SECS = 2
    PURGE_INTERVAL_SECS = 2
    MaxTime = 4
    SaveMayFail = FALSE
    ReadMayFail = FALSE
    ClockMayStep = FALSE
INVARIANTS
    TypeOK
    NoDoublePromise
    PromiseDurable
    RestartLosesNothing
    RenewalHonoured
    QuarantineHonoured
    RefusedForWant
PROPERTIES
    ImplementsTenancy
SYMMETRY MCSymmetry
