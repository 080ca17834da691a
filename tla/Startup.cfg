\* Every command line, and the lines of the configuration file in any order.
SPECIFICATION MainSpec
CONSTANTS
    m1 = m1
    m2 = m2
    Mac = {m1, m2}
    eth0 = eth0
    leases = leases
    Empty = Empty
    Name = {eth0, leases, Empty}
    W = 3
    Texts <- MCTexts
    MaxDnsLines = 2
    MaxStatics = 2
    Words <- MCWords
    IsOption <- MCIsOption
    MaxWords = 5
    ConfigFile = "lan.conf"
    None = None
INVARIANTS
    TypeOK
    ServesUsable
    RefusedForCause
    DnsFitsOption
    PinnedUnlessAllowed
    BitsAgree
    RunFollowsUsage
CHECK_DEADLOCK FALSE
