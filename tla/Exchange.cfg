\* Any datagram is read to its end, and an answer is read as it was written.
SPECIFICATION DatagramSpec
CONSTANTS
    U8_MAX = 15
    OPT_MSG_TYPE = 1
    OPT_PARAM_REQUEST_LIST = 2
    OPT_ROUTER = 3
    OPT_DNS = 4
    OPT_SUBNET_MASK = 5
    OPT_SERVER_ID = 6
    OPT_LEASE_TIME = 8
    MaxArea = 4
    Requests <- MCRequests
    Configs <- MCConfigs
    BOOTREQUEST = 1
    BOOTREPLY = 2
    HTYPE_ETHERNET = 1
    HLEN_ETHERNET = 6
    MAGIC_COOKIE <- MCCookie
    Datagrams <- MCDatagrams
    Usual <- MCUsual
    UsualArea <- MCUsualArea
    Addresses <- MCAddresses
    Changes = {0, 1, 2}
INVARIANTS
    TypeOK
    NeverOverreads
    RoundTrip
    WalkFollowsGrammar
    ParametersAsked
    AnswersTheClient
PROPERTIES
    Terminates
CHECK_DEADLOCK FALSE
