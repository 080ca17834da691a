\* A lease file whose name ends in ".tmp".
SPECIFICATION Spec
CONSTANTS
    Versions = {v1, v2}
    Missing = Missing
    Torn = Torn
    TmpIsLive = TRUE
INVARIANT
    CrashHarmless
