\* Every step of save against errors, crashes and power losses, over three versions.
SPECIFICATION Spec
CONSTANTS
    Versions = {v1, v2, v3}
    Missing = Missing
    Torn = Torn
    TmpIsLive = FALSE
INVARIANTS
    TypeOK
    NeverTorn
    ResultIsTrue
PROPERTY
    ImplementsAtomicFile
