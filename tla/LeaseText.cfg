\* Leases with every name, saved, edited by hand and loaded again.
SPECIFICATION Spec
CONSTANTS
    a = a
    b = b
    Mac = {a, b}
    Ip = {1, 2}
    Time = {1}
    Hostnames <- MCHostnames
    Edits <- MCEdits
INVARIANTS
    TypeOK
    LoadsWhatWasSaved
