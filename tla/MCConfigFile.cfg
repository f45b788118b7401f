SPECIFICATION Spec
CONSTANTS
    p1 = p1
    p2 = p2
    Procs = {p1, p2}
    Passwords = {"a"}
    Zstds <- MCZstds
    MaxKeys = 2
    MaxEdits = 1
    MaxRuns = 4
CHECK_DEADLOCK FALSE
SYMMETRY ProcSymmetry
INVARIANTS
    TypeOK
PROPERTIES
    NeverLoosened
    FileSettles
    OthersKept
