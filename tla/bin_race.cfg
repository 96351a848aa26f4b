SPECIFICATION Spec
CONSTANTS
    Absent = Absent
    None = None
    Paths = {p, q}
    Protected = {q}
    Remote = {q}
    Calls = {c1, c2, c3}
    Ops = {"write", "rm", "restore", "restore_over", "mkdir", "purge"}
    OnePerPath = FALSE
SYMMETRY CallSymmetry
INVARIANT TypeOK
INVARIANT RowHasPayload
INVARIANT DirHasOwner
PROPERTY ProtectedUntouched
PROPERTY PayloadStable
CHECK_DEADLOCK FALSE
