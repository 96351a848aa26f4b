SPECIFICATION Spec
CONSTANTS
    Absent = Absent
    None = None
    Paths = {p, r}
    Protected = {}
    Remote = {r}
    Calls = {c1, c2, c3}
    Ops = {"write", "patch", "delete", "rm_f", "restore", "restore_over", "purge_cli"}
    OnePerPath = TRUE
SYMMETRY CallSymmetry
INVARIANT Undoable
PROPERTY NoSilentLoss
PROPERTY ErrorIsTrue
CHECK_DEADLOCK FALSE
