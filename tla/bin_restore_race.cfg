SPECIFICATION Spec
CONSTANTS
    Absent = Absent
    None = None
    Paths = {p}
    Protected = {}
    Remote = {}
    Calls = {c1, c2, c3}
    Ops = {"write", "delete", "restore"}
    OnePerPath = FALSE
SYMMETRY CallSymmetry
PROPERTY RestoreKeepsWhatIsThere
CHECK_DEADLOCK FALSE
