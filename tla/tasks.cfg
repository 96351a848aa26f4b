SPECIFICATION Spec
CONSTANTS
    Agents = {a1, a2}
    TaskIds = {t}
    Calls = {c1, c2, c3, c4}
    None = None
SYMMETRY TaskSymmetry
INVARIANT RowConsistent
INVARIANT OneThread
PROPERTY HolderDecides
PROPERTY ResultKept
CHECK_DEADLOCK FALSE
