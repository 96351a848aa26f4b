SPECIFICATION Spec
CONSTANTS
    Agents = {a1, a2, a3}
    TaskIds = {t}
    Calls = {c1, c2, c3}
    None = None
SYMMETRY TaskSymmetry
PROPERTY ClaimNeverSteals
CHECK_DEADLOCK FALSE
