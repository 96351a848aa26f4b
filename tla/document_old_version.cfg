SPECIFICATION Spec
CONSTANTS
    Edits = {e1, e2}
    Deletes = {}
    Callers = {f}
    Worker = worker
    Assets = "full"
    MaxFaults = 0
    Skeleton = Skeleton
    Dump = Dump
    Nothing = Nothing
    Absent = Absent
    None = None
PROPERTY OldVersionInBin
