SPECIFICATION FairSpec
CONSTANTS
    Edits = {e1}
    Deletes = {d1}
    Callers = {f}
    Worker = worker
    Assets = "full"
    MaxFaults = 1
    Skeleton = Skeleton
    Dump = Dump
    Nothing = Nothing
    Absent = Absent
    None = None
INVARIANT AssetsKept
INVARIANT DeletedWhole
PROPERTY DocumentSpec
PROPERTY Settles
