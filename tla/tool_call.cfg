SPECIFICATION FairSpec
CONSTANTS
    Shell = Shell
    Kids = {k1, k2}
    Streams = {out, err}
    Cap = 2
    PipeSize = 2
    MaxBytes = 3
    Timeout = 2
    Drain = 1
    Reap = 1
    Paths = 3
INVARIANT OneRow
INVARIANT ResultReaches
INVARIANT EffectsRecorded
INVARIANT OutputComplete
INVARIANT GroupGone
INVARIANT CutIsMarked
INVARIANT InTime
PROPERTY Ends
CHECK_DEADLOCK FALSE
