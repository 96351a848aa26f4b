SPECIFICATION CommandSpec
CONSTANTS
    Bytes = {"a", "newline", "nul", "lead", "cont"}
    MaxBytes = 5
    Caps = {1, 2, 5}
    BodyMax = 4
    Divisor = 2
    NoLimit = NoLimit
    Limits = {NoLimit, 1, 2}
    Offsets = {0, 1, 3}
    SkipChunk = 2
    Peek = 3
INVARIANT PagesJoin
INVARIANT LossMarked
INVARIANT StderrKept
INVARIANT RowAgrees
PROPERTY EachPage
CHECK_DEADLOCK FALSE
