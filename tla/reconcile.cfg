SPECIFICATION FairSpec
CONSTANTS
    Callers = {loop, a, b, c}
    Periodic = loop
INVARIANT IdleMeansQuiet
INVARIANT NoneForgotten
PROPERTY ServiceSpec
