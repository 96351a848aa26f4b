SPECIFICATION FairSpec
CONSTANTS
    root = root
    agent = agent
    r1 = r1
    a1 = a1
    a2 = a2
    Agents = {root, agent}
    Clients = {root, agent}
    Root = root
    MaxTokens = 2
    Boots = 1
    StaleMax = 1
    Owed = 2
    NoSid = NoSid
    Slots = {r1, a1, a2}
    Owner <- MCOwner
    Streams = {s1}
    NoStream = NoStream
    Events = 2
INVARIANT RejectOnce
INVARIANT HintsOwed
INVARIANT OwnStream
PROPERTY TokensDie
PROPERTY Told
CHECK_DEADLOCK FALSE
