SPECIFICATION Spec
CONSTANTS
    i1 = i1
    i2 = i2
    Instance = {i1, i2}
    Question = {q1, q2}
    q1 = q1
    q2 = q2
    NoMessage = 0
    MaxMessages = 2
    MaxWindow = 1
    MaxFaults = 2
    Reader = {i1, i2}
    Source = {s1, s2}
    s1 = s1
    s2 = s2
    Chunk = {c1, c2}
    c1 = c1
    c2 = c2
    MaxEdits = 3
    MaxStops = 1
    Announcer = {i1, i2}
    MaxLives = 4
    Windows = {1, 2}
    Limits = {2, 3}
    MaxClock = 3
    MaxHeard = 3
    Game = {"a", "b"}
    Retries = 1
    MaxTicks = 5
    MaxChanges = 2
    InfoFaults = 1
SYMMETRY Interchangeable
INVARIANTS
    AnsweredOnce
    SilenceExplained
    ClaimsExplained
    IndexComplete
    StatusOncePerExit
    ContextCurrent
CHECK_DEADLOCK FALSE
