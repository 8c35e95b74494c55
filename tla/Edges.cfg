SPECIFICATION Spec
CONSTANTS
    MaxChat = 2
    MaxCopies = 1
    MaxStreams = 2
    MaxTroubles = 1
    QueueSize = 1
    MaxChunks = 4
    ChunkQueue = 2
    MaxReads = 2
    MaxLines = 1
    LineQueue = 1
    OverlayChat = 5
    OverlayQueue = 3
    BatchSize = 2
    ShownLines = 3
    OverlayRuns = 2
    MaxSaid = 5
    MaxQueue = 2
    Unspoken = {3}
    Life = 2
    Margin = 1
    Latency = 1
    MaxTokens = 3
    Followers = {"voice", "face"}
    MemoryTurns = 2
    MaxAsked = 3
    MaxTurns = 3
    MaxInterrupted = 1
    Texts = {"a"}
    MaxEdits = 2
    MaxWaiting = 2
    SubtitleRuns = 2
    MaxItems = 6
    ItemQueue = 2
INVARIANTS
    ChatArrives
    SpeechAccounted
    SessionOwnsReads
    ScreensCurrent
    SpokenThrough
    TokensWork
    AnswersBelongTogether
CHECK_DEADLOCK FALSE
