SPECIFICATION SceneSpec
CONSTANTS
    Calls = {c1, c2, c3}
    Readers = {r1, r2}
    Flusher = Flusher
    Cap = 2
    MaxFaults = 2
    ChatRequests = {"c1", "c2"}
    EmbedRequests = {"e1"}
    SpeechRequests = {"s1"}
    CheckedChats = {"c1"}
    TimedChats = {"c2"}
    ChatTries = 2
    AskLimit = 1
    AskSeconds = 2
INVARIANTS
    TypeOK
    LogIsComplete
    IdsAreCommitted
    CacheIsRecent
    RequestsAreCharged
PROPERTIES
    ImplementsWriteBehind
    CallsAreStored
    JobsFinish
CHECK_DEADLOCK FALSE
