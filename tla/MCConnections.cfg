SPECIFICATION SceneSpec
CONSTANTS
    Bots = {b1, b2}
    Calls = {c1, c2}
    NoBot = NoBot
INVARIANTS
    TypeOK
    PendingIsUnfinished
    ClosedBotAwaitsNothing
    OneSenderPerBot
    OutcomeWasAnswered
PROPERTIES
    ImplementsContract
    SessionsEnd
    FeedFlows
CHECK_DEADLOCK FALSE
