SPECIFICATION SceneSpec
CONSTANTS
    Sessions = {"s1", "s2"}
    NoSession = "none"
    Groups = {"g1", "g2"}
    Sigs = {"p"}
    NoSig = "none"
    GroupOf <- PokedIn
    MaxLag = 1
    MaxItems = 2
    MaxFaults = 1
    MaxTime = 4
INVARIANTS
    FeedIsSound
PROPERTIES
    ThreadsAreKept
    RepliesAreSound
CHECK_DEADLOCK FALSE
