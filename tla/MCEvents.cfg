SPECIFICATION SceneSpec
CONSTANTS
    Sessions = {s1, s2}
    SelfIds = {q1, q2}
    NoBot = NoBot
    NoId = NoId
    MaxTasks = 1
    LoginMayLag = FALSE
    MessageIds = {"m1", "m2"}
    Reported <- DispatchReports
    MayBe <- DispatchMessages
    Superusers = {"super"}
    OwnId = "bot"
    EventGroups = {"group"}
    NoEventGroup = "private"
    Commands <- DispatchCommands
    Cooldowns = {"cd"}
    NoCooldown = "none"
    CoolSeconds = 1
    NoticeSeconds = 0
    SeenLimit = 1
    EventTime = 1
    PictureHandlers = {"h1", "h2"}
    Pictures = {"p1", "p2", "p3"}
    Pictured <- PictureMessages
    FewestPictures = {0, 1}
    MostPictures = {1, 9}
    PictureFaults = 1
    ConfigReaders = {"r1", "r2"}
    ReloadInterval = 3
    TicksPerSecond = 2
    ConfigTime = 12
    ConfigVersions = 3
    StatusTasks = {"t1", "t2", "t3"}
    NoStatusTask = "none"
    StatusGroups = {"g1", "g2"}
    FailStreak = 2
    FailWindow = 4
    FailCount = 3
    RecoverStreak = 3
    RecoverWindow = 4
    RecoverCount = 3
    EvalLimit = 4
    StatusCalls = 5
INVARIANTS
    TypeOK
    RegistryMatchesSelfId
    HooksMatchRegistry
    EndedIsUnregistered
    UnregisteredTwinIsClosed
    EventsAreSound
    ChangesAreSeen
    PartsArriveInOrder
PROPERTIES
    OnlySelfOrSuccessorUnregisters
CHECK_DEADLOCK FALSE
