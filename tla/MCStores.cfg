SPECIFICATION SceneSpec
CONSTANTS
    Keys = {k1, k2}
    Values = {v1}
    NoValue = NoValue
    Synced = TRUE
    MaxLosses = 2
    SwitchTasks = {"t1", "t2"}
    WhiteLists = {"w"}
    BlackLists = {"b"}
    SwitchGroups = {"g"}
    SwitchFaults = 2
    Chats = {"c1", "c2"}
    Models <- ChatsModels
    Preset <- ChatPreset
    Typed <- ChatTyped
    ChoiceFaults = 1
    CaptionTasks = {"t1", "t2"}
    Pictures = {"p1", "p2", "p3"}
    Plain = "plain"
    Forwarded <- Forwards
    CaptionLimit = 2
    MaxListed = 5
    CaptionStops = 1
    Askers = {"a1", "a2"}
    NameExpire = 2
    NameTimeout = 1
    NameTime = 4
    NameFaults = 1
    StickerUploads = {"u1"}
    NoPicture = "none"
    StickerPictures = {"p1", "p2"}
    StickerForces = {FALSE}
    LastSid = 2
    StickerStops = 1
    ClipUsers = {"u1"}
    ClipUpdates = {"b1", "b2"}
    ClipTexts = {"t1", "t2"}
    ClipInbox = {"t1"}
    ClipKeys = {"k1", "k2"}
    NoClipKey = "none"
    ClipText <- TextOfClip
    LastVid = 3
    ClipWrites = 3
    ClipStops = 0
INVARIANTS
    FilesAreWhole
    NumbersKeepTheirMeaning
    SettingsAreKept
PROPERTIES
    ImplementsKeptMap
    DataIsCurrent
CHECK_DEADLOCK FALSE
