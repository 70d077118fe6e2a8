------------------------------ MODULE MCEvents -------------------------------
(***************************************************************************)
(* From a connection to an answer, without liveness: the registry of       *)
(* BotRegistry, whose constants MCEvents.cfg gives, the dispatch of events *)
(* and commands, the settings they read, long answers and messages as      *)
(* text; and the monitor that judges the models.                           *)
(***************************************************************************)
EXTENDS BotRegistry, SampleInputs

CONSTANTS           \* of Dispatch, Incoming, Settings and ModelStatus
    MessageIds, Reported, MayBe, Superusers, OwnId, EventGroups, NoEventGroup, Commands,
    Cooldowns, NoCooldown, CoolSeconds, NoticeSeconds, SeenLimit, EventTime,
    PictureHandlers, Pictures, Pictured, FewestPictures, MostPictures, PictureFaults,
    ConfigReaders, ReloadInterval, TicksPerSecond, ConfigTime, ConfigVersions,
    StatusTasks, NoStatusTask, StatusGroups, FailStreak, FailWindow, FailCount,
    RecoverStreak, RecoverWindow, RecoverCount, EvalLimit, StatusCalls

VARIABLES
    scene,          \* the instance that runs; the variables of the others stand still
    dispContent, dispPc, dispRank, dispToMe, dispSeen, dispOverflows, dispLogged,
    dispNamed, dispNoted, dispRecorded, dispClock, dispLast, dispLastNotice, dispOn,
    dispRuns,
    incEvent, incReplyTo, incCarried, incAt, incWants, incFound, incFetched, incFaults,
    setNow, setFile, setCache, setChecked, setGot,
    monCalls, monNewest, monUnheard, monSaved, monHolder, monPc, monTo, monOn, monFlips,
    foldContents, foldMethod, foldPc, foldLeft, foldSpare, foldOut, foldUnanswered,
    cqMessage, cqInput, cqPc, cqAt, cqBuf, cqSegs, cqParts

dispVars == <<
    dispContent, dispPc, dispRank, dispToMe, dispSeen, dispOverflows, dispLogged,
    dispNamed, dispNoted, dispRecorded, dispClock, dispLast, dispLastNotice, dispOn,
    dispRuns>>
Events == INSTANCE Dispatch WITH
    Ids <- MessageIds, Reports <- Reported, May <- MayBe, Supers <- Superusers,
    SelfId <- OwnId, Groups <- EventGroups, NoGroup <- NoEventGroup,
    Handlers <- Commands, Cds <- Cooldowns, NoCd <- NoCooldown,
    Interval <- CoolSeconds, NoticeInterval <- NoticeSeconds, MaxTime <- EventTime,
    content <- dispContent, pc <- dispPc, rank <- dispRank, toMe <- dispToMe,
    seen <- dispSeen, overflows <- dispOverflows, logged <- dispLogged,
    named <- dispNamed, noted <- dispNoted, recorded <- dispRecorded,
    clock <- dispClock, last <- dispLast, lastNotice <- dispLastNotice, on <- dispOn,
    runs <- dispRuns

incVars == <<
    incEvent, incReplyTo, incCarried, incAt, incWants, incFound, incFetched, incFaults>>
Incoming == INSTANCE Incoming WITH
    Handlers <- PictureHandlers, Messages <- Pictured, Minima <- FewestPictures,
    Maxima <- MostPictures, MaxFaults <- PictureFaults, event <- incEvent,
    replyTo <- incReplyTo, carried <- incCarried, at <- incAt, wants <- incWants,
    found <- incFound, fetched <- incFetched, faults <- incFaults

setVars == <<setNow, setFile, setCache, setChecked, setGot>>
Config == INSTANCE Settings WITH
    Readers <- ConfigReaders, Interval <- ReloadInterval, SecondsApart <- TRUE,
    MaxTime <- ConfigTime, MaxVersion <- ConfigVersions, now <- setNow, file <- setFile,
    cache <- setCache, checked <- setChecked, got <- setGot

monVars == <<
    monCalls, monNewest, monUnheard, monSaved, monHolder, monPc, monTo, monOn, monFlips>>
Status == INSTANCE ModelStatus WITH
    NoTask <- NoStatusTask, Tasks <- StatusTasks, Groups <- StatusGroups,
    Switched <- StatusGroups, MaxCalls <- StatusCalls, calls <- monCalls,
    newest <- monNewest, unheard <- monUnheard, saved <- monSaved,
    holder <- monHolder, pc <- monPc, to <- monTo, on <- monOn, flips <- monFlips

foldVars == <<
    foldContents, foldMethod, foldPc, foldLeft, foldSpare, foldOut, foldUnanswered>>
Long == INSTANCE FoldMessages WITH
    Answers <- LongAnswers, Methods <- {"seperate", "join_newline", "none"},
    Limit <- 3, MaxSegments <- 4, Width <- 2, Threshold <- 3, MaxRaises <- 3,
    contents <- foldContents, method <- foldMethod, pc <- foldPc, left <- foldLeft,
    spare <- foldSpare, out <- foldOut, unanswered <- foldUnanswered

cqVars == <<cqMessage, cqInput, cqPc, cqAt, cqBuf, cqSegs, cqParts>>
Codes == INSTANCE CqCodes WITH
    Messages <- CqMessages, Typed <- CqTyped, message <- cqMessage, input <- cqInput,
    pc <- cqPc, at <- cqAt, buf <- cqBuf, segs <- cqSegs, parts <- cqParts

ASSUME InstancesAreSound ==
    /\ Events!DispatchAssumption
    /\ Incoming!IncomingAssumption
    /\ Config!SettingsAssumption
    /\ Status!StatusAssumption /\ Status!RulesExcludeEachOther
    /\ Long!FoldAssumption

Scenes == {"registry", "Events", "Incoming", "Config", "Status", "Long", "Codes"}
SceneInit ==
    /\ scene \in Scenes
    /\ Init
    /\ Events!Init
    /\ scene # "Incoming" =>
         /\ incReplyTo = CHOOSE m \in Pictured : TRUE
         /\ incEvent = [message |-> incReplyTo, fromSelf |-> FALSE]
         /\ incCarried = "none"
    /\ Incoming!Init
    /\ Config!Init
    /\ Status!Init
    /\ Long!Init /\ (scene # "Long" => foldMethod = "none")
    /\ (scene # "Codes" => cqMessage = <<>>) /\ Codes!Init
SceneNext ==
    \/ scene = "registry" /\ Next /\ UNCHANGED <<scene, dispVars, incVars, setVars, monVars, foldVars, cqVars>>
    \/ scene = "Events" /\ Events!Next /\ UNCHANGED <<scene, vars, incVars, setVars, monVars, foldVars, cqVars>>
    \/ scene = "Incoming" /\ Incoming!Next /\ UNCHANGED <<scene, vars, dispVars, setVars, monVars, foldVars, cqVars>>
    \/ scene = "Config" /\ Config!Next /\ UNCHANGED <<scene, vars, dispVars, incVars, monVars, foldVars, cqVars>>
    \/ scene = "Status" /\ Status!Next /\ UNCHANGED <<scene, vars, dispVars, incVars, setVars, foldVars, cqVars>>
    \/ scene = "Long" /\ Long!Next /\ UNCHANGED <<scene, vars, dispVars, incVars, setVars, monVars, cqVars>>
    \/ scene = "Codes" /\ Codes!Next /\ UNCHANGED <<scene, vars, dispVars, incVars, setVars, monVars, foldVars>>
sceneVars == <<scene, vars, dispVars, incVars, setVars, monVars, foldVars, cqVars>>

SceneSpec == SceneInit /\ [][SceneNext]_sceneVars

\* The scene of long answers alone, for FoldMessagesShortened.cfg.
LongSpec == scene = "Long" /\ SceneSpec

------------------------------------------------------------------------------

\* Dispatch, Incoming: a message two connections report is recorded once however its
\* tasks interleave, and logged a second time only when the set of seen ids was emptied
\* in between; two runs of a command for one user are a cooldown apart, and nothing of
\* a lower rank runs for an event a command blocked; each handler finds the pictures of
\* the message, of its forwards and of what it replies to, which is fetched once.
EventsAreSound ==
    /\ scene = "Events" =>
         /\ Events!TypeOK
         /\ Events!LoggedAgainOnlyAfterOverflow
         /\ Events!RecordedOnce
         /\ Events!CommandsAreNoted
         /\ Events!CooldownSpaces
         /\ Events!NothingAfterABlock
    /\ scene = "Incoming" =>
         Incoming!TypeOK /\ Incoming!EveryPictureIsFound /\ Incoming!ReplyIsAskedOnce

\* Settings, ModelStatus: an edit is in use within two intervals of reloading; the
\* verdicts on a model alternate though several tasks judge at once, and an outage
\* is told to every group that listens.
ChangesAreSeen ==
    /\ scene = "Config" => Config!TypeOK /\ Config!EditsTakeEffect
    /\ scene = "Status" =>
         Status!TypeOK /\ Status!FlipsAlternate /\ Status!OutageIsSeen

\* FoldMessages, CqCodes: what arrives of an answer is in the order of the answer,
\* whichever way it goes, and no fold is longer than a fold may be; a message is read
\* as it was written, and its parts are the segments that are read.
PartsArriveInOrder ==
    /\ scene = "Long" => Long!ArrivesInOrder /\ Long!FoldsFit
    /\ scene = "Codes" =>
         Codes!ReadAsWritten /\ Codes!ReadAgainAlike /\ Codes!PartsAreTheText

\* FoldMessages: an answer that is divided over several folds arrives whole, which
\* is what the notice of the division says; the code drops a part of it.
LongNotShortened == scene = "Long" => Long!DividedNotShortened

==============================================================================
