------------------------------ MODULE MCModels -------------------------------
(***************************************************************************)
(* The calls of models and the jobs of the plugins, checked with liveness: *)
(* the log of LlmCallLog and the requests of LlmCalls, whose constants     *)
(* MCModels.cfg gives, the dispatch of events, and the downloads of        *)
(* Stickers and Voices.                                                    *)
(***************************************************************************)
EXTENDS LlmCallLog, SampleInputs

CONSTANTS
    ChatRequests, EmbedRequests, SpeechRequests, CheckedChats, TimedChats, ChatTries,
    AskLimit, AskSeconds

VARIABLES
    scene,          \* the instance that runs; the variables of the others stand still
    llmSecond, llmTs, llmCount, llmPc, llmTries, llmQuota, llmSynced, llmSent,
    llmCalls, llmRecords,
    dispContent, dispPc, dispRank, dispToMe, dispSeen, dispOverflows, dispLogged,
    dispNamed, dispNoted, dispRecorded, dispClock, dispLast, dispLastNotice, dispOn,
    dispRuns,
    stkTop, stkRecs, stkBusy, stkPc, stkPic, stkSeen, stkTold, stkDb, stkDbTime,
    stkFiles, stkCache, stkCacheTime, stkVecs, stkSearch, stkJob, stkUnsent,
    stkRestarts,
    voiceTop, voiceVoices, voiceUploads, voiceUpdates, voiceInbox, voiceQueue,
    voiceQueued, voiceWork, voiceDb, voiceDbTime, voiceFiles, voiceClips,
    voiceClipsTime, voiceReading, voiceRestarts

llmVars == <<
    llmSecond, llmTs, llmCount, llmPc, llmTries, llmQuota, llmSynced, llmSent,
    llmCalls, llmRecords>>
Llm == INSTANCE LlmCalls WITH
    Chats <- ChatRequests, Embeddings <- EmbedRequests, Speeches <- SpeechRequests,
    Processed <- CheckedChats, Timed <- TimedChats, Models <- ChatTries,
    Limit <- AskLimit, MaxSecond <- AskSeconds,
    second <- llmSecond, ts <- llmTs, count <- llmCount, pc <- llmPc,
    tries <- llmTries, quota <- llmQuota, synced <- llmSynced, sent <- llmSent,
    calls <- llmCalls, records <- llmRecords

dispVars == <<
    dispContent, dispPc, dispRank, dispToMe, dispSeen, dispOverflows, dispLogged,
    dispNamed, dispNoted, dispRecorded, dispClock, dispLast, dispLastNotice, dispOn,
    dispRuns>>
Events == INSTANCE Dispatch WITH
    Ids <- {"m1", "m2"}, Reports <- {<<"m1", 1>>, <<"m2", 1>>},
    May <- DispatchMessages, Supers <- {"super"}, SelfId <- "bot", Groups <- {"group"},
    NoGroup <- "private", Handlers <- DispatchCommands, Cds <- {"cd"}, NoCd <- "none",
    Interval <- 2, NoticeInterval <- 1, SeenLimit <- 1, MaxTime <- 1,
    content <- dispContent, pc <- dispPc, rank <- dispRank, toMe <- dispToMe,
    seen <- dispSeen, overflows <- dispOverflows, logged <- dispLogged,
    named <- dispNamed, noted <- dispNoted, recorded <- dispRecorded,
    clock <- dispClock, last <- dispLast, lastNotice <- dispLastNotice, on <- dispOn,
    runs <- dispRuns

stkVars == <<
    stkTop, stkRecs, stkBusy, stkPc, stkPic, stkSeen, stkTold, stkDb, stkDbTime,
    stkFiles, stkCache, stkCacheTime, stkVecs, stkSearch, stkJob, stkUnsent,
    stkRestarts>>
Sticker == INSTANCE Stickers WITH
    Uploads <- {"u1"}, NoPic <- "none", Pics <- {"p1"}, Forces <- {TRUE}, MaxTop <- 2,
    MaxRestarts <- 0, top <- stkTop, recs <- stkRecs, busy <- stkBusy, pc <- stkPc,
    pic <- stkPic, seen <- stkSeen, told <- stkTold, db <- stkDb, dbTime <- stkDbTime,
    files <- stkFiles, cache <- stkCache, cacheTime <- stkCacheTime, vecs <- stkVecs,
    search <- stkSearch, job <- stkJob, unsent <- stkUnsent,
    restarts <- stkRestarts

voiceVars == <<
    voiceTop, voiceVoices, voiceUploads, voiceUpdates, voiceInbox, voiceQueue,
    voiceQueued, voiceWork, voiceDb, voiceDbTime, voiceFiles, voiceClips,
    voiceClipsTime, voiceReading, voiceRestarts>>
Voice == INSTANCE Voices WITH
    Users <- {"u1"}, Updates <- {"b1", "b2"}, Tags <- {"t1", "t2"}, Inbox <- {"t1"},
    Keys <- {"k1", "k2"}, NoKey <- "none", KeyTag <- [k1 |-> "t1", k2 |-> "t2"],
    MaxTop <- 3, MaxWrites <- 2, MaxRestarts <- 1, top <- voiceTop,
    voices <- voiceVoices, uploads <- voiceUploads, updates <- voiceUpdates,
    inbox <- voiceInbox, queue <- voiceQueue, queued <- voiceQueued, work <- voiceWork,
    db <- voiceDb, dbTime <- voiceDbTime, files <- voiceFiles, clips <- voiceClips,
    clipsTime <- voiceClipsTime, reading <- voiceReading, restarts <- voiceRestarts

ASSUME InstancesAreSound ==
    /\ Llm!LlmCallsAssumption
    /\ Events!DispatchAssumption
    /\ Sticker!StickersAssumption
    /\ Voice!VoicesAssumption

Scenes == {"log", "Llm", "Events", "Sticker", "Voice"}
SceneInit ==
    /\ scene \in Scenes
    /\ Init
    /\ Llm!Init
    /\ Events!Init
    /\ Sticker!Init
    /\ Voice!Init
SceneNext ==
    \/ scene = "log" /\ Next /\ UNCHANGED <<scene, llmVars, dispVars, stkVars, voiceVars>>
    \/ scene = "Llm" /\ Llm!Next /\ UNCHANGED <<scene, vars, dispVars, stkVars, voiceVars>>
    \/ scene = "Events" /\ Events!Next /\ UNCHANGED <<scene, vars, llmVars, stkVars, voiceVars>>
    \/ scene = "Sticker" /\ Sticker!Next /\ UNCHANGED <<scene, vars, llmVars, dispVars, voiceVars>>
    \/ scene = "Voice" /\ Voice!Next /\ UNCHANGED <<scene, vars, llmVars, dispVars, stkVars>>
sceneVars == <<scene, vars, llmVars, dispVars, stkVars, voiceVars>>

\* Nothing else is fair in an instance that stands still.
Stuck(A) == scene = "Sticker" /\ A
Downloads(A) == scene = "Voice" /\ A
Logs(A) == scene = "log" /\ A
SceneFairness ==
    /\ WF_vars(Logs(FlushBegins)) /\ WF_vars(Logs(Insert))
    /\ WF_vars(Logs(Commit)) /\ WF_vars(Logs(Rollback))
    /\ \A r \in Readers :
         WF_vars(Logs(Select(r))) /\ WF_vars(Logs(Fetch(r))) /\ WF_vars(Logs(Merge(r)))
    /\ \A r \in Llm!Requests : WF_llmVars(scene = "Llm" /\ Llm!Works(r))
    /\ \A r \in {<<"m1", 1>>, <<"m2", 1>>} :
         WF_dispVars(scene = "Events" /\ Events!Progress(r))
    /\ WF_stkVars(Stuck(Sticker!Save)) /\ WF_stkVars(Stuck(Sticker!Prepare))
    /\ WF_stkVars(Stuck(Sticker!Load)) /\ WF_stkVars(Stuck(Sticker!Searched))
    /\ WF_stkVars(Stuck(Sticker!JobReadsTime)) /\ WF_stkVars(Stuck(Sticker!JobReadsFile))
    /\ WF_stkVars(Stuck(Sticker!Commit))
    /\ WF_stkVars(Stuck(\E b \in SUBSET {1, 2}, got \in BOOLEAN :
                            Sticker!FillBatch(b, got)))
    /\ \A s \in {1, 2} :
         SF_stkVars(Stuck(\E b \in SUBSET {1, 2} :
                             s \in b /\ Sticker!FillBatch(b, TRUE)))
    /\ WF_voiceVars(Downloads(Voice!Take))
    /\ WF_voiceVars(Downloads(\E ok \in BOOLEAN : Voice!Downloaded(ok)))
    /\ WF_voiceVars(Downloads(Voice!LoadBegins)) /\ WF_voiceVars(Downloads(Voice!Load))

SceneSpec == SceneInit /\ [][SceneNext]_sceneVars /\ SceneFairness

------------------------------------------------------------------------------

\* LlmCalls: the requests of one second stay under the limit of the provider, the
\* quota is charged for what was answered, and every try leaves its record.
RequestsAreCharged == scene = "Llm" =>
    /\ Llm!TypeOK
    /\ Llm!RateKept
    /\ Llm!ChargesAddUp
    /\ Llm!RecordedOnce

\* LlmCalls, Dispatch, Stickers, Voices: every request ends, whatever the tries before
\* the last one end in, and so does the dispatch of every event; a sticker that stays
\* is found by the replies at last, or was dropped by one that could not send it; and
\* an update of the clips is answered when its downloads are over.
JobsFinish ==
    /\ scene = "Llm" => Llm!RequestsEnd
    /\ scene = "Events" => Events!ReportsEnd
    /\ scene = "Sticker" => Sticker!StickersAreFound
    /\ scene = "Voice" => Voice!DownloadsAreReported

==============================================================================
