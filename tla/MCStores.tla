------------------------------ MODULE MCStores -------------------------------
(***************************************************************************)
(* What the bot keeps, without liveness: the files of FileStore, whose     *)
(* constants MCStores.cfg gives, the stickers and clips of the autochat    *)
(* service, the switches of groups, the models, captions and names of      *)
(* chats, the master data of the game, and temporary files.                *)
(***************************************************************************)
EXTENDS FileStore, SampleInputs, SequenceTheorems, FiniteSetTheorems

CONSTANTS
    SwitchTasks, WhiteLists, BlackLists, SwitchGroups, SwitchFaults,
    Chats, Models, Preset, Typed, ChoiceFaults,
    CaptionTasks, Pictures, Plain, Forwarded, CaptionLimit, MaxListed, CaptionStops,
    Askers, NameExpire, NameTimeout, NameTime, NameFaults,
    StickerUploads, NoPicture, StickerPictures, StickerForces, LastSid, StickerStops,
    ClipUsers, ClipUpdates, ClipTexts, ClipInbox, ClipKeys, NoClipKey, ClipText,
    LastVid, ClipWrites, ClipStops

VARIABLES
    scene,          \* the instance that runs; the variables of the others stand still
    stkTop, stkRecs, stkBusy, stkPc, stkPic, stkSeen, stkTold, stkDb, stkDbTime,
    stkFiles, stkCache, stkCacheTime, stkVecs, stkSearch, stkJob, stkUnsent,
    stkRestarts,
    voiceTop, voiceVoices, voiceUploads, voiceUpdates, voiceInbox, voiceQueue,
    voiceQueued, voiceWork, voiceDb, voiceDbTime, voiceFiles, voiceClips,
    voiceClipsTime, voiceReading, voiceRestarts,
    swTask, swList, swSaved, swTold, swLost, swFaults,
    cmChosen, cmSaved, cmAnswered, cmFaults,
    capStored, capListed, capAt, capLeft, capSaving, capTold, capRestarts,
    nameNow, nameKept, nameGroup, nameTold, nameAt, nameAsked, nameGot, nameFaults,
    dataOffered, dataKnown, dataOrder, dataLatest, dataFresh, dataVersion, dataData,
    dataIndex, dataFile, dataSaved, dataUnbuilt, dataTurn, dataJob, dataStops,
    stopOffered, stopKnown, stopOrder, stopLatest, stopFresh, stopVersion, stopData,
    stopIndex, stopFile, stopSaved, stopUnbuilt, stopTurn, stopJob, stopStops,
    recSeen, recTask, recTell, recTold, recPending, recBatch, recConn, recOpened,
    recTables, recCaller, recOpen, recStored, recRecorded, recDropped, recFaults,
    tmpNow, tmpAt, tmpExists, tmpWritten, tmpListed, tmpDue, tmpKept, tmpRestarts

stkVars == <<
    stkTop, stkRecs, stkBusy, stkPc, stkPic, stkSeen, stkTold, stkDb, stkDbTime,
    stkFiles, stkCache, stkCacheTime, stkVecs, stkSearch, stkJob, stkUnsent,
    stkRestarts>>
Sticker == INSTANCE Stickers WITH
    Uploads <- StickerUploads, NoPic <- NoPicture, Pics <- StickerPictures,
    Forces <- StickerForces, MaxTop <- LastSid, MaxRestarts <- StickerStops,
    top <- stkTop, recs <- stkRecs, busy <- stkBusy, pc <- stkPc, pic <- stkPic,
    seen <- stkSeen, told <- stkTold, db <- stkDb, dbTime <- stkDbTime,
    files <- stkFiles, cache <- stkCache, cacheTime <- stkCacheTime, vecs <- stkVecs,
    search <- stkSearch, job <- stkJob, unsent <- stkUnsent,
    restarts <- stkRestarts

voiceVars == <<
    voiceTop, voiceVoices, voiceUploads, voiceUpdates, voiceInbox, voiceQueue,
    voiceQueued, voiceWork, voiceDb, voiceDbTime, voiceFiles, voiceClips,
    voiceClipsTime, voiceReading, voiceRestarts>>
Voice == INSTANCE Voices WITH
    Users <- ClipUsers, Updates <- ClipUpdates, Tags <- ClipTexts, Inbox <- ClipInbox,
    Keys <- ClipKeys, NoKey <- NoClipKey, KeyTag <- ClipText,
    MaxTop <- LastVid, MaxWrites <- ClipWrites, MaxRestarts <- ClipStops, top <- voiceTop,
    voices <- voiceVoices, uploads <- voiceUploads, updates <- voiceUpdates,
    inbox <- voiceInbox, queue <- voiceQueue, queued <- voiceQueued, work <- voiceWork,
    db <- voiceDb, dbTime <- voiceDbTime, files <- voiceFiles, clips <- voiceClips,
    clipsTime <- voiceClipsTime, reading <- voiceReading, restarts <- voiceRestarts

swVars == <<swTask, swList, swSaved, swTold, swLost, swFaults>>
Switch == INSTANCE GroupSwitches WITH
    Tasks <- SwitchTasks, White <- WhiteLists, Black <- BlackLists,
    Groups <- SwitchGroups, MaxFaults <- SwitchFaults, task <- swTask, list <- swList,
    saved <- swSaved, told <- swTold, lost <- swLost, faults <- swFaults

cmVars == <<cmChosen, cmSaved, cmAnswered, cmFaults>>
Choice == INSTANCE ChatModels WITH
    Chats <- Chats, Models <- Models, Preset <- Preset,
    Typed <- Typed, MaxFaults <- ChoiceFaults, chosen <- cmChosen, saved <- cmSaved,
    answered <- cmAnswered, faults <- cmFaults

capVars == <<
    capStored, capListed, capAt, capLeft, capSaving, capTold, capRestarts>>
Captions == INSTANCE Captions WITH
    Tasks <- CaptionTasks, Pictures <- Pictures, Plain <- Plain,
    Forwards <- Forwarded, Limit <- CaptionLimit, MaxRestarts <- CaptionStops,
    stored <- capStored, listed <- capListed, at <- capAt, left <- capLeft,
    saving <- capSaving, told <- capTold, restarts <- capRestarts

nameVars == <<
    nameNow, nameKept, nameGroup, nameTold, nameAt, nameAsked, nameGot, nameFaults>>
Called == INSTANCE Names WITH
    Expire <- NameExpire, Timeout <- NameTimeout, MaxTime <- NameTime,
    MaxFaults <- NameFaults, now <- nameNow, kept <- nameKept, group <- nameGroup, told <- nameTold,
    at <- nameAt, asked <- nameAsked, got <- nameGot, faults <- nameFaults

dataVars == <<
    dataOffered, dataKnown, dataOrder, dataLatest, dataFresh, dataVersion, dataData,
    dataIndex, dataFile, dataSaved, dataUnbuilt, dataTurn, dataJob, dataStops>>
Data == INSTANCE MasterData WITH
    Names <- {"n1", "n2"}, Sources <- {"s1", "s2"}, Gets <- {"t1", "t2"},
    Wanted <- [t1 |-> {"n1"}, t2 |-> {"n2"}], MaxVersion <- 2, MaxStops <- 0,
    offered <- dataOffered, known <- dataKnown, order <- dataOrder,
    latest <- dataLatest, fresh <- dataFresh, version <- dataVersion,
    data <- dataData, index <- dataIndex, file <- dataFile, saved <- dataSaved,
    unbuilt <- dataUnbuilt, turn <- dataTurn, job <- dataJob, stops <- dataStops

stopVars == <<
    stopOffered, stopKnown, stopOrder, stopLatest, stopFresh, stopVersion, stopData,
    stopIndex, stopFile, stopSaved, stopUnbuilt, stopTurn, stopJob, stopStops>>
Stopped == INSTANCE MasterData WITH
    Names <- {"n1"}, Sources <- {"s1", "s2"}, Gets <- {"t1", "t2"},
    Wanted <- [t1 |-> {"n1"}, t2 |-> {"n1"}], MaxVersion <- 2, MaxStops <- 1,
    offered <- stopOffered, known <- stopKnown, order <- stopOrder,
    latest <- stopLatest, fresh <- stopFresh, version <- stopVersion,
    data <- stopData, index <- stopIndex, file <- stopFile, saved <- stopSaved,
    unbuilt <- stopUnbuilt, turn <- stopTurn, job <- stopJob, stops <- stopStops

recVars == <<
    recSeen, recTask, recTell, recTold, recPending, recBatch, recConn, recOpened,
    recTables, recCaller, recOpen, recStored, recRecorded, recDropped, recFaults>>
Record == INSTANCE RecordStore WITH
    Messages <- {"m1", "m2", "p"}, Reports <- RecordReports, GroupOf <- RecordGroups,
    NoGroup <- "private", Excluded <- {}, Masters <- <<"u1">>, Queries <- {"q"},
    Asked <- RecordAsks, MaxFaults <- 1, seen <- recSeen, task <- recTask,
    tell <- recTell, told <- recTold, pending <- recPending, batch <- recBatch,
    conn <- recConn, opened <- recOpened, tables <- recTables, caller <- recCaller,
    open <- recOpen, stored <- recStored, recorded <- recRecorded,
    dropped <- recDropped, faults <- recFaults

tmpVars == <<
    tmpNow, tmpAt, tmpExists, tmpWritten, tmpListed, tmpDue, tmpKept, tmpRestarts>>
Temp == INSTANCE TempFiles WITH
    Files <- {"f1", "f2"}, Keep <- 2, Day <- 4, Interval <- 1, MaxTime <- 7,
    MaxRestarts <- 1, now <- tmpNow, at <- tmpAt, exists <- tmpExists,
    written <- tmpWritten, listed <- tmpListed, due <- tmpDue, kept <- tmpKept,
    restarts <- tmpRestarts

ASSUME InstancesAreSound ==
    /\ Sticker!StickersAssumption
    /\ Voice!VoicesAssumption
    /\ Switch!SwitchAssumption
    /\ Choice!ChatModelsAssumption
    /\ Captions!CaptionsAssumption
    /\ Called!NamesAssumption
    /\ Data!DataAssumption
    /\ Stopped!DataAssumption
    /\ Record!RecordAssumption
    /\ Temp!TempAssumption

Scenes == {"file", "Sticker", "Voice", "Switch", "Choice", "Captions", "Called", "Data", "Stopped", "Record", "Temp"}
SceneInit ==
    /\ scene \in Scenes
    /\ Init
    /\ Sticker!Init
    /\ Voice!Init
    /\ scene # "Switch" => swSaved = [l \in WhiteLists \cup BlackLists |-> {}]
    /\ Switch!Init
    /\ Choice!Init
    /\ Captions!Init
    /\ Called!Init
    /\ Data!Init
    /\ Stopped!Init
    /\ Record!Init
    /\ Temp!Init
SceneNext ==
    \/ scene = "file" /\ Next /\ UNCHANGED <<scene, stkVars, voiceVars, swVars, cmVars, capVars, nameVars, dataVars, stopVars, recVars, tmpVars>>
    \/ scene = "Sticker" /\ Sticker!Next /\ UNCHANGED <<scene, vars, voiceVars, swVars, cmVars, capVars, nameVars, dataVars, stopVars, recVars, tmpVars>>
    \/ scene = "Voice" /\ Voice!Next /\ UNCHANGED <<scene, vars, stkVars, swVars, cmVars, capVars, nameVars, dataVars, stopVars, recVars, tmpVars>>
    \/ scene = "Switch" /\ Switch!Next /\ UNCHANGED <<scene, vars, stkVars, voiceVars, cmVars, capVars, nameVars, dataVars, stopVars, recVars, tmpVars>>
    \/ scene = "Choice" /\ Choice!Next /\ UNCHANGED <<scene, vars, stkVars, voiceVars, swVars, capVars, nameVars, dataVars, stopVars, recVars, tmpVars>>
    \/ scene = "Captions" /\ Captions!Next /\ UNCHANGED <<scene, vars, stkVars, voiceVars, swVars, cmVars, nameVars, dataVars, stopVars, recVars, tmpVars>>
    \/ scene = "Called" /\ Called!Next /\ UNCHANGED <<scene, vars, stkVars, voiceVars, swVars, cmVars, capVars, dataVars, stopVars, recVars, tmpVars>>
    \/ scene = "Data" /\ Data!Next /\ UNCHANGED <<scene, vars, stkVars, voiceVars, swVars, cmVars, capVars, nameVars, stopVars, recVars, tmpVars>>
    \/ scene = "Stopped" /\ Stopped!Next /\ UNCHANGED <<scene, vars, stkVars, voiceVars, swVars, cmVars, capVars, nameVars, dataVars, recVars, tmpVars>>
    \/ scene = "Record" /\ Record!Next /\ UNCHANGED <<scene, vars, stkVars, voiceVars, swVars, cmVars, capVars, nameVars, dataVars, stopVars, tmpVars>>
    \/ scene = "Temp" /\ Temp!Next /\ UNCHANGED <<scene, vars, stkVars, voiceVars, swVars, cmVars, capVars, nameVars, dataVars, stopVars, recVars>>
sceneVars == <<scene, vars, stkVars, voiceVars, swVars, cmVars, capVars, nameVars, dataVars, stopVars, recVars, tmpVars>>

SceneSpec == SceneInit /\ [][SceneNext]_sceneVars

------------------------------------------------------------------------------

\* Stickers, Voices: the number a caption or a clip is found by means the picture or
\* the text it was saved for, through restarts of either process.
NumbersKeepTheirMeaning ==
    /\ scene = "Sticker" =>
         Sticker!TypeOK /\ Sticker!SidMeansItsPicture /\ Sticker!CacheIsCurrent
    /\ scene = "Voice" =>
         /\ Voice!TypeOK /\ Voice!QueuedIsWaiting /\ Voice!OneClipPerKey
         /\ Voice!ClipsAreCurrent /\ Voice!ReportAddsUp

\* GroupSwitches, ChatModels, Captions, Names: what a group or a user was told of a
\* switch or a model holds until a fault, a model can do what it is asked for, each
\* stored caption has its turn to be dropped, and the names shown are recent.
SettingsAreKept ==
    /\ scene = "Switch" => Switch!TypeOK /\ Switch!ToldIsSo
    /\ scene = "Choice" =>
         /\ Choice!TypeOK /\ Choice!ModelsFit
         /\ Choice!ToldModelsAreUsed /\ Choice!WordsAreLost
    /\ scene = "Captions" => Captions!TypeOK /\ Captions!CaptionsAreListed
    /\ scene = "Called" => Called!TypeOK /\ Called!ShownIsRecent /\ Called!GroupFollowsEvents

\* MasterData, RecordStore, TempFiles: a table has the indexes of its data, its version
\* only goes forward, and what was fetched is newer; a message is in one place until it
\* is stored or lost to a fault; a file that was sent stays for its time, and none for
\* good.
DataIsCurrent ==
    /\ [](/\ scene = "Data" => Data!TypeOK /\ Data!IndexIsOfData /\ Data!FetchedIsNewer
          /\ scene = "Stopped" =>
               Stopped!TypeOK /\ Stopped!IndexIsOfData /\ Stopped!FetchedIsNewer
          /\ scene = "Record" =>
               /\ Record!TypeOK /\ Record!EachIsSomewhereOnce
               /\ Record!RowsInOrder /\ Record!BodiesHaveHeads
          /\ scene = "Temp" => Temp!TypeOK /\ Temp!SentStays /\ Temp!NoneStays)
    /\ Data!VersionGoesForward /\ Stopped!VersionGoesForward

------------------------------------------------------------------------------
(* GroupSwitches.                                                            *)

SwitchInv == Switch!TypeOK /\ Switch!ToldIsSo

LEMMA SwitchBegins == Switch!Init => SwitchInv
<1> SUFFICES ASSUME Switch!Init PROVE SwitchInv
  OBVIOUS
<1> USE DEF Switch!Init
<1>1. Switch!SwitchAssumption
  BY InstancesAreSound
<1>2. Switch!Free \in [at: {"free", "groups"}, command: Switch!Commands,
                       name: Switch!Lists, group: SwitchGroups]
  BY <1>1 DEF Switch!Free, Switch!SwitchAssumption, Switch!Commands, Switch!Lists
<1>3. \A l \in Switch!Lists, g \in SwitchGroups : swTold[l][g] = "nothing"
  OBVIOUS
<1>4. Switch!TypeOK
  <2>1. swTask \in [SwitchTasks -> [at: {"free", "groups"}, command: Switch!Commands,
                                    name: Switch!Lists, group: SwitchGroups]]
    BY <1>2
  <2>2. {swList, swSaved} \subseteq [Switch!Lists -> SUBSET Switch!Entries]
    OBVIOUS
  <2>3. swTold \in [Switch!Lists -> [SwitchGroups -> {"nothing", "on", "off"}]]
    OBVIOUS
  <2>4. swFaults \in 0 .. SwitchFaults
    BY <1>1 DEF Switch!SwitchAssumption
  <2> QED
    BY <2>1, <2>2, <2>3, <2>4 DEF Switch!TypeOK
<1> QED
  BY <1>3, <1>4 DEF SwitchInv, Switch!ToldIsSo

\* A command that is done tells what is so, and changes what was told of no other service
\* and no other group.
LEMMA SwitchDone ==
    ASSUME SwitchInv, UNCHANGED swLost,
           NEW l \in Switch!Lists, NEW g \in SwitchGroups, NEW c \in Switch!Commands,
           Switch!Done(l, g, c)
    PROVE  /\ {swList', swSaved'} \subseteq [Switch!Lists -> SUBSET Switch!Entries]
           /\ swTold' \in [Switch!Lists -> [SwitchGroups -> {"nothing", "on", "off"}]]
           /\ swFaults' \in 0 .. SwitchFaults
           /\ (Switch!ToldIsSo)'
<1> USE DEF SwitchInv, Switch!TypeOK, Switch!Tell, Switch!Said, Switch!On, Switch!Holds
<1>0. SwitchFaults \in Nat
  BY InstancesAreSound DEF Switch!SwitchAssumption
<1>1. CASE c = "status" \/ Switch!Said(Switch!On(l, g)) = c
  <2>1. /\ swTold' = [swTold EXCEPT ![l][g] = Switch!Said(Switch!On(l, g))]
        /\ UNCHANGED <<swList, swSaved, swFaults>>
    BY <1>1 DEF Switch!Done
  <2> QED
    BY <2>1 DEF Switch!ToldIsSo
<1>2. CASE c # "status" /\ Switch!Said(Switch!On(l, g)) # c
  <2> DEFINE Listed == IF (c = "on") = (l \in WhiteLists)
                       THEN Switch!Added(l, g) ELSE Switch!Removed(l, g)
  <2>1. /\ swList' = [swList EXCEPT ![l] = Listed]
        /\ \/ swSaved' = swList' /\ swTold' = [swTold EXCEPT ![l][g] = c] /\ UNCHANGED swFaults
           \/ /\ swFaults < SwitchFaults /\ swFaults' = swFaults + 1
              /\ swTold' = [swTold EXCEPT ![l][g] = "nothing"] /\ UNCHANGED swSaved
    BY <1>2 DEF Switch!Done
  <2>2. Listed \in SUBSET Switch!Entries
    BY DEF Switch!Added, Switch!Removed, Switch!Entries
  <2>3. c \in {"on", "off"}
    BY <1>2 DEF Switch!Commands
  <2>4. \A e \in Switch!Entries : e[1] # g => (e \in Listed <=> e \in swList[l])
    BY DEF Switch!Added, Switch!Removed, Switch!Entries
  <2>5. (\E e \in Listed : e[1] = g) <=> (c = "on") = (l \in WhiteLists)
    <3>1. CASE (c = "on") = (l \in WhiteLists)
      <4>1. <<g, "number">> \in Listed
        BY <3>1 DEF Switch!Added
      <4> QED
        BY <3>1, <4>1
    <3>2. CASE (c = "on") # (l \in WhiteLists)
      BY <3>2 DEF Switch!Removed
    <3> QED
      BY <3>1, <3>2
  <2>6. \A k \in Switch!Lists, h \in SwitchGroups : k # l \/ h # g =>
          (Switch!Holds(k, h) <=> (Switch!Holds(k, h))')
    <3> SUFFICES ASSUME NEW k \in Switch!Lists, NEW h \in SwitchGroups, k # l \/ h # g
                 PROVE  Switch!Holds(k, h) <=> (Switch!Holds(k, h))'
      OBVIOUS
    <3> HIDE DEF Listed
    <3>1. CASE k # l
      <4>1. swList'[k] = swList[k]
        BY <2>1, <3>1
      <4> QED
        BY <4>1
    <3>2. CASE k = l
      <4>1. swList'[k] = Listed /\ swList[k] \subseteq Switch!Entries
        BY <2>1, <3>2
      <4> QED
        BY <2>2, <2>4, <3>2, <4>1
    <3> QED
      BY <3>1, <3>2
  <2>7. Switch!Said(Switch!On(l, g))' = c
    <3>1. swList'[l] = Listed
      BY <2>1
    <3> QED
      BY <2>3, <2>5, <3>1
  <2>8. (Switch!ToldIsSo)'
    <3> SUFFICES ASSUME NEW k \in Switch!Lists, NEW h \in SwitchGroups,
                        swTold'[k][h] # "nothing", ~swLost'
                 PROVE  Switch!Said(Switch!On(k, h))' = swTold'[k][h]
      BY DEF Switch!ToldIsSo
    <3>1. CASE k = l /\ h = g
      BY <2>1, <2>7, <3>1
    <3>2. CASE k # l \/ h # g
      <4>1. swTold'[k][h] = swTold[k][h]
        BY <2>1, <3>2
      <4>2. Switch!Said(Switch!On(k, h)) = swTold[k][h]
        BY <4>1 DEF Switch!ToldIsSo
      <4> QED
        BY <2>6, <3>2, <4>1, <4>2
    <3> QED
      BY <3>1, <3>2
  <2>9. {swList', swSaved'} \subseteq [Switch!Lists -> SUBSET Switch!Entries]
    <3> HIDE DEF Listed
    <3>1. swList \in [Switch!Lists -> SUBSET Switch!Entries]
          /\ swSaved \in [Switch!Lists -> SUBSET Switch!Entries]
      OBVIOUS
    <3>2. swList' \in [Switch!Lists -> SUBSET Switch!Entries]
      BY <2>1, <2>2, <3>1
    <3> QED
      BY <2>1, <3>1, <3>2
  <2>10. swTold' \in [Switch!Lists -> [SwitchGroups -> {"nothing", "on", "off"}]]
    <3>1. PICK what \in {"nothing", "on", "off"} : swTold' = [swTold EXCEPT ![l][g] = what]
      BY <2>1, <2>3
    <3>2. swTold \in [Switch!Lists -> [SwitchGroups -> {"nothing", "on", "off"}]]
      OBVIOUS
    <3> HIDE DEF Listed
    <3> QED
      BY <3>1, <3>2
  <2>11. swFaults' \in 0 .. SwitchFaults
    BY <1>0, <2>1
  <2> QED
    BY <2>8, <2>9, <2>10, <2>11
<1> QED
  BY <1>1, <1>2 DEF Switch!Done

LEMMA SwitchSteps == SwitchInv /\ [Switch!Next]_swVars => SwitchInv'
<1> SUFFICES ASSUME SwitchInv, [Switch!Next]_swVars PROVE SwitchInv'
  OBVIOUS
<1> USE DEF Switch!TypeOK, Switch!ToldIsSo
<1>0. /\ SwitchFaults \in Nat
      /\ Switch!Free \in [at: {"free", "groups"}, command: Switch!Commands,
                          name: Switch!Lists, group: SwitchGroups]
  BY InstancesAreSound
  DEF Switch!SwitchAssumption, Switch!Free, Switch!Commands, Switch!Lists
<1>1. ASSUME NEW t \in SwitchTasks, NEW l \in Switch!Lists, NEW g \in SwitchGroups,
             NEW c \in Switch!Commands, Switch!Command(t, l, g, c)
      PROVE  SwitchInv'
  <2>1. CASE Switch!Done(l, g, c) /\ UNCHANGED swTask
    BY <1>1, <2>1, SwitchDone DEF SwitchInv, Switch!Command
  <2>2. CASE swTask' = [swTask EXCEPT ![t] = [at |-> "groups", command |-> c, name |-> l, group |-> g]]
             /\ UNCHANGED <<swList, swSaved, swTold, swFaults>>
    BY <1>1, <2>2 DEF SwitchInv, Switch!Command, Switch!Said, Switch!On, Switch!Holds
  <2> QED
    BY <1>1, <2>1, <2>2 DEF Switch!Command
<1>2. ASSUME NEW t \in SwitchTasks, Switch!GroupsKnown(t)
      PROVE  SwitchInv'
  <2>1. /\ swTask[t].name \in Switch!Lists /\ swTask[t].group \in SwitchGroups
        /\ swTask[t].command \in Switch!Commands
        /\ swTask' = [swTask EXCEPT ![t] = Switch!Free] /\ UNCHANGED swLost
    BY <1>2 DEF SwitchInv, Switch!GroupsKnown
  <2>2. CASE Switch!Done(swTask[t].name, swTask[t].group, swTask[t].command)
    BY <1>0, <2>1, <2>2, SwitchDone DEF SwitchInv
  <2>3. CASE UNCHANGED <<swList, swSaved, swTold, swFaults>>
    BY <1>0, <2>1, <2>3 DEF SwitchInv, Switch!Said, Switch!On, Switch!Holds
  <2> QED
    BY <1>2, <2>2, <2>3 DEF Switch!GroupsKnown
<1>3. CASE Switch!Restart
  <2> USE DEF SwitchInv
  <2>1. swTask' = [t \in SwitchTasks |-> Switch!Free] /\ swFaults' \in 0 .. SwitchFaults
    BY <1>0, <1>3 DEF Switch!Restart
  <2>2. swList' = swSaved /\ swSaved' = swSaved /\ swTold' = swTold /\ swLost' \in BOOLEAN
    BY <1>3 DEF Switch!Restart
  <2>3. (Switch!TypeOK)'
    BY <1>0, <2>1, <2>2
  <2>4. ~swLost' => ~swLost /\ swList' = swList
    BY <1>3, <2>2 DEF Switch!Restart
  <2> QED
    BY <2>2, <2>3, <2>4 DEF Switch!Said, Switch!On, Switch!Holds
<1>4. CASE UNCHANGED swVars
  BY <1>4 DEF SwitchInv, swVars, Switch!Said, Switch!On, Switch!Holds
<1> QED
  BY <1>1, <1>2, <1>3, <1>4 DEF Switch!Next

------------------------------------------------------------------------------
(* ChatModels.                                                               *)

\* The models of one chat: each fits its mode and, unless it is the preset, its name
\* holds no word of that mode or of one looked for earlier.
OwnSound(own) ==
    /\ own \in Choice!Own
    /\ \A mode \in Choice!Modes : Choice!Fits(own[mode], mode)
    /\ \A n \in 1..4 :
          \/ own[Choice!Keywords[n]] = Preset[Choice!Keywords[n]]
          \/ \A k \in 1..n : ~Choice!Has(own[Choice!Keywords[n]].name, Choice!Keywords[k])
EntriesSound(e) == e \in Choice!Entries /\ \A c \in DOMAIN e : OwnSound(e[c])

ChoiceInv ==
    /\ Choice!TypeOK
    /\ EntriesSound(cmChosen) /\ EntriesSound(cmSaved)
    /\ Choice!ToldModelsAreUsed
    /\ cmFaults = 0 => cmSaved = cmChosen

LEMMA ChoiceAssumed ==
    /\ Preset \in Choice!Own
    /\ \A mode \in Choice!Modes : Choice!Fits(Preset[mode], mode)
    /\ ChoiceFaults \in Nat
  BY InstancesAreSound DEF Choice!ChatModelsAssumption, Choice!Own

LEMMA KeywordsDiffer ==
    /\ Choice!Keywords[1] = "text" /\ Choice!Keywords[2] = "mm"
    /\ Choice!Keywords[3] = "tool" /\ Choice!Keywords[4] = "image"
    /\ \A n \in 1..4 : Choice!Keywords[n] \in Choice!Modes /\ Choice!Keywords[n] # "none"
    /\ \A j, k \in 1..4 : Choice!Keywords[j] = Choice!Keywords[k] => j = k
<1>1. /\ Choice!Keywords[1] = "text" /\ Choice!Keywords[2] = "mm"
      /\ Choice!Keywords[3] = "tool" /\ Choice!Keywords[4] = "image"
  BY DEF Choice!Keywords
<1>2. \A n \in 1..4 : n = 1 \/ n = 2 \/ n = 3 \/ n = 4
  OBVIOUS
<1>3. \A n \in 1..4 : Choice!Keywords[n] # "none"
  BY <1>1, <1>2
<1>4. \A j, k \in 1..4 : Choice!Keywords[j] = Choice!Keywords[k] => j = k
  BY <1>1, <1>2
<1> QED
  BY <1>1, <1>3, <1>4 DEF Choice!Modes

LEMMA PresetIsSound == OwnSound(Preset)
  BY ChoiceAssumed DEF OwnSound

LEMMA ModelsAreSound ==
    ASSUME EntriesSound(cmChosen), NEW c \in Chats
    PROVE  OwnSound(Choice!ModelsOf(c))
  BY PresetIsSound DEF EntriesSound, Choice!ModelsOf

\* What is left of a text without one of its words has no other words than the text.
LEMMA WithoutWord ==
    ASSUME NEW name, NEW typed, NEW mode, Choice!IsWithout(name, typed, mode),
           NEW word, Choice!Has(name, word)
    PROVE  Choice!Has(typed, word) /\ word # mode
  BY DEF Choice!IsWithout, Choice!Has

\* The mode of a text is the first word in it that is one, if there is any.
LEMMA FirstWord ==
    ASSUME NEW typed, \E k \in 1..4 : Choice!Has(typed, Choice!Keywords[k])
    PROVE  \E j \in 1..4 :
               /\ Choice!ModeOf(typed) = Choice!Keywords[j]
               /\ \A k \in 1..(j - 1) : ~Choice!Has(typed, Choice!Keywords[k])
<1> DEFINE P(j) == Choice!Has(typed, Choice!Keywords[j])
                   /\ \A i \in 1..(j - 1) : ~Choice!Has(typed, Choice!Keywords[i])
<1>1. Choice!ModeOf(typed) = Choice!Keywords[CHOOSE j \in 1..4 : P(j)]
  BY DEF Choice!ModeOf
<1>2. \E j \in 1..4 : P(j)
  <2>1. CASE Choice!Has(typed, Choice!Keywords[1])
    BY <2>1
  <2>2. CASE ~Choice!Has(typed, Choice!Keywords[1]) /\ Choice!Has(typed, Choice!Keywords[2])
    BY <2>2
  <2>3. CASE /\ \A i \in 1..2 : ~Choice!Has(typed, Choice!Keywords[i])
             /\ Choice!Has(typed, Choice!Keywords[3])
    BY <2>3
  <2>4. CASE /\ \A i \in 1..3 : ~Choice!Has(typed, Choice!Keywords[i])
             /\ Choice!Has(typed, Choice!Keywords[4])
    BY <2>4
  <2> QED
    BY <2>1, <2>2, <2>3, <2>4
<1> HIDE DEF P
<1>3. P(CHOOSE j \in 1..4 : P(j)) /\ (CHOOSE j \in 1..4 : P(j)) \in 1..4
  BY <1>2
<1> QED
  BY <1>1, <1>3 DEF P

\* A model found for the mode that was typed, or without one, has no word in its name
\* that would have been found first.
LEMMA UsableIsSound ==
    ASSUME NEW typed, NEW mode \in Choice!Modes, NEW model \in Choice!Usable(typed, mode),
           Choice!ModeOf(typed) \in {mode, "none"}
    PROVE  /\ model \in Models /\ Choice!Fits(model, mode)
           /\ \A n \in 1..4 :
                 Choice!Keywords[n] = mode \/ Choice!ModeOf(typed) = "none" =>
                    \A k \in 1..n : ~Choice!Has(model.name, Choice!Keywords[k])
<1>1. /\ model \in Models /\ Choice!Fits(model, mode)
      /\ Choice!IsWithout(model.name, typed, mode)
  BY DEF Choice!Usable, Choice!Named
<1>2. ASSUME NEW n \in 1..4, Choice!Keywords[n] = mode \/ Choice!ModeOf(typed) = "none",
             NEW k \in 1..n, Choice!Has(model.name, Choice!Keywords[k])
      PROVE  FALSE
  <2>1. Choice!Has(typed, Choice!Keywords[k]) /\ Choice!Keywords[k] # mode /\ k \in 1..4
    BY <1>1, <1>2, WithoutWord
  <2>2. PICK j \in 1..4 : /\ Choice!ModeOf(typed) = Choice!Keywords[j]
                          /\ \A i \in 1..(j - 1) : ~Choice!Has(typed, Choice!Keywords[i])
    BY <2>1, FirstWord
  <2>3. Choice!ModeOf(typed) # "none"
    BY <2>2, KeywordsDiffer
  <2>4. n = j
    BY <1>2, <2>2, <2>3, KeywordsDiffer
  <2> QED
    BY <2>1, <2>2, <2>3, <2>4
<1> QED
  BY <1>1, <1>2

\* A sound model is put into the entry of a chat.
LEMMA WithIsSound ==
    ASSUME EntriesSound(cmChosen), NEW c \in Chats, NEW model \in Models,
           NEW modes \in SUBSET Choice!Modes,
           \A mode \in modes : Choice!Fits(model, mode),
           \A n \in 1..4 : Choice!Keywords[n] \in modes =>
               \A k \in 1..n : ~Choice!Has(model.name, Choice!Keywords[k])
    PROVE  EntriesSound(Choice!With(c, model, modes))
<1> DEFINE own == [mode \in Choice!Modes |->
                      IF mode \in modes THEN model ELSE Choice!ModelsOf(c)[mode]]
           with == Choice!With(c, model, modes)
<1>1. OwnSound(Choice!ModelsOf(c))
  BY ModelsAreSound
<1>2. OwnSound(own)
  <2>1. own \in Choice!Own
    BY <1>1 DEF OwnSound, Choice!Own
  <2>2. \A mode \in Choice!Modes : Choice!Fits(own[mode], mode)
    BY <1>1 DEF OwnSound
  <2>3. \A n \in 1..4 :
          \/ own[Choice!Keywords[n]] = Preset[Choice!Keywords[n]]
          \/ \A k \in 1..n : ~Choice!Has(own[Choice!Keywords[n]].name, Choice!Keywords[k])
    <3> SUFFICES ASSUME NEW n \in 1..4
                 PROVE  \/ own[Choice!Keywords[n]] = Preset[Choice!Keywords[n]]
                        \/ \A k \in 1..n :
                              ~Choice!Has(own[Choice!Keywords[n]].name, Choice!Keywords[k])
      OBVIOUS
    <3>1. own[Choice!Keywords[n]] = IF Choice!Keywords[n] \in modes THEN model
                                    ELSE Choice!ModelsOf(c)[Choice!Keywords[n]]
      BY KeywordsDiffer
    <3> HIDE DEF own
    <3> QED
      BY <1>1, <3>1 DEF OwnSound
  <2> QED
    BY <2>1, <2>2, <2>3 DEF OwnSound
<1>3. /\ DOMAIN with = DOMAIN cmChosen \cup {c}
      /\ \A d \in DOMAIN with : with[d] = IF d = c THEN own ELSE cmChosen[d]
      /\ with = [d \in DOMAIN with |-> with[d]]
  BY DEF Choice!With
<1>4. DOMAIN cmChosen \in SUBSET Chats
  BY DEF EntriesSound, Choice!Entries
<1>5. \A d \in DOMAIN with : OwnSound(with[d])
  BY <1>2, <1>3 DEF EntriesSound
<1>6. with \in [DOMAIN with -> Choice!Own]
  <2>1. \A d \in DOMAIN with : with[d] \in Choice!Own
    BY <1>5 DEF OwnSound
  <2> HIDE DEF with
  <2> QED
    BY <1>3, <2>1
<1>7. with \in Choice!Entries
  BY <1>3, <1>4, <1>6 DEF Choice!Entries
<1> QED
  BY <1>5, <1>7 DEF EntriesSound

LEMMA ChoiceBegins == Choice!Init => ChoiceInv
<1> SUFFICES ASSUME Choice!Init PROVE ChoiceInv
  OBVIOUS
<1>1. cmChosen = [c \in {} |-> Preset] /\ cmSaved = cmChosen /\ cmFaults = 0
      /\ cmAnswered = [c \in Chats |-> Preset]
  BY DEF Choice!Init
<1>2. DOMAIN cmChosen = {} /\ cmChosen \in [{} -> Choice!Own]
  BY <1>1
<1>3. cmChosen \in Choice!Entries
  BY <1>2 DEF Choice!Entries
<1>4. EntriesSound(cmChosen)
  BY <1>2, <1>3 DEF EntriesSound
<1>5. cmAnswered \in [Chats -> Choice!Own] /\ cmFaults \in 0 .. ChoiceFaults
  BY <1>1, ChoiceAssumed
<1>6. Choice!ToldModelsAreUsed
  BY <1>1, <1>2 DEF Choice!ToldModelsAreUsed, Choice!ModelsOf
<1> QED
  BY <1>1, <1>3, <1>4, <1>5, <1>6 DEF ChoiceInv, Choice!TypeOK

\* A model is put into the entry of a chat, and the save fails or not.
LEMMA SetsIsSound ==
    ASSUME ChoiceInv, NEW c \in Chats, NEW model \in Models, NEW modes \in SUBSET Choice!Modes,
           EntriesSound(Choice!With(c, model, modes)), Choice!Sets(c, model, modes)
    PROVE  ChoiceInv'
<1> USE DEF ChoiceInv, Choice!TypeOK
<1>1. cmChosen' = Choice!With(c, model, modes) /\ EntriesSound(cmChosen')
  BY DEF Choice!Sets, EntriesSound
<1>2. CASE /\ cmSaved' = cmChosen' /\ cmFaults' = cmFaults
           /\ cmAnswered' = [cmAnswered EXCEPT ![c] =
                 [mode \in Choice!Modes |-> IF mode \in modes THEN model ELSE cmAnswered[c][mode]]]
  <2>1. cmAnswered' \in [Chats -> Choice!Own]
    <3>1. [mode \in Choice!Modes |-> IF mode \in modes THEN model ELSE cmAnswered[c][mode]]
          \in Choice!Own
      BY DEF Choice!Own
    <3> QED
      BY <1>2, <3>1
  <2>2. ASSUME cmFaults = 0, NEW d \in Chats PROVE (Choice!ModelsOf(d))' = cmAnswered'[d]
    <3>1. Choice!ModelsOf(d) = cmAnswered[d] /\ Choice!ModelsOf(c) = cmAnswered[c]
      BY <2>2 DEF Choice!ToldModelsAreUsed
    <3>2. CASE d = c
      BY <1>1, <1>2, <3>1, <3>2 DEF Choice!With, Choice!ModelsOf
    <3>3. CASE d # c
      BY <1>1, <1>2, <3>1, <3>3 DEF Choice!With, Choice!ModelsOf
    <3> QED
      BY <3>2, <3>3
  <2>3. (Choice!ToldModelsAreUsed)'
    BY <1>2, <2>2 DEF Choice!ToldModelsAreUsed
  <2>4. EntriesSound(cmSaved') /\ cmChosen' \in Choice!Entries /\ cmSaved' \in Choice!Entries
    BY <1>1, <1>2 DEF EntriesSound
  <2> QED
    BY <1>1, <1>2, <2>1, <2>3, <2>4 DEF EntriesSound
<1>3. CASE cmFaults < ChoiceFaults /\ cmFaults' = cmFaults + 1 /\ UNCHANGED <<cmSaved, cmAnswered>>
  <2>1. cmFaults' \in 0 .. ChoiceFaults /\ cmFaults' # 0
    BY <1>3, ChoiceAssumed
  <2>2. cmChosen' \in Choice!Entries
    BY <1>1 DEF EntriesSound
  <2>3. EntriesSound(cmSaved)' /\ EntriesSound(cmChosen)'
    BY <1>1, <1>3 DEF EntriesSound
  <2> QED
    BY <1>3, <2>1, <2>2, <2>3 DEF Choice!ToldModelsAreUsed
<1> QED
  BY <1>2, <1>3 DEF Choice!Sets

LEMMA ChoiceSteps == ChoiceInv /\ [Choice!Next]_cmVars => ChoiceInv'
<1> SUFFICES ASSUME ChoiceInv, [Choice!Next]_cmVars PROVE ChoiceInv'
  OBVIOUS
<1> USE DEF ChoiceInv, Choice!TypeOK
<1>1. ASSUME NEW c \in Chats, NEW typed \in Typed, Choice!Choose(c, typed) PROVE ChoiceInv'
  <2> DEFINE mode == Choice!ModeOf(typed)
  <2>1. PICK model \in Choice!Usable(typed, mode) : Choice!Sets(c, model, {mode})
    BY <1>1 DEF Choice!Choose
  <2>2. mode \in Choice!Modes
    <3>1. mode # "none"
      BY <1>1 DEF Choice!Choose
    <3>2. \E k \in 1..4 : Choice!Has(typed, Choice!Keywords[k])
      BY <3>1 DEF Choice!ModeOf
    <3> QED
      BY <3>2, FirstWord, KeywordsDiffer
  <2>3. EntriesSound(Choice!With(c, model, {mode})) /\ model \in Models
    BY <2>2, UsableIsSound, WithIsSound
  <2> QED
    BY <2>1, <2>2, <2>3, SetsIsSound
<1>2. ASSUME NEW c \in Chats, NEW typed \in Typed, Choice!ModeOf(typed) = "none",
             NEW mode \in {"text", "mm"}, NEW model \in Choice!Usable(typed, mode),
             NEW modes \in {{"text"}, {"mm", "text"}},
             modes = {"mm", "text"} => mode = "mm"
      PROVE  EntriesSound(Choice!With(c, model, modes)) /\ model \in Models
  <2>1. mode \in Choice!Modes /\ modes \in SUBSET Choice!Modes
    BY KeywordsDiffer
  <2>2. model \in Models /\ Choice!Fits(model, mode)
        /\ \A n \in 1..4 : \A k \in 1..n : ~Choice!Has(model.name, Choice!Keywords[k])
    BY <1>2, <2>1, UsableIsSound
  <2>3. \A m \in modes : Choice!Fits(model, m)
    BY <1>2, <2>2 DEF Choice!Fits
  <2> QED
    BY <2>1, <2>2, <2>3, WithIsSound
<1>3. ASSUME NEW c \in Chats, NEW typed \in Typed, Choice!ChooseBoth(c, typed) PROVE ChoiceInv'
  <2>1. PICK model \in Choice!Usable(typed, "text") :
            \/ model \in Choice!Usable(typed, "mm") /\ Choice!Sets(c, model, {"mm", "text"})
            \/ Choice!Sets(c, model, {"text"})
    BY <1>3 DEF Choice!ChooseBoth
  <2>2. Choice!ModeOf(typed) = "none" /\ {"mm", "text"} \in SUBSET Choice!Modes
    BY <1>3, KeywordsDiffer DEF Choice!ChooseBoth
  <2>3. CASE model \in Choice!Usable(typed, "mm") /\ Choice!Sets(c, model, {"mm", "text"})
    <3>1. EntriesSound(Choice!With(c, model, {"mm", "text"})) /\ model \in Models
      BY <1>2, <2>2, <2>3
    <3> QED
      BY <2>2, <2>3, <3>1, SetsIsSound
  <2>4. CASE Choice!Sets(c, model, {"text"})
    <3>1. EntriesSound(Choice!With(c, model, {"text"})) /\ model \in Models
      BY <1>2, <2>2
    <3> QED
      BY <2>2, <2>4, <3>1, SetsIsSound
  <2> QED
    BY <2>1, <2>3, <2>4
<1>4. ASSUME NEW c \in Chats, NEW typed \in Typed, Choice!ChooseBothHalf(c, typed)
      PROVE  ChoiceInv'
  <2>1. PICK model \in Choice!Usable(typed, "mm") :
            /\ cmChosen' = Choice!With(c, model, {"mm", "text"})
            /\ cmAnswered' = [cmAnswered EXCEPT ![c]["text"] = model]
    BY <1>4 DEF Choice!ChooseBothHalf
  <2>2. /\ Choice!ModeOf(typed) = "none" /\ cmSaved' = cmChosen'
        /\ cmFaults < ChoiceFaults /\ cmFaults' = cmFaults + 1
    BY <1>4 DEF Choice!ChooseBothHalf
  <2>3. EntriesSound(cmChosen') /\ EntriesSound(cmSaved') /\ model \in Models
    BY <1>2, <2>1, <2>2
  <2>4. cmFaults' \in 0 .. ChoiceFaults /\ cmFaults' # 0
    BY <2>2, ChoiceAssumed
  <2>5. cmAnswered' \in [Chats -> Choice!Own]
    <3>1. "text" \in Choice!Modes
      BY KeywordsDiffer
    <3>2. [cmAnswered[c] EXCEPT !["text"] = model] \in Choice!Own
      BY <2>3, <3>1 DEF Choice!Own
    <3> QED
      BY <2>1, <3>2
  <2> QED
    BY <2>2, <2>3, <2>4, <2>5 DEF EntriesSound, Choice!ToldModelsAreUsed
<1>5. ASSUME NEW c \in Chats, Choice!Clear(c) PROVE ChoiceInv'
  <2>1. /\ cmChosen' = [d \in DOMAIN cmChosen \ {c} |-> cmChosen[d]] /\ cmSaved' = cmChosen'
        /\ cmAnswered' = [cmAnswered EXCEPT ![c] = Preset] /\ cmFaults' = cmFaults
    BY <1>5 DEF Choice!Clear
  <2>2. /\ DOMAIN cmChosen' = DOMAIN cmChosen \ {c}
        /\ \A d \in DOMAIN cmChosen' : cmChosen'[d] = cmChosen[d]
        /\ cmChosen' \in [DOMAIN cmChosen \ {c} -> Choice!Own]
    BY <2>1 DEF EntriesSound, OwnSound
  <2>3. DOMAIN cmChosen \ {c} \in SUBSET Chats
    BY DEF Choice!Entries
  <2>4. cmChosen' \in Choice!Entries
    BY <2>2, <2>3 DEF Choice!Entries
  <2>5. EntriesSound(cmChosen')
    BY <2>2, <2>4 DEF EntriesSound
  <2>6. cmAnswered' \in [Chats -> Choice!Own]
    BY <2>1, ChoiceAssumed
  <2>7. (Choice!ToldModelsAreUsed)'
    <3> SUFFICES ASSUME cmFaults = 0, NEW d \in Chats
                 PROVE  (Choice!ModelsOf(d))' = cmAnswered'[d]
      BY <2>1 DEF Choice!ToldModelsAreUsed
    <3>1. Choice!ModelsOf(d) = cmAnswered[d]
      BY DEF Choice!ToldModelsAreUsed
    <3> QED
      BY <2>1, <2>2, <3>1 DEF Choice!ModelsOf
  <2> QED
    BY <2>1, <2>4, <2>5, <2>6, <2>7 DEF EntriesSound
<1>6. ASSUME NEW c \in Chats, Choice!Show(c) PROVE ChoiceInv'
  <2>1. /\ cmAnswered' = [cmAnswered EXCEPT ![c] = Choice!ModelsOf(c)]
        /\ UNCHANGED <<cmChosen, cmSaved, cmFaults>>
    BY <1>6 DEF Choice!Show
  <2>2. Choice!ModelsOf(c) \in Choice!Own
    BY ModelsAreSound DEF OwnSound
  <2>3. cmAnswered' \in [Chats -> Choice!Own]
    BY <2>1, <2>2
  <2>4. (Choice!ToldModelsAreUsed)'
    BY <2>1 DEF Choice!ToldModelsAreUsed, Choice!ModelsOf
  <2> QED
    BY <2>1, <2>3, <2>4 DEF EntriesSound
<1>7. CASE Choice!Restart
  BY <1>7 DEF Choice!Restart, EntriesSound, Choice!ToldModelsAreUsed, Choice!ModelsOf
<1>8. CASE UNCHANGED cmVars
  BY <1>8 DEF cmVars, EntriesSound, Choice!ToldModelsAreUsed, Choice!ModelsOf
<1> QED
  BY <1>1, <1>3, <1>4, <1>5, <1>6, <1>7, <1>8 DEF Choice!Next

\* The invariant gives what the run checks.
LEMMA ChoiceHolds ==
    ASSUME ChoiceInv
    PROVE  /\ Choice!TypeOK /\ Choice!ModelsFit
           /\ Choice!ToldModelsAreUsed /\ Choice!WordsAreLost
<1>1. Choice!ModelsFit
  BY ModelsAreSound DEF ChoiceInv, Choice!ModelsFit, OwnSound
<1>2. Choice!WordsAreLost
  BY DEF ChoiceInv, Choice!WordsAreLost, EntriesSound, OwnSound
<1> QED
  BY <1>1, <1>2 DEF ChoiceInv

------------------------------------------------------------------------------
(* Captions.                                                                 *)

\* The captions whose names are neither in the list nor on their way into it.
Unlisted == capStored \ (Captions!Names \cup {capSaving})

\* Only the task whose save goes on has one, and a picture is asked about while it is
\* the next one.
CaptionInv ==
    /\ Captions!TypeOK
    /\ IsFiniteSet(capStored) /\ Cardinality(Unlisted) <= capRestarts
    /\ Len(capListed) <= CaptionLimit
    /\ capLeft \in [CaptionTasks -> Seq(Pictures \cup {Plain})]
    /\ \A t \in CaptionTasks :
          /\ capAt[t] = "asking" => capLeft[t] # <<>> /\ Head(capLeft[t]) \in Pictures
          /\ capAt[t] = "saving" => capLeft[t] # <<>> /\ capSaving \in Pictures
          /\ \A u \in CaptionTasks : capAt[t] = "saving" /\ capAt[u] = "saving" => t = u

LEMMA CaptionsAssumed ==
    /\ Plain \notin Pictures
    /\ Forwarded \subseteq Seq(Pictures \cup {Plain})
    /\ CaptionLimit \in Nat /\ MaxListed \in Nat /\ CaptionStops \in Nat
<1> QED
  BY InstancesAreSound DEF Captions!CaptionsAssumption

LEMMA CaptionBegins == Captions!Init => CaptionInv
<1> SUFFICES ASSUME Captions!Init PROVE CaptionInv
  OBVIOUS
<1> USE CaptionsAssumed DEF Captions!Init
<1>1. /\ <<>> \in Seq(Pictures) /\ Len(<<>>) = 0
      /\ <<>> \in Seq(Pictures \cup {Plain})
  OBVIOUS
<1>2. Unlisted = {}
  BY DEF Unlisted
<1>3. IsFiniteSet({}) /\ Cardinality({}) = 0
  BY FS_EmptySet
<1>4. Captions!TypeOK
  BY <1>1 DEF Captions!TypeOK
<1> QED
  BY <1>1, <1>2, <1>3, <1>4 DEF CaptionInv

\* What stays to be put into words, after its first.
LEMMA RestOfPictures ==
    ASSUME CaptionInv, NEW t \in CaptionTasks, capLeft[t] # <<>>, Captions!NextPicture(t)
    PROVE  /\ capLeft' \in [CaptionTasks -> Seq(Pictures \cup {Plain})]
           /\ \A u \in CaptionTasks : u # t => capLeft'[u] = capLeft[u]
<1>1. capLeft[t] \in Seq(Pictures \cup {Plain})
  BY DEF CaptionInv
<1>2. Tail(capLeft[t]) \in Seq(Pictures \cup {Plain})
  BY <1>1, HeadTailProperties
<1> QED
  BY <1>2 DEF CaptionInv, Captions!NextPicture

\* The list after the name was put into it: no longer than the limit, and each name is
\* in it or goes with its caption.
LEMMA ListIsSound ==
    ASSUME CaptionInv, capSaving \in Pictures
    PROVE  /\ Captions!Kept \in Seq(Pictures)
           /\ Len(Captions!Kept) <= CaptionLimit
           /\ \A p \in Captions!Names \cup {capSaving} :
                 \/ \E n \in DOMAIN Captions!Kept : Captions!Kept[n] = p
                 \/ Captions!TooMany > 0 /\ p \in Captions!Evicted
<1> DEFINE long == Append(capListed, capSaving)
<1>1. capListed \in Seq(Pictures) /\ Len(capListed) \in Nat /\ Len(capListed) <= CaptionLimit
  BY LenProperties DEF CaptionInv, Captions!TypeOK
<1>2. /\ long \in Seq(Pictures) /\ Len(long) = Len(capListed) + 1
      /\ DOMAIN long = 1 .. Len(long)
      /\ \A n \in 1 .. Len(capListed) : long[n] = capListed[n]
      /\ long[Len(capListed) + 1] = capSaving
  BY <1>1, AppendProperties, LenProperties
<1>3. \A p \in Captions!Names \cup {capSaving} : \E n \in 1 .. Len(long) : long[n] = p
  <2>1. DOMAIN capListed = 1 .. Len(capListed)
    BY <1>1, LenProperties
  <2> QED
    BY <1>1, <1>2, <2>1 DEF Captions!Names
<1>4. CASE Captions!TooMany > 0
  <2> HIDE DEF long
  <2>1. Captions!TooMany = 1 /\ Len(long) = CaptionLimit + 1
    BY <1>1, <1>2, <1>4, CaptionsAssumed DEF Captions!TooMany
  <2>2. Captions!Kept = SubSeq(long, 2, CaptionLimit + 1)
    BY <1>4, <2>1 DEF Captions!Kept, Captions!ListedNow, long
  <2>3. /\ SubSeq(long, 2, CaptionLimit + 1) \in Seq(Pictures)
        /\ Len(SubSeq(long, 2, CaptionLimit + 1)) = CaptionLimit
        /\ \A n \in 1 .. CaptionLimit : SubSeq(long, 2, CaptionLimit + 1)[n] = long[n + 1]
    BY <1>2, <2>1, CaptionsAssumed
  <2>4. long[1] \in Captions!Evicted
    BY <2>1 DEF Captions!Evicted, long
  <2>5. DOMAIN Captions!Kept = 1 .. CaptionLimit
    BY <2>2, <2>3, LenProperties
  <2>6. ASSUME NEW n \in 1 .. Len(long)
        PROVE  \/ \E k \in DOMAIN Captions!Kept : Captions!Kept[k] = long[n]
               \/ long[n] \in Captions!Evicted
    <3>1. CASE n = 1
      BY <2>4, <3>1
    <3>2. CASE n # 1
      <4>1. n - 1 \in 1 .. CaptionLimit
        BY <2>1, <2>6, <3>2, CaptionsAssumed
      <4>2. Captions!Kept[n - 1] = long[n]
        BY <2>2, <2>3, <4>1
      <4> QED
        BY <2>5, <4>1, <4>2
    <3> QED
      BY <3>1, <3>2
  <2> QED
    BY <1>3, <1>4, <2>2, <2>3, <2>6, CaptionsAssumed
<1>5. CASE ~(Captions!TooMany > 0)
  <2>1. Captions!Kept = long
    BY <1>5 DEF Captions!Kept
  <2>2. Len(long) <= CaptionLimit
    BY <1>1, <1>2, <1>5, CaptionsAssumed DEF Captions!TooMany
  <2> QED
    BY <1>2, <1>3, <2>1, <2>2
<1> QED
  BY <1>4, <1>5

\* A task that goes on without a save.
LEMMA CaptionGoesOn ==
    ASSUME CaptionInv, UNCHANGED <<capStored, capListed, capSaving, capTold, capRestarts>>,
           Captions!Loop,
           NEW t \in CaptionTasks,
           NEW where \in {"idle", "fetching", "wording", "asking"}, Captions!Goes(t, where),
           capLeft' \in [CaptionTasks -> Seq(Pictures \cup {Plain})],
           \A u \in CaptionTasks : u # t => capLeft'[u] = capLeft[u],
           where = "asking" => capLeft'[t] # <<>> /\ Head(capLeft'[t]) \in Pictures
    PROVE  CaptionInv'
<1> USE DEF CaptionInv, Captions!TypeOK, Captions!Goes, Captions!Loop
<1>1. capAt \in [CaptionTasks -> {"idle", "fetching", "wording", "asking", "saving"}]
      /\ capAt' = [capAt EXCEPT ![t] = where]
  OBVIOUS
<1>2. capAt' \in [CaptionTasks -> {"idle", "fetching", "wording", "asking", "saving"}]
      /\ capAt'[t] = where
      /\ \A u \in CaptionTasks : u # t => capAt'[u] = capAt[u]
  BY <1>1
<1>3. (Captions!TypeOK)'
  BY <1>2
<1>4. Unlisted' = Unlisted
  BY DEF Unlisted, Captions!Names
<1>5. ASSUME NEW u \in CaptionTasks
      PROVE  /\ capAt'[u] = "asking" => capLeft'[u] # <<>> /\ Head(capLeft'[u]) \in Pictures
             /\ capAt'[u] # "saving"
  <2>1. CASE u = t
    BY <1>2, <2>1
  <2>2. CASE u # t
    <3>1. capAt'[u] = capAt[u] /\ capLeft'[u] = capLeft[u]
      BY <1>2, <2>2
    <3>2. capAt[u] # "saving"
      BY CaptionsAssumed
    <3> QED
      BY <3>1, <3>2
  <2> QED
    BY <2>1, <2>2
<1> QED
  BY <1>3, <1>4, <1>5

LEMMA CaptionStoreStep ==
    ASSUME CaptionInv, NEW t \in CaptionTasks, Captions!Store(t)
    PROVE  CaptionInv'
<1> USE CaptionsAssumed DEF Captions!Store, Captions!Loop, Captions!Goes
<1>1. /\ capAt[t] = "asking" /\ capSaving = Plain
      /\ capLeft[t] # <<>> /\ Head(capLeft[t]) \in Pictures
  BY DEF CaptionInv
<1>2. \A u \in CaptionTasks : capAt[u] # "saving"
  BY <1>1 DEF CaptionInv
<1>3. capAt' \in [CaptionTasks -> {"idle", "fetching", "wording", "asking", "saving"}]
      /\ capAt'[t] = "saving"
      /\ \A u \in CaptionTasks : u # t => capAt'[u] = capAt[u]
  BY DEF CaptionInv, Captions!TypeOK
<1>4. (Captions!TypeOK)'
  BY <1>1, <1>3 DEF CaptionInv, Captions!TypeOK
<1>5. IsFiniteSet(capStored')
  BY FS_AddElement DEF CaptionInv
<1>6. Cardinality(Unlisted') <= capRestarts'
  <2>1. Unlisted' \subseteq Unlisted
    BY <1>1 DEF Unlisted, Captions!Names, CaptionInv, Captions!TypeOK
  <2>2. IsFiniteSet(Unlisted)
    BY FS_Subset DEF Unlisted, CaptionInv
  <2>3. Cardinality(Unlisted') <= Cardinality(Unlisted)
        /\ Cardinality(Unlisted') \in Nat /\ Cardinality(Unlisted) \in Nat
    BY <2>1, <2>2, FS_Subset, FS_CardinalityType
  <2>4. Cardinality(Unlisted) <= capRestarts /\ capRestarts' = capRestarts /\ capRestarts \in Nat
    BY DEF CaptionInv, Captions!TypeOK
  <2> QED
    BY <2>3, <2>4
<1>7. ASSUME NEW u \in CaptionTasks
      PROVE  /\ capAt'[u] = "asking" => capLeft'[u] # <<>> /\ Head(capLeft'[u]) \in Pictures
             /\ capAt'[u] = "saving" => u = t /\ capLeft'[u] # <<>> /\ capSaving' \in Pictures
  BY <1>1, <1>2, <1>3 DEF CaptionInv
<1>8. capLeft' = capLeft /\ capListed' = capListed
  OBVIOUS
<1> QED
  BY <1>4, <1>5, <1>6, <1>7, <1>8 DEF CaptionInv

LEMMA CaptionListStep ==
    ASSUME CaptionInv, NEW t \in CaptionTasks, Captions!List(t)
    PROVE  CaptionInv'
<1> USE CaptionsAssumed DEF Captions!List, Captions!Goes
<1>1. capAt[t] = "saving" /\ capSaving \in Pictures /\ capLeft[t] # <<>>
  BY DEF CaptionInv
<1>2. /\ Captions!Kept \in Seq(Pictures) /\ Len(Captions!Kept) <= CaptionLimit
      /\ \A p \in Captions!Names \cup {capSaving} :
            \/ \E n \in DOMAIN Captions!Kept : Captions!Kept[n] = p
            \/ Captions!TooMany > 0 /\ p \in Captions!Evicted
  BY <1>1, ListIsSound
<1>3. /\ capLeft' \in [CaptionTasks -> Seq(Pictures \cup {Plain})]
      /\ \A u \in CaptionTasks : u # t => capLeft'[u] = capLeft[u]
  BY <1>1, RestOfPictures
<1>4. capAt' \in [CaptionTasks -> {"idle", "fetching", "wording", "asking", "saving"}]
      /\ capAt'[t] = "wording"
      /\ \A u \in CaptionTasks : u # t => capAt'[u] = capAt[u] /\ capAt[u] # "saving"
  BY <1>1 DEF CaptionInv, Captions!TypeOK
<1>5. capStored' \subseteq capStored
  OBVIOUS
<1>6. (Captions!TypeOK)'
  <2>1. Len(capListed') <= CaptionLimit + 1
    BY <1>2, LenProperties
  <2> QED
    BY <1>2, <1>3, <1>4, <1>5, <2>1 DEF CaptionInv, Captions!TypeOK
<1>7. IsFiniteSet(capStored')
  BY <1>5, FS_Subset DEF CaptionInv
<1>8. Cardinality(Unlisted') <= capRestarts'
  <2>1. Unlisted' \subseteq Unlisted
    <3> SUFFICES ASSUME NEW p \in capStored', p \notin (Captions!Names)'
                 PROVE  p \in Unlisted
      BY <1>5 DEF Unlisted
    <3>1. ~ \E n \in DOMAIN Captions!Kept : Captions!Kept[n] = p
      BY DEF Captions!Names
    <3>2. ~ (Captions!TooMany > 0 /\ p \in Captions!Evicted)
      OBVIOUS
    <3> QED
      BY <1>2, <1>5, <3>1, <3>2 DEF Unlisted
  <2>2. IsFiniteSet(Unlisted)
    BY FS_Subset DEF Unlisted, CaptionInv
  <2>3. Cardinality(Unlisted') <= Cardinality(Unlisted)
        /\ Cardinality(Unlisted') \in Nat /\ Cardinality(Unlisted) \in Nat
    BY <2>1, <2>2, FS_Subset, FS_CardinalityType
  <2>4. Cardinality(Unlisted) <= capRestarts /\ capRestarts' = capRestarts /\ capRestarts \in Nat
    BY DEF CaptionInv, Captions!TypeOK
  <2> QED
    BY <2>3, <2>4
<1>9. ASSUME NEW u \in CaptionTasks
      PROVE  /\ capAt'[u] = "asking" => capLeft'[u] # <<>> /\ Head(capLeft'[u]) \in Pictures
             /\ capAt'[u] # "saving"
  BY <1>3, <1>4 DEF CaptionInv
<1> QED
  BY <1>2, <1>3, <1>6, <1>7, <1>8, <1>9 DEF CaptionInv

\* A stop between the two saves leaves the one caption that was being saved.
LEMMA CaptionRestartStep == CaptionInv /\ Captions!Restart => CaptionInv'
<1> SUFFICES ASSUME CaptionInv, Captions!Restart PROVE CaptionInv'
  OBVIOUS
<1> USE CaptionsAssumed DEF Captions!Restart
<1>1. <<>> \in Seq(Pictures \cup {Plain})
  OBVIOUS
<1>2. (Captions!TypeOK)'
  BY <1>1 DEF CaptionInv, Captions!TypeOK
<1>3. Unlisted' \subseteq Unlisted \cup {capSaving}
  BY DEF Unlisted, Captions!Names, CaptionInv, Captions!TypeOK
<1>4. IsFiniteSet(Unlisted) /\ IsFiniteSet(Unlisted \cup {capSaving})
  BY FS_Subset, FS_AddElement DEF Unlisted, CaptionInv
<1>5. Cardinality(Unlisted') <= Cardinality(Unlisted) + 1
  BY <1>3, <1>4, FS_Subset, FS_AddElement, FS_CardinalityType
<1>6. /\ Cardinality(Unlisted) <= capRestarts /\ capRestarts' = capRestarts + 1
      /\ capRestarts \in Nat /\ Cardinality(Unlisted) \in Nat /\ Cardinality(Unlisted') \in Nat
  BY <1>3, <1>4, FS_Subset, FS_CardinalityType DEF CaptionInv, Captions!TypeOK
<1>7. Cardinality(Unlisted') <= capRestarts'
  BY <1>5, <1>6
<1> QED
  BY <1>1, <1>2, <1>7 DEF CaptionInv

LEMMA CaptionSteps == CaptionInv /\ [Captions!Next]_capVars => CaptionInv'
<1> SUFFICES ASSUME CaptionInv, [Captions!Next]_capVars PROVE CaptionInv'
  OBVIOUS
<1>1. CASE Captions!Next
  <2>1. CASE Captions!Restart
    BY <2>1, CaptionRestartStep
  <2>2. CASE \E t \in CaptionTasks : Captions!Step(t)
    <3> PICK t \in CaptionTasks : Captions!Step(t)
      BY <2>2
    <3>0. capLeft \in [CaptionTasks -> Seq(Pictures \cup {Plain})]
      BY DEF CaptionInv
    <3>1. CASE Captions!Begin(t)
      BY <3>0, <3>1, CaptionGoesOn DEF Captions!Begin
    <3>2. CASE Captions!Fetch(t)
      <4>1. /\ capLeft' \in [CaptionTasks -> Seq(Pictures \cup {Plain})]
            /\ \A u \in CaptionTasks : u # t => capLeft'[u] = capLeft[u]
        BY <3>0, <3>2, CaptionsAssumed DEF Captions!Fetch
      <4> QED
        BY <3>2, <4>1, CaptionGoesOn DEF Captions!Fetch
    <3>3. CASE Captions!Word(t)
      <4>1. Captions!Goes(t, "wording")
        BY <3>3 DEF Captions!Word, Captions!Goes, CaptionInv, Captions!TypeOK
      <4> QED
        BY <3>3, <4>1, RestOfPictures, CaptionGoesOn DEF Captions!Word
    <3>4. CASE Captions!Ask(t)
      BY <3>0, <3>4, CaptionGoesOn DEF Captions!Ask
    <3>5. CASE Captions!Fail(t)
      <4>1. capLeft[t] # <<>>
        BY <3>5 DEF Captions!Fail, CaptionInv
      <4> QED
        BY <3>5, <4>1, RestOfPictures, CaptionGoesOn DEF Captions!Fail
    <3>6. CASE Captions!Store(t)
      BY <3>6, CaptionStoreStep
    <3>7. CASE Captions!List(t)
      BY <3>7, CaptionListStep
    <3>8. CASE Captions!End(t)
      BY <3>0, <3>8, CaptionGoesOn DEF Captions!End
    <3> QED
      BY <3>1, <3>2, <3>3, <3>4, <3>5, <3>6, <3>7, <3>8 DEF Captions!Step
  <2> QED
    BY <1>1, <2>1, <2>2 DEF Captions!Next
<1>2. CASE UNCHANGED capVars
  BY <1>2 DEF capVars, CaptionInv, Captions!TypeOK, Unlisted, Captions!Names
<1> QED
  BY <1>1, <1>2

\* The instance counts as the library does.
LEMMA CaptionsCount == \A S : Captions!Cardinality(S) = Cardinality(S)
<1> QED
  BY DEF Captions!Cardinality, Cardinality, Captions!IsFiniteSet, IsFiniteSet

LEMMA CaptionHolds == CaptionInv => Captions!TypeOK /\ Captions!CaptionsAreListed
<1> SUFFICES ASSUME CaptionInv PROVE Captions!TypeOK /\ Captions!CaptionsAreListed
  OBVIOUS
<1>1. capSaving = Plain => capStored \ Captions!Names = Unlisted
  BY CaptionsAssumed DEF Unlisted, CaptionInv, Captions!TypeOK
<1>2. /\ Cardinality(Unlisted) <= capRestarts /\ Len(capListed) <= CaptionLimit
      /\ Captions!TypeOK
  BY DEF CaptionInv
<1>3. capSaving = Plain => Cardinality(capStored \ Captions!Names) <= capRestarts
  BY <1>1, <1>2
<1> QED
  BY <1>2, <1>3, CaptionsCount DEF Captions!CaptionsAreListed

------------------------------------------------------------------------------
(* Names.                                                                    *)

\* The clock waits for no name that is shown, and a call for no longer than its timeout;
\* what is kept was true when it was answered, at most one call after it was asked for.
NamesInv ==
    /\ Called!TypeOK
    /\ \A k \in Called!Kinds : nameKept[k].name # Called!None =>
          /\ nameKept[k].name <= nameNow
          /\ nameKept[k].until <= nameKept[k].name + NameTimeout + NameExpire
    /\ \A a \in Askers : Called!Waiting(a) =>
          nameAsked[a] <= nameNow /\ nameNow <= nameAsked[a] + NameTimeout
    /\ nameTold # Called!None => nameTold <= nameNow
    /\ Called!ShownIsRecent
    /\ Called!GroupFollowsEvents

LEMMA NamesAssumed ==
    NameExpire \in Nat /\ NameExpire > 0 /\ NameTimeout \in Nat /\ NameTime \in Nat /\ NameFaults \in Nat
<1> QED
  BY InstancesAreSound DEF Called!NamesAssumption

LEMMA NamesBegin == Called!Init => NamesInv
<1> QED
  BY NamesAssumed DEF Called!Init, NamesInv, Called!TypeOK, Called!Times, Called!None,
     Called!Kinds, Called!Nothing, Called!Waiting, Called!ShownIsRecent,
     Called!GroupFollowsEvents

\* What an asker is given at once, from the cache or an answer, is recent.
LEMMA NameIsGiven ==
    ASSUME NamesInv, UNCHANGED <<nameNow, nameTold>>,
           NEW a \in Askers, NEW name \in Called!Times \cup {Called!None},
           NEW what \in {"named", "labelled"}, Called!Gives(a, name, what),
           what = "named" /\ name # Called!None => nameNow < name + NameTimeout + NameExpire,
           nameKept' \in [Called!Kinds -> [name : Called!Times \cup {Called!None},
                                           until : 0 .. (NameTime + NameExpire)]],
           \A k \in Called!Kinds : nameKept'[k].name # Called!None =>
              /\ nameKept'[k].name <= nameNow
              /\ nameKept'[k].until <= nameKept'[k].name + NameTimeout + NameExpire,
           nameGroup' \in Called!Times \cup {Called!None},
           (Called!GroupFollowsEvents)',
           nameFaults' \in 0 .. NameFaults
    PROVE  NamesInv'
<1> USE NamesAssumed DEF NamesInv, Called!TypeOK, Called!Gives
<1>1. /\ nameAt' \in [Askers -> {"idle", "group", "named", "labelled"} \cup Called!Kinds]
      /\ nameAt'[a] = what /\ nameGot'[a] = name /\ nameAsked'[a] = 0
      /\ \A b \in Askers : b # a =>
            nameAt'[b] = nameAt[b] /\ nameGot'[b] = nameGot[b] /\ nameAsked'[b] = nameAsked[b]
  OBVIOUS
<1>2. nameAsked' \in [Askers -> Called!Times]
  BY DEF Called!Times
<1>3. nameGot' \in [Askers -> Called!Times \cup {Called!None}]
  OBVIOUS
<1>4. (Called!ShownIsRecent)'
  BY <1>1 DEF Called!ShownIsRecent
<1>5. \A b \in Askers : (Called!Waiting(b))' =>
          nameAsked'[b] <= nameNow /\ nameNow <= nameAsked'[b] + NameTimeout
  BY <1>1 DEF Called!Waiting, Called!Kinds
<1> QED
  BY <1>1, <1>2, <1>3, <1>4, <1>5

\* An asker whose call begins waits for it from now on.
LEMMA NameIsAwaited ==
    ASSUME NamesInv, UNCHANGED <<nameNow, nameTold, nameGroup, nameGot>>,
           NEW a \in Askers, NEW what \in {"group"} \cup Called!Kinds,
           nameAt' = [nameAt EXCEPT ![a] = what],
           nameAsked' = [nameAsked EXCEPT ![a] = nameNow],
           nameKept' \in [Called!Kinds -> [name : Called!Times \cup {Called!None},
                                           until : 0 .. (NameTime + NameExpire)]],
           \A k \in Called!Kinds : nameKept'[k].name # Called!None =>
              /\ nameKept'[k].name <= nameNow
              /\ nameKept'[k].until <= nameKept'[k].name + NameTimeout + NameExpire,
           nameFaults' \in 0 .. NameFaults
    PROVE  NamesInv'
<1> USE NamesAssumed DEF NamesInv, Called!TypeOK
<1>1. /\ nameAt' \in [Askers -> {"idle", "group", "named", "labelled"} \cup Called!Kinds]
      /\ nameAt'[a] = what /\ nameAsked'[a] = nameNow
      /\ \A b \in Askers : b # a => nameAt'[b] = nameAt[b] /\ nameAsked'[b] = nameAsked[b]
  OBVIOUS
<1>2. nameAsked' \in [Askers -> Called!Times]
  OBVIOUS
<1>3. (Called!ShownIsRecent)'
  BY <1>1 DEF Called!ShownIsRecent, Called!Kinds
<1>4. \A b \in Askers : (Called!Waiting(b))' =>
          nameAsked'[b] <= nameNow /\ nameNow <= nameAsked'[b] + NameTimeout
  BY <1>1 DEF Called!Waiting, Called!Times
<1>5. (Called!GroupFollowsEvents)'
  BY DEF Called!GroupFollowsEvents
<1> QED
  BY <1>1, <1>2, <1>3, <1>4, <1>5

LEMMA NameIsLookedUp ==
    ASSUME NamesInv, UNCHANGED <<nameNow, nameTold, nameGroup>>,
           NEW a \in Askers, NEW k \in Called!Kinds, Called!LooksUp(a, k),
           nameFaults' \in 0 .. NameFaults
    PROVE  NamesInv'
<1>1. nameKept \in [Called!Kinds -> [name : Called!Times \cup {Called!None},
                                     until : 0 .. (NameTime + NameExpire)]]
  BY DEF NamesInv, Called!TypeOK
<1>2. /\ Called!Purged[k] \in [name : Called!Times \cup {Called!None},
                               until : 0 .. (NameTime + NameExpire)]
      /\ Called!Purged[k].name # Called!None =>
            Called!Purged[k] = nameKept[k] /\ nameNow < nameKept[k].until
  BY <1>1, NamesAssumed DEF NamesInv, Called!TypeOK, Called!Purged, Called!Nothing,
     Called!Times, Called!None
<1>3. /\ nameKept' = [nameKept EXCEPT ![k] = Called!Purged[k]]
      /\ nameKept' \in [Called!Kinds -> [name : Called!Times \cup {Called!None},
                                         until : 0 .. (NameTime + NameExpire)]]
  BY <1>1, <1>2 DEF Called!LooksUp
<1>4. ASSUME NEW j \in Called!Kinds, nameKept'[j].name # Called!None
      PROVE  /\ nameKept'[j].name <= nameNow
             /\ nameKept'[j].until <= nameKept'[j].name + NameTimeout + NameExpire
  <2>1. nameKept'[j] = nameKept[j]
    BY <1>1, <1>2, <1>3, <1>4
  <2> QED
    BY <1>4, <2>1 DEF NamesInv
<1>5. CASE Called!Purged[k].name # Called!None
  <2>1. Called!Gives(a, Called!Purged[k].name, "named")
    BY <1>5 DEF Called!LooksUp, Called!Shows
  <2>2. nameNow < Called!Purged[k].name + NameTimeout + NameExpire
    <3>1. /\ nameKept[k].until <= nameKept[k].name + NameTimeout + NameExpire
          /\ nameKept[k].name \in Int /\ nameKept[k].until \in Int /\ nameNow \in Int
      BY <1>1, <1>2, <1>5 DEF NamesInv, Called!TypeOK, Called!Times, Called!None
    <3> QED
      BY <1>2, <1>5, <3>1, NamesAssumed
  <2>3. Called!Purged[k].name \in Called!Times \cup {Called!None}
    BY <1>2
  <2>4. nameGroup' \in Called!Times \cup {Called!None} /\ (Called!GroupFollowsEvents)'
    BY DEF NamesInv, Called!TypeOK, Called!GroupFollowsEvents
  <2> QED
    BY <1>3, <1>4, <2>1, <2>2, <2>3, <2>4, NameIsGiven
<1>6. CASE Called!Purged[k].name = Called!None
  <2>1. /\ nameAt' = [nameAt EXCEPT ![a] = k]
        /\ nameAsked' = [nameAsked EXCEPT ![a] = nameNow]
        /\ UNCHANGED nameGot
    BY <1>6 DEF Called!LooksUp
  <2> QED
    BY <1>3, <1>4, <2>1, NameIsAwaited
<1> QED
  BY <1>5, <1>6

LEMMA NameAnswerStep ==
    ASSUME NamesInv, NEW a \in Askers, NEW k \in Called!Kinds, Called!Answer(a, k)
    PROVE  NamesInv'
<1> USE NamesAssumed
<1>1. Called!Waiting(a)
  BY DEF Called!Answer, Called!Waiting
<1>2. PICK name \in nameAsked[a] .. nameNow :
          /\ nameKept' = [nameKept EXCEPT ![k] = [name |-> name, until |-> nameNow + NameExpire]]
          /\ Called!Gives(a, name, "named")
  BY DEF Called!Answer, Called!Shows
<1>3. /\ name \in Called!Times /\ nameNow \in Called!Times
      /\ nameNow <= name + NameTimeout
  BY <1>1 DEF NamesInv, Called!TypeOK, Called!Times
<1>4. /\ nameKept' \in [Called!Kinds -> [name : Called!Times \cup {Called!None},
                                         until : 0 .. (NameTime + NameExpire)]]
      /\ nameKept'[k] = [name |-> name, until |-> nameNow + NameExpire]
      /\ \A j \in Called!Kinds : j # k => nameKept'[j] = nameKept[j]
  <2>1. [name |-> name, until |-> nameNow + NameExpire]
          \in [name : Called!Times \cup {Called!None}, until : 0 .. (NameTime + NameExpire)]
    BY <1>3 DEF Called!Times
  <2> QED
    BY <1>2, <2>1 DEF NamesInv, Called!TypeOK
<1>5. ASSUME NEW j \in Called!Kinds, nameKept'[j].name # Called!None
      PROVE  /\ nameKept'[j].name <= nameNow
             /\ nameKept'[j].until <= nameKept'[j].name + NameTimeout + NameExpire
  <2>1. CASE j = k
    BY <1>2, <1>3, <1>4, <2>1 DEF Called!Times
  <2>2. CASE j # k
    BY <1>4, <1>5, <2>2 DEF NamesInv
  <2> QED
    BY <2>1, <2>2
<1>6. nameNow < name + NameTimeout + NameExpire
  BY <1>3 DEF Called!Times
<1>7. /\ UNCHANGED <<nameNow, nameTold>>
      /\ nameGroup' \in Called!Times \cup {Called!None}
      /\ (Called!GroupFollowsEvents)' /\ nameFaults' \in 0 .. NameFaults
  BY DEF Called!Answer, NamesInv, Called!TypeOK, Called!GroupFollowsEvents
<1> QED
  BY <1>2, <1>3, <1>4, <1>5, <1>6, <1>7, NameIsGiven

LEMMA NameFailsStep ==
    ASSUME NamesInv, NEW a \in Askers, Called!Fails(a)
    PROVE  NamesInv'
<1>1. nameFaults' \in 0 .. NameFaults /\ UNCHANGED <<nameNow, nameGroup, nameTold>>
  BY NamesAssumed DEF Called!Fails, NamesInv, Called!TypeOK
<1>2. CASE nameAt[a] = "member"
  BY <1>1, <1>2, NameIsLookedUp DEF Called!Fails, Called!Kinds
<1>3. CASE nameAt[a] # "member"
  <2>1. Called!Gives(a, Called!None, "named") /\ UNCHANGED nameKept
    BY <1>3 DEF Called!Fails, Called!Shows
  <2>2. nameGroup' \in Called!Times \cup {Called!None} /\ (Called!GroupFollowsEvents)'
    BY <1>1 DEF NamesInv, Called!TypeOK, Called!GroupFollowsEvents
  <2>3. /\ nameKept' \in [Called!Kinds -> [name : Called!Times \cup {Called!None},
                                           until : 0 .. (NameTime + NameExpire)]]
        /\ \A k \in Called!Kinds : nameKept'[k].name # Called!None =>
              /\ nameKept'[k].name <= nameNow
              /\ nameKept'[k].until <= nameKept'[k].name + NameTimeout + NameExpire
    BY <2>1 DEF NamesInv, Called!TypeOK
  <2> QED
    BY <1>1, <2>1, <2>2, <2>3, NameIsGiven
<1> QED
  BY <1>2, <1>3

LEMMA GroupNameSteps ==
    ASSUME NamesInv, NEW a \in Askers, Called!AskGroup(a) \/ Called!AnswerGroup(a)
    PROVE  NamesInv'
<1> USE NamesAssumed
<1>1. /\ nameKept' \in [Called!Kinds -> [name : Called!Times \cup {Called!None},
                                         until : 0 .. (NameTime + NameExpire)]]
      /\ \A k \in Called!Kinds : nameKept'[k].name # Called!None =>
            /\ nameKept'[k].name <= nameNow
            /\ nameKept'[k].until <= nameKept'[k].name + NameTimeout + NameExpire
      /\ UNCHANGED <<nameNow, nameTold>>
  BY DEF NamesInv, Called!TypeOK, Called!AskGroup, Called!AnswerGroup
<1>2. /\ nameGroup \in Called!Times \cup {Called!None} /\ Called!GroupFollowsEvents
      /\ nameFaults \in 0 .. NameFaults /\ nameFaults \in Int
      /\ nameNow \in Called!Times
      /\ nameTold \in Called!Times \cup {Called!None}
      /\ nameTold # Called!None => nameTold <= nameNow
  BY DEF NamesInv, Called!TypeOK
<1>3. CASE Called!AskGroup(a)
  <2>1. UNCHANGED <<nameGroup, nameFaults>>
    BY <1>3 DEF Called!AskGroup
  <2>2. (Called!GroupFollowsEvents)'
    BY <1>1, <1>2, <2>1 DEF Called!GroupFollowsEvents
  <2>3. CASE nameGroup # Called!None
    BY <1>1, <1>2, <1>3, <2>1, <2>2, <2>3, NameIsGiven DEF Called!AskGroup, Called!Labels
  <2>4. CASE nameGroup = Called!None
    BY <1>1, <1>2, <1>3, <2>1, <2>4, NameIsAwaited DEF Called!AskGroup
  <2> QED
    BY <2>3, <2>4
<1>4. CASE Called!AnswerGroup(a)
  <2>1. CASE \E name \in nameAsked[a] .. nameNow : nameGroup' = name /\ Called!Labels(a, name)
                                                   /\ UNCHANGED nameFaults
    <3> PICK name \in nameAsked[a] .. nameNow :
            nameGroup' = name /\ Called!Labels(a, name) /\ UNCHANGED nameFaults
      BY <2>1
    <3>1. /\ name \in Called!Times /\ name # Called!None
          /\ nameNow <= name + NameTimeout
      <4>1. Called!Waiting(a) /\ nameAsked[a] \in Called!Times
        BY <1>4 DEF Called!AnswerGroup, Called!Waiting, NamesInv, Called!TypeOK
      <4> QED
        BY <1>2, <4>1 DEF NamesInv, Called!Times, Called!None
    <3>2. (Called!GroupFollowsEvents)'
      BY <1>1, <1>2, <3>1 DEF Called!GroupFollowsEvents, Called!Times, Called!None
    <3> QED
      BY <1>1, <1>2, <3>1, <3>2, NameIsGiven DEF Called!Labels
  <2>2. CASE /\ nameFaults < NameFaults /\ nameFaults' = nameFaults + 1
             /\ Called!Labels(a, Called!None) /\ UNCHANGED nameGroup
    <3>1. nameFaults' \in 0 .. NameFaults
      BY <1>2, <2>2
    <3>2. (Called!GroupFollowsEvents)'
      BY <1>1, <1>2, <2>2 DEF Called!GroupFollowsEvents
    <3> QED
      BY <1>1, <1>2, <2>2, <3>1, <3>2, NameIsGiven DEF Called!Labels
  <2> QED
    BY <1>4, <2>1, <2>2 DEF Called!AnswerGroup
<1> QED
  BY <1>3, <1>4

LEMMA NameOtherSteps ==
    ASSUME NamesInv,
           (\E a \in Askers : Called!Leave(a)) \/ Called!Event \/ Called!Restart \/ Called!Tick
    PROVE  NamesInv'
<1> USE NamesAssumed
<1>1. CASE \E a \in Askers : Called!Leave(a)
  <2> PICK a \in Askers : Called!Leave(a)
    BY <1>1
  <2>1. /\ nameAt' \in [Askers -> {"idle", "group", "named", "labelled"} \cup Called!Kinds]
        /\ nameGot' \in [Askers -> Called!Times \cup {Called!None}]
        /\ nameAt'[a] = "idle"
        /\ \A b \in Askers : b # a => nameAt'[b] = nameAt[b] /\ nameGot'[b] = nameGot[b]
        /\ UNCHANGED <<nameNow, nameKept, nameGroup, nameTold, nameAsked, nameFaults>>
    BY DEF Called!Leave, NamesInv, Called!TypeOK
  <2>2. (Called!ShownIsRecent)'
    BY <2>1 DEF NamesInv, Called!ShownIsRecent
  <2>3. \A b \in Askers : (Called!Waiting(b))' =>
            nameAsked'[b] <= nameNow' /\ nameNow' <= nameAsked'[b] + NameTimeout
    BY <2>1 DEF NamesInv, Called!Waiting, Called!Kinds
  <2> QED
    BY <2>1, <2>2, <2>3 DEF NamesInv, Called!TypeOK, Called!GroupFollowsEvents
<1>2. CASE Called!Event
  <2>1. (Called!GroupFollowsEvents)'
    BY <1>2 DEF Called!Event, Called!Label, NamesInv, Called!TypeOK, Called!GroupFollowsEvents,
       Called!Times, Called!None
  <2> QED
    BY <1>2, <2>1 DEF Called!Event, Called!Label, NamesInv, Called!TypeOK,
       Called!ShownIsRecent, Called!Waiting, Called!Times
<1>3. CASE Called!Restart
  <2>1. (Called!TypeOK)'
    BY <1>3 DEF Called!Restart, NamesInv, Called!TypeOK, Called!Nothing, Called!Times
  <2> QED
    BY <1>3, <2>1 DEF Called!Restart, NamesInv, Called!GroupFollowsEvents,
       Called!ShownIsRecent, Called!Waiting, Called!Nothing, Called!Kinds
<1>4. CASE Called!Tick
  <2>1. /\ nameNow \in Int /\ nameNow' = nameNow + 1 /\ nameNow' \in Called!Times
        /\ UNCHANGED <<nameKept, nameGroup, nameTold, nameAt, nameAsked, nameGot, nameFaults>>
    BY <1>4 DEF Called!Tick, NamesInv, Called!TypeOK, Called!Times
  <2>2. (Called!ShownIsRecent)'
    BY <1>4, <2>1 DEF Called!Tick, Called!ShownIsRecent
  <2>3. ASSUME NEW a \in Askers, Called!Waiting(a)
        PROVE  nameAsked[a] <= nameNow' /\ nameNow' <= nameAsked[a] + NameTimeout
    BY <1>4, <2>1, <2>3 DEF Called!Tick, NamesInv, Called!TypeOK, Called!Times
  <2>4. \A k \in Called!Kinds : nameKept[k].name # Called!None =>
            /\ nameKept[k].name <= nameNow'
            /\ nameKept[k].until <= nameKept[k].name + NameTimeout + NameExpire
    BY <2>1 DEF NamesInv, Called!TypeOK, Called!Times
  <2>5. nameTold # Called!None => nameTold <= nameNow'
    BY <2>1 DEF NamesInv, Called!TypeOK, Called!Times, Called!None
  <2>6. (Called!TypeOK)' /\ (Called!GroupFollowsEvents)'
    BY <2>1 DEF NamesInv, Called!TypeOK, Called!GroupFollowsEvents
  <2>7. \A a \in Askers : (Called!Waiting(a))' =>
            nameAsked'[a] <= nameNow' /\ nameNow' <= nameAsked'[a] + NameTimeout
    BY <2>1, <2>3 DEF Called!Waiting
  <2> QED
    BY <2>1, <2>2, <2>4, <2>5, <2>6, <2>7 DEF NamesInv
<1> QED
  BY <1>1, <1>2, <1>3, <1>4

LEMMA NamesSteps == NamesInv /\ [Called!Next]_nameVars => NamesInv'
<1> SUFFICES ASSUME NamesInv, [Called!Next]_nameVars PROVE NamesInv'
  OBVIOUS
<1>1. ASSUME NEW a \in Askers, NEW k \in Called!Kinds, Called!Ask(a, k)
      PROVE  NamesInv'
  <2>1. /\ UNCHANGED <<nameNow, nameTold, nameGroup>> /\ Called!LooksUp(a, k)
        /\ nameFaults' \in 0 .. NameFaults
    BY <1>1 DEF Called!Ask, NamesInv, Called!TypeOK
  <2> QED
    BY <2>1, NameIsLookedUp
<1>2. CASE UNCHANGED nameVars
  BY <1>2 DEF nameVars, NamesInv, Called!TypeOK, Called!ShownIsRecent,
     Called!GroupFollowsEvents, Called!Waiting
<1> QED
  BY <1>1, <1>2, NameAnswerStep, NameFailsStep, GroupNameSteps, NameOtherSteps DEF Called!Next

------------------------------------------------------------------------------
(* The four together.                                                        *)

\* What a group or a user was told of a switch or a model holds until a fault, whatever
\* the groups and services, the chats, models and typed words; a model has the modalities
\* that are asked of it; no more captions stay for good than the limit and one for each
\* stop between the two saves, whatever the pictures, messages and the limit; the names
\* shown are recent, whatever the askers, the timeout and the time they are kept (GroupSwitches,
\* ChatModels, Captions and Names; settings of utils and llm, chat/__init__.py, handler.py).
THEOREM SettingsAlwaysKept == SceneSpec => []SettingsAreKept
<1> DEFINE Inv == /\ scene = "Switch" => SwitchInv
                  /\ scene = "Choice" => ChoiceInv
                  /\ scene = "Captions" => CaptionInv
                  /\ scene = "Called" => NamesInv
<1>1. SceneInit => Inv
  BY SwitchBegins, ChoiceBegins, CaptionBegins, NamesBegin DEF SceneInit
<1>2. Inv /\ [SceneNext]_sceneVars => Inv'
  <2> SUFFICES ASSUME Inv, [SceneNext]_sceneVars PROVE Inv'
    OBVIOUS
  <2>1. /\ scene' = scene
        /\ scene = "Switch" => [Switch!Next]_swVars
        /\ scene = "Choice" => [Choice!Next]_cmVars
        /\ scene = "Captions" => [Captions!Next]_capVars
        /\ scene = "Called" => [Called!Next]_nameVars
    BY DEF SceneNext, sceneVars
  <2> QED
    BY <2>1, SwitchSteps, ChoiceSteps, CaptionSteps, NamesSteps
<1>3. Inv => SettingsAreKept
  BY ChoiceHolds, CaptionHolds DEF SettingsAreKept, SwitchInv, NamesInv
<1> QED
  BY <1>1, <1>2, <1>3, PTL DEF SceneSpec

------------------------------------------------------------------------------
(* Stickers.                                                                 *)

\* Types, the shapes of records, and that an upload under way has its picture.
StickerTypes ==
    /\ Sticker!TypeOK
    /\ stkTop \in Nat /\ stkDb.top \in Nat /\ stkDbTime \in Nat
    /\ stkDb = [top |-> stkDb.top, recs |-> stkDb.recs]
    /\ stkBusy = [step |-> stkBusy.step, sid |-> stkBusy.sid]
    /\ stkJob = [pc |-> stkJob.pc, time |-> stkJob.time, texts |-> stkJob.texts,
                 todo |-> stkJob.todo, have |-> stkJob.have]
    /\ \A u \in StickerUploads : stkPc[u] # "idle" => stkPic[u] \in StickerPictures

\* What was read from the store's file: it has no sid that the file could give again and
\* none that is being saved, and what was told of a sid is so.
KnownSids(f) ==
    \A s \in DOMAIN f :
        s <= stkDb.top /\ s # stkBusy.sid /\ (s \in DOMAIN stkTold => f[s] = stkTold[s])

\* A sid is told when the file has it, and the file's top is saved before its stickers.
SidsInv ==
    /\ KnownSids(stkTold)
    /\ KnownSids(stkDb.recs) /\ KnownSids(stkCache) /\ KnownSids(stkJob.texts)
    /\ \A f \in {stkRecs, stkFiles} : \A s \in DOMAIN f \cap DOMAIN stkTold : f[s] = stkTold[s]
    /\ stkBusy.step = "recs" => stkDb.top = stkTop
    /\ stkBusy.sid \in DOMAIN stkRecs \cap DOMAIN stkFiles =>
         stkFiles[stkBusy.sid] = stkRecs[stkBusy.sid]

\* A job that read the file as it is now has what the file has.
TimesInv ==
    /\ Sticker!CacheIsCurrent
    /\ stkJob.pc = "fill" /\ stkJob.time = stkDbTime => stkJob.texts = stkDb.recs

StickerInv == StickerTypes /\ SidsInv /\ TimesInv

LEMMA StickersAssumed == LastSid \in Nat /\ StickerStops \in Nat
  BY InstancesAreSound DEF Sticker!StickersAssumption

LEMMA StickersBegin == Sticker!Init => StickerInv
<1> SUFFICES ASSUME Sticker!Init PROVE StickerInv
  OBVIOUS
<1> USE StickersAssumed
        DEF Sticker!Init, Sticker!Nothing, Sticker!NotBusy, Sticker!NoSid, Sticker!Unusable,
            Sticker!NoSearch, Sticker!NoJob, Sticker!Numbered, Sticker!Sids
<1>1. Sticker!TypeOK
  BY DEF Sticker!TypeOK
<1>2. StickerTypes
  BY <1>1 DEF StickerTypes
<1>3. SidsInv
  BY DEF SidsInv, KnownSids
<1>4. TimesInv
  BY DEF TimesInv, Sticker!CacheIsCurrent
<1> QED
  BY <1>2, <1>3, <1>4 DEF StickerInv

\* What the operators of Stickers do to what is kept by sid.
LEMMA SidsWith ==
    ASSUME NEW f, NEW s, NEW p
    PROVE  /\ DOMAIN Sticker!With(f, s, p) = DOMAIN f \cup {s}
           /\ Sticker!With(f, s, p)[s] = p
           /\ \A x \in DOMAIN f : x # s => Sticker!With(f, s, p)[x] = f[x]
           /\ Sticker!Numbered(f) /\ s \in Sticker!Sids /\ p \in StickerPictures
                => Sticker!Numbered(Sticker!With(f, s, p))
  BY DEF Sticker!With, Sticker!Numbered

LEMMA SidsRestrict ==
    ASSUME NEW f, NEW S
    PROVE  /\ DOMAIN Sticker!Restrict(f, S) = S
           /\ \A x \in S : Sticker!Restrict(f, S)[x] = f[x]
           /\ Sticker!Numbered(f) /\ S \subseteq DOMAIN f
                => Sticker!Numbered(Sticker!Restrict(f, S))
  BY DEF Sticker!Restrict, Sticker!Numbered

\* Steps that touch nothing that is kept by sid.
LEMMA SidsStand ==
    ASSUME StickerInv,
           UNCHANGED <<stkTop, stkRecs, stkBusy, stkTold, stkDb, stkDbTime, stkFiles,
                       stkCache, stkCacheTime, stkJob>>
    PROVE  SidsInv' /\ TimesInv'
  BY DEF StickerInv, SidsInv, KnownSids, TimesInv, Sticker!CacheIsCurrent

LEMMA StickerUploadSteps ==
    ASSUME StickerInv, NEW u \in StickerUploads,
           Sticker!Upload(u) \/ Sticker!Scanned(u) \/ Sticker!CaptionFails(u)
    PROVE  StickerInv'
<1>1. UNCHANGED <<stkTop, stkRecs, stkBusy, stkTold, stkDb, stkDbTime, stkFiles, stkCache,
                  stkCacheTime, stkVecs, stkUnsent, stkSearch, stkJob, stkRestarts>>
  BY DEF Sticker!Upload, Sticker!Scanned, Sticker!CaptionFails, Sticker!disk, Sticker!service
<1>2. /\ stkPc' \in [StickerUploads -> {"idle", "scan", "caption", "save"}]
      /\ stkPic' \in [StickerUploads -> StickerPictures \cup {NoPicture}]
      /\ stkSeen' \in [StickerUploads -> SUBSET Sticker!Sids]
      /\ \A v \in StickerUploads : stkPc'[v] # "idle" => stkPic'[v] \in StickerPictures
  <2> USE DEF StickerInv, StickerTypes, Sticker!TypeOK
  <2>1. CASE Sticker!Upload(u)
    <3>1. PICK p \in StickerPictures, forced \in StickerForces :
            /\ stkPic' = [stkPic EXCEPT ![u] = p]
            /\ stkPc' = [stkPc EXCEPT ![u] = IF forced THEN "caption" ELSE "scan"]
            /\ stkSeen' = [stkSeen EXCEPT ![u] = IF forced THEN {} ELSE DOMAIN stkRecs]
      BY <2>1 DEF Sticker!Upload
    <3> QED
      BY <3>1 DEF Sticker!Numbered
  <2>2. CASE Sticker!Scanned(u)
    BY <2>2 DEF Sticker!Scanned, Sticker!Ends
  <2>3. CASE Sticker!CaptionFails(u)
    BY <2>3 DEF Sticker!CaptionFails, Sticker!Ends
  <2> QED
    BY <2>1, <2>2, <2>3
<1>3. StickerTypes'
  BY <1>1, <1>2 DEF StickerInv, StickerTypes, Sticker!TypeOK, Sticker!Numbered
<1> QED
  BY <1>1, <1>3, SidsStand DEF StickerInv

LEMMA StickerAddStep ==
    ASSUME StickerInv, NEW u \in StickerUploads, Sticker!AddCopies(u)
    PROVE  StickerInv'
<1> DEFINE new == stkTop + 1
<1>1. /\ stkPc[u] = "caption" /\ stkBusy = Sticker!NotBusy /\ stkTop < LastSid
      /\ stkTop' = new
      /\ UNCHANGED <<stkSeen, stkTold, stkDb, stkDbTime, stkCache, stkCacheTime, stkVecs, stkUnsent,
                     stkSearch, stkJob, stkRestarts>>
  BY DEF Sticker!AddCopies, Sticker!service
<1>2. /\ stkPc[u] # "idle" => stkPic[u] \in StickerPictures
      /\ stkTop \in Nat /\ stkDb.top \in 0 .. stkTop
  BY DEF StickerInv, StickerTypes, Sticker!TypeOK
<1>3. stkPic[u] \in StickerPictures /\ new \in Sticker!Sids /\ new > stkDb.top
  BY <1>1, <1>2, StickersAssumed DEF Sticker!Sids
<1>4. Sticker!Numbered(Sticker!With(stkFiles, new, stkPic[u]))
      /\ Sticker!Numbered(Sticker!With(stkRecs, new, stkPic[u]))
  BY <1>3, SidsWith DEF StickerInv, StickerTypes, Sticker!TypeOK
<1>5. \/ /\ stkFiles' = Sticker!With(stkFiles, new, stkPic[u])
         /\ stkRecs' = Sticker!With(stkRecs, new, stkPic[u])
         /\ stkBusy' = [step |-> "top", sid |-> new]
         /\ stkPc' = [stkPc EXCEPT ![u] = "save"]
         /\ UNCHANGED stkPic
      \/ /\ stkFiles' \in {stkFiles, Sticker!With(stkFiles, new, stkPic[u])}
         /\ Sticker!Ends(u)
         /\ UNCHANGED <<stkRecs, stkBusy>>
  BY DEF Sticker!AddCopies
<1>6. /\ Sticker!Numbered(stkFiles') /\ Sticker!Numbered(stkRecs')
      /\ \A s \in DOMAIN stkRecs' : s <= new
  <2>1. \A s \in DOMAIN stkRecs : s <= stkTop /\ s \in Nat
    BY DEF StickerInv, StickerTypes, Sticker!TypeOK, Sticker!Numbered, Sticker!Sids
  <2>2. \A s \in DOMAIN stkRecs' : s \in DOMAIN stkRecs \/ s = new
    <3> HIDE DEF new
    <3>1. DOMAIN Sticker!With(stkRecs, new, stkPic[u]) = DOMAIN stkRecs \cup {new}
      BY SidsWith
    <3> QED
      BY <1>5, <3>1
  <2>3. Sticker!Numbered(stkFiles') /\ Sticker!Numbered(stkRecs')
    BY <1>4, <1>5 DEF StickerInv, StickerTypes, Sticker!TypeOK
  <2> QED
    BY <1>2, <2>1, <2>2, <2>3
<1>7. /\ stkPc' \in [StickerUploads -> {"idle", "scan", "caption", "save"}]
      /\ stkPic' \in [StickerUploads -> StickerPictures \cup {NoPicture}]
      /\ \A v \in StickerUploads : stkPc'[v] # "idle" => stkPic'[v] \in StickerPictures
  <2> HIDE DEF new
  <2> USE DEF StickerInv, StickerTypes, Sticker!TypeOK, Sticker!Ends
  <2>1. CASE stkPc' = [stkPc EXCEPT ![u] = "save"] /\ UNCHANGED stkPic
    BY <1>3, <2>1
  <2>2. CASE Sticker!Ends(u)
    BY <2>2
  <2> QED
    BY <1>5, <2>1, <2>2
<1>8. /\ stkBusy'.step \in {"none", "top", "recs"} /\ stkBusy'.sid \in 0 .. new
      /\ stkBusy'.step # "recs"
      /\ stkBusy' = [step |-> stkBusy'.step, sid |-> stkBusy'.sid]
      /\ stkBusy'.sid \in {0, new}
  BY <1>1, <1>2, <1>5 DEF Sticker!NotBusy, Sticker!NoSid
<1>9. StickerTypes'
  <2> HIDE DEF new
  <2>1. new \in 0 .. LastSid /\ stkDb.top \in 0 .. new /\ new \in Nat
    BY <1>1, <1>2, StickersAssumed DEF new
  <2> QED
    BY <1>1, <1>6, <1>7, <1>8, <2>1 DEF StickerInv, StickerTypes, Sticker!TypeOK, Sticker!Numbered
<1>10. SidsInv'
  <2>0. /\ KnownSids(stkTold) /\ KnownSids(stkDb.recs) /\ KnownSids(stkCache)
        /\ KnownSids(stkJob.texts)
        /\ \A f \in {stkRecs, stkFiles} : \A s \in DOMAIN f \cap DOMAIN stkTold : f[s] = stkTold[s]
        /\ Sticker!Numbered(stkTold) /\ Sticker!Numbered(stkDb.recs)
        /\ Sticker!Numbered(stkCache) /\ Sticker!Numbered(stkJob.texts)
    BY DEF StickerInv, SidsInv, StickerTypes, Sticker!TypeOK
  <2>1. ASSUME NEW f, KnownSids(f), Sticker!Numbered(f)
        PROVE  \A s \in DOMAIN f : s <= stkDb'.top /\ s # stkBusy'.sid
                                   /\ (s \in DOMAIN stkTold' => f[s] = stkTold'[s])
    <3> SUFFICES ASSUME NEW s \in DOMAIN f
                 PROVE  s <= stkDb'.top /\ s # stkBusy'.sid
                        /\ (s \in DOMAIN stkTold' => f[s] = stkTold'[s])
      OBVIOUS
    <3>1. /\ s <= stkDb.top /\ s \in 1 .. LastSid
          /\ (s \in DOMAIN stkTold => f[s] = stkTold[s])
      BY <2>1 DEF KnownSids, Sticker!Numbered, Sticker!Sids
    <3> QED
      BY <1>1, <1>2, <1>3, <1>8, <3>1, StickersAssumed
  <2>2. \A s \in DOMAIN stkTold : s # new
    <3> SUFFICES ASSUME NEW s \in DOMAIN stkTold PROVE s # new
      OBVIOUS
    <3>1. s <= stkDb.top
      BY <2>0 DEF KnownSids
    <3>2. s \in 1 .. LastSid
      BY <2>0 DEF Sticker!Numbered, Sticker!Sids
    <3> QED
      BY <1>2, <3>1, <3>2, StickersAssumed
  <2>3. ASSUME NEW f, NEW g,
               \A s \in DOMAIN f \cap DOMAIN stkTold : f[s] = stkTold[s],
               g \in {f, Sticker!With(f, new, stkPic[u])}
        PROVE  \A s \in DOMAIN g \cap DOMAIN stkTold' : g[s] = stkTold'[s]
    <3> HIDE DEF new
    <3>1. /\ DOMAIN Sticker!With(f, new, stkPic[u]) = DOMAIN f \cup {new}
          /\ \A x \in DOMAIN f : x # new => Sticker!With(f, new, stkPic[u])[x] = f[x]
      BY DEF Sticker!With
    <3>2. CASE g = f
      BY <1>1, <2>3, <3>2
    <3>3. CASE g = Sticker!With(f, new, stkPic[u])
      BY <1>1, <2>2, <2>3, <3>1, <3>3
    <3> QED
      BY <2>3, <3>2, <3>3
  <2>4. /\ stkRecs' \in {stkRecs, Sticker!With(stkRecs, new, stkPic[u])}
        /\ stkFiles' \in {stkFiles, Sticker!With(stkFiles, new, stkPic[u])}
    BY <1>5
  <2>5. stkBusy'.sid \in DOMAIN stkRecs' \cap DOMAIN stkFiles' =>
          stkFiles'[stkBusy'.sid] = stkRecs'[stkBusy'.sid]
    <3> HIDE DEF new
    <3>1. CASE /\ stkFiles' = Sticker!With(stkFiles, new, stkPic[u])
               /\ stkRecs' = Sticker!With(stkRecs, new, stkPic[u])
               /\ stkBusy' = [step |-> "top", sid |-> new]
      <4>1. /\ Sticker!With(stkFiles, new, stkPic[u])[new] = stkPic[u]
            /\ Sticker!With(stkRecs, new, stkPic[u])[new] = stkPic[u]
        BY DEF Sticker!With
      <4> QED
        BY <3>1, <4>1
    <3>2. CASE UNCHANGED <<stkRecs, stkBusy>>
      <4>1. 0 \notin DOMAIN stkRecs
        BY DEF StickerInv, StickerTypes, Sticker!TypeOK, Sticker!Numbered, Sticker!Sids
      <4> QED
        BY <1>1, <3>2, <4>1 DEF Sticker!NotBusy, Sticker!NoSid
    <3> QED
      BY <1>5, <3>1, <3>2
  <2>6. \A f \in {stkRecs', stkFiles'} : \A s \in DOMAIN f \cap DOMAIN stkTold' : f[s] = stkTold'[s]
    <3> HIDE DEF new
    <3>1. \A s \in DOMAIN stkRecs' \cap DOMAIN stkTold' : stkRecs'[s] = stkTold'[s]
      BY <2>0, <2>3, <2>4
    <3>2. \A s \in DOMAIN stkFiles' \cap DOMAIN stkTold' : stkFiles'[s] = stkTold'[s]
      BY <2>0, <2>3, <2>4
    <3> QED
      BY <3>1, <3>2
  <2>7. KnownSids(stkTold)' /\ KnownSids(stkDb.recs)' /\ KnownSids(stkCache)'
        /\ KnownSids(stkJob.texts)'
    <3> HIDE DEF new
    <3> QED
      BY <1>1, <2>0, <2>1 DEF KnownSids
  <2> QED
    BY <1>8, <2>5, <2>6, <2>7 DEF SidsInv
<1>11. TimesInv'
  BY <1>1 DEF StickerInv, TimesInv, Sticker!CacheIsCurrent
<1> QED
  BY <1>9, <1>10, <1>11 DEF StickerInv

\* What was told, saved or read before stays known while these stand still.
LEMMA KnownStays ==
    ASSUME NEW f, KnownSids(f), stkDb'.top = stkDb.top, stkBusy'.sid \in {stkBusy.sid, 0},
           stkTold' = stkTold, Sticker!Numbered(f)
    PROVE  \A s \in DOMAIN f : s <= stkDb'.top /\ s # stkBusy'.sid
                               /\ (s \in DOMAIN stkTold' => f[s] = stkTold'[s])
  BY StickersAssumed DEF KnownSids, Sticker!Numbered, Sticker!Sids

LEMMA StickerDeleteStep ==
    ASSUME StickerInv, NEW d \in Sticker!Sids, Sticker!Delete(d)
    PROVE  StickerInv'
<1>1. /\ stkBusy = Sticker!NotBusy /\ d \in DOMAIN stkRecs
      /\ stkFiles' \in {stkFiles, Sticker!Without(stkFiles, d)}
      /\ stkRecs' = Sticker!Without(stkRecs, d)
      /\ stkBusy' = [step |-> "top", sid |-> 0]
      /\ UNCHANGED <<stkTop, stkPc, stkPic, stkSeen, stkTold, stkDb, stkDbTime, stkCache,
                     stkCacheTime, stkVecs, stkUnsent, stkSearch, stkJob, stkRestarts>>
  BY DEF Sticker!Delete, Sticker!service, Sticker!NoSid
<1>2. /\ \A s \in DOMAIN stkRecs' : s \in DOMAIN stkRecs /\ stkRecs'[s] = stkRecs[s]
      /\ \A s \in DOMAIN stkFiles' : s \in DOMAIN stkFiles /\ stkFiles'[s] = stkFiles[s]
  BY <1>1 DEF Sticker!Without, Sticker!Restrict
<1>3. StickerTypes'
  <2>1. Sticker!Numbered(stkRecs)' /\ Sticker!Numbered(stkFiles)'
        /\ \A s \in DOMAIN stkRecs' : s <= stkTop
    BY <1>2 DEF StickerInv, StickerTypes, Sticker!TypeOK, Sticker!Numbered
  <2> QED
    BY <1>1, <2>1 DEF StickerInv, StickerTypes, Sticker!TypeOK, Sticker!Numbered
<1>4. SidsInv'
  <2>1. KnownSids(stkTold)' /\ KnownSids(stkDb.recs)' /\ KnownSids(stkCache)'
        /\ KnownSids(stkJob.texts)'
    <3>1. stkDb'.top = stkDb.top /\ stkBusy'.sid \in {stkBusy.sid, 0} /\ stkTold' = stkTold
      BY <1>1
    <3> QED
      BY <1>1, <3>1, KnownStays
         DEF StickerInv, SidsInv, StickerTypes, Sticker!TypeOK, KnownSids
  <2>2. 0 \notin DOMAIN stkRecs'
    BY <1>3 DEF StickerTypes, Sticker!TypeOK, Sticker!Numbered, Sticker!Sids
  <2> QED
    BY <1>1, <1>2, <2>1, <2>2 DEF StickerInv, SidsInv
<1>5. TimesInv'
  BY <1>1 DEF StickerInv, TimesInv, Sticker!CacheIsCurrent
<1> QED
  BY <1>3, <1>4, <1>5 DEF StickerInv

LEMMA StickerSaveTopStep ==
    ASSUME StickerInv, Sticker!SaveTop
    PROVE  StickerInv'
<1>1. /\ stkBusy.step = "top"
      /\ stkDb' = [stkDb EXCEPT !.top = stkTop] /\ stkDbTime' = stkDbTime + 1
      /\ stkBusy' = [stkBusy EXCEPT !.step = "recs"]
      /\ UNCHANGED <<stkTop, stkRecs, stkPc, stkPic, stkSeen, stkTold, stkFiles, stkCache,
                     stkCacheTime, stkVecs, stkUnsent, stkSearch, stkJob, stkRestarts>>
  BY DEF Sticker!SaveTop, Sticker!service
<1>2. /\ stkDb' = [top |-> stkTop, recs |-> stkDb.recs]
      /\ stkBusy' = [step |-> "recs", sid |-> stkBusy.sid]
  BY <1>1 DEF StickerInv, StickerTypes
<1>3. /\ stkDb'.top = stkTop /\ stkDb'.recs = stkDb.recs
      /\ stkBusy'.step = "recs" /\ stkBusy'.sid = stkBusy.sid
      /\ stkTop \in Nat /\ stkDb.top \in Nat /\ stkDb.top <= stkTop /\ stkDbTime \in Nat
      /\ {stkCacheTime, stkSearch.time, stkJob.time} \subseteq 0 .. stkDbTime
  BY <1>2 DEF StickerInv, StickerTypes, Sticker!TypeOK
<1>4. StickerTypes'
  <2>1. stkTop' \in 0 .. LastSid /\ stkDb'.top \in 0 .. stkTop' /\ stkBusy'.sid \in 0 .. stkTop'
    BY <1>1, <1>3 DEF StickerInv, StickerTypes, Sticker!TypeOK
  <2>2. stkDbTime' \in Nat
        /\ {stkCacheTime', stkSearch'.time, stkJob'.time} \subseteq 0 .. stkDbTime'
    BY <1>1, <1>3
  <2> QED
    BY <1>1, <1>2, <1>3, <2>1, <2>2 DEF StickerInv, StickerTypes, Sticker!TypeOK, Sticker!Numbered
<1>5. SidsInv'
  <2>1. ASSUME NEW f, KnownSids(f), Sticker!Numbered(f)
        PROVE  \A s \in DOMAIN f : s <= stkDb'.top /\ s # stkBusy'.sid
                                   /\ (s \in DOMAIN stkTold' => f[s] = stkTold'[s])
    BY <1>1, <1>3, <2>1, StickersAssumed DEF KnownSids, Sticker!Numbered, Sticker!Sids
  <2>2. KnownSids(stkTold)' /\ KnownSids(stkDb.recs)' /\ KnownSids(stkCache)'
        /\ KnownSids(stkJob.texts)'
    BY <1>1, <1>3, <2>1 DEF StickerInv, SidsInv, StickerTypes, Sticker!TypeOK, KnownSids
  <2> QED
    BY <1>1, <1>3, <2>2 DEF StickerInv, SidsInv
<1>6. TimesInv'
  BY <1>1, <1>3 DEF TimesInv, Sticker!CacheIsCurrent
<1> QED
  BY <1>4, <1>5, <1>6 DEF StickerInv

LEMMA StickerSaveRecsStep ==
    ASSUME StickerInv, Sticker!SaveRecs
    PROVE  StickerInv'
<1> DEFINE sid == stkBusy.sid
<1>1. /\ stkBusy.step = "recs"
      /\ stkDb' = [stkDb EXCEPT !.recs = stkRecs] /\ stkDbTime' = stkDbTime + 1
      /\ stkBusy' = [step |-> "none", sid |-> 0]
      /\ stkTold' = IF sid \in DOMAIN stkRecs
                    THEN Sticker!With(stkTold, sid, stkRecs[sid]) ELSE stkTold
      /\ stkPc' = [u \in StickerUploads |-> IF stkPc[u] = "save" THEN "idle" ELSE stkPc[u]]
      /\ stkPic' = [u \in StickerUploads |-> IF stkPc[u] = "save" THEN NoPicture ELSE stkPic[u]]
      /\ UNCHANGED <<stkTop, stkRecs, stkSeen, stkFiles, stkCache, stkCacheTime, stkVecs, stkUnsent,
                     stkSearch, stkJob, stkRestarts>>
  BY DEF Sticker!SaveRecs, Sticker!service, Sticker!NotBusy, Sticker!NoSid
<1>2. stkDb' = [top |-> stkDb.top, recs |-> stkRecs]
  BY <1>1 DEF StickerInv, StickerTypes
<1>3. /\ stkDb'.top = stkDb.top /\ stkDb'.recs = stkRecs /\ stkBusy'.sid = 0
      /\ stkBusy'.step = "none" /\ stkDb.top = stkTop
      /\ stkTop \in Nat /\ stkDbTime \in Nat /\ sid \in 0 .. stkTop
      /\ {stkCacheTime, stkSearch.time, stkJob.time} \subseteq 0 .. stkDbTime
      /\ Sticker!Numbered(stkRecs) /\ Sticker!Numbered(stkTold)
      /\ \A s \in DOMAIN stkRecs : s <= stkTop
  BY <1>1, <1>2 DEF StickerInv, StickerTypes, SidsInv, Sticker!TypeOK
<1>4. /\ DOMAIN stkTold' = IF sid \in DOMAIN stkRecs THEN DOMAIN stkTold \cup {sid}
                           ELSE DOMAIN stkTold
      /\ \A s \in DOMAIN stkTold : s # sid => stkTold'[s] = stkTold[s]
      /\ sid \in DOMAIN stkRecs => stkTold'[sid] = stkRecs[sid]
  <2> HIDE DEF sid
  <2> QED
    BY <1>1 DEF Sticker!With
<1>5. \A s \in DOMAIN stkTold : s # sid
  BY DEF StickerInv, SidsInv, KnownSids
<1>6. Sticker!Numbered(stkTold')
  <2> HIDE DEF sid
  <2> QED
    BY <1>3, <1>4, <1>5 DEF Sticker!Numbered
<1>7. StickerTypes'
  <2>1. /\ stkPc' \in [StickerUploads -> {"idle", "scan", "caption", "save"}]
        /\ stkPic' \in [StickerUploads -> StickerPictures \cup {NoPicture}]
        /\ \A v \in StickerUploads : stkPc'[v] # "idle" => stkPic'[v] \in StickerPictures
    BY <1>1 DEF StickerInv, StickerTypes, Sticker!TypeOK
  <2>2. stkDbTime' \in Nat
        /\ {stkCacheTime', stkSearch'.time, stkJob'.time} \subseteq 0 .. stkDbTime'
    BY <1>1, <1>3
  <2>3. stkTop' \in 0 .. LastSid /\ stkDb'.top \in 0 .. stkTop' /\ stkBusy'.sid \in 0 .. stkTop'
    BY <1>1, <1>3 DEF StickerInv, StickerTypes, Sticker!TypeOK
  <2> HIDE DEF sid
  <2> QED
    BY <1>1, <1>2, <1>3, <1>6, <2>1, <2>2, <2>3
       DEF StickerInv, StickerTypes, Sticker!TypeOK, Sticker!Numbered
<1>8. SidsInv'
  <2>0. /\ KnownSids(stkTold) /\ KnownSids(stkDb.recs) /\ KnownSids(stkCache)
        /\ KnownSids(stkJob.texts)
        /\ \A f \in {stkRecs, stkFiles} : \A s \in DOMAIN f \cap DOMAIN stkTold : f[s] = stkTold[s]
        /\ sid \in DOMAIN stkRecs \cap DOMAIN stkFiles => stkFiles[sid] = stkRecs[sid]
        /\ Sticker!Numbered(stkCache) /\ Sticker!Numbered(stkJob.texts)
    BY DEF StickerInv, SidsInv, StickerTypes, Sticker!TypeOK
  <2>1. ASSUME NEW f, Sticker!Numbered(f), KnownSids(f)
        PROVE  \A s \in DOMAIN f : s <= stkDb'.top /\ s # stkBusy'.sid
                                   /\ (s \in DOMAIN stkTold' => f[s] = stkTold'[s])
    <3> SUFFICES ASSUME NEW s \in DOMAIN f
                 PROVE  s <= stkDb'.top /\ s # stkBusy'.sid
                        /\ (s \in DOMAIN stkTold' => f[s] = stkTold'[s])
      OBVIOUS
    <3>1. s <= stkDb.top /\ s # sid /\ s # 0 /\ (s \in DOMAIN stkTold => f[s] = stkTold[s])
      BY <2>1, StickersAssumed DEF KnownSids, Sticker!Numbered, Sticker!Sids
    <3> HIDE DEF sid
    <3> QED
      BY <1>3, <1>4, <3>1
  <2>2. ASSUME NEW f \in {stkRecs, stkFiles}, NEW s \in DOMAIN f \cap DOMAIN stkTold'
        PROVE  f[s] = stkTold'[s]
    <3> HIDE DEF sid
    <3>1. CASE s = sid
      <4>1. sid \in DOMAIN stkRecs
        BY <1>4, <1>5, <3>1
      <4> QED
        BY <1>4, <2>0, <3>1, <4>1
    <3>2. CASE s # sid
      BY <1>4, <2>0, <3>2
    <3> QED
      BY <3>1, <3>2
  <2>3. \A f \in {stkRecs, stkTold'} : \A s \in DOMAIN f :
            s <= stkDb'.top /\ s # stkBusy'.sid /\ (s \in DOMAIN stkTold' => f[s] = stkTold'[s])
    <3>1. \A s \in DOMAIN stkRecs : s <= stkDb'.top /\ s # stkBusy'.sid
      BY <1>3, StickersAssumed DEF Sticker!Numbered, Sticker!Sids
    <3>2. \A s \in DOMAIN stkTold' : s <= stkDb'.top /\ s # stkBusy'.sid
      <4>1. \A s \in DOMAIN stkTold : s <= stkDb'.top
        BY <1>3, <2>0 DEF KnownSids
      <4>2. \A s \in DOMAIN stkTold' : s \in DOMAIN stkTold \/ s = sid
        BY <1>4
      <4>3. \A s \in DOMAIN stkTold' : s # 0
        BY <1>6, StickersAssumed DEF Sticker!Numbered, Sticker!Sids
      <4> QED
        BY <1>3, <4>1, <4>2, <4>3
    <3>3. \A s \in DOMAIN stkRecs \cap DOMAIN stkTold' : stkRecs[s] = stkTold'[s]
      BY <2>2
    <3> QED
      BY <3>1, <3>2, <3>3
  <2>4. KnownSids(stkTold)' /\ KnownSids(stkDb.recs)' /\ KnownSids(stkCache)'
        /\ KnownSids(stkJob.texts)'
    <3> HIDE DEF sid
    <3>1. UNCHANGED <<stkCache, stkJob>> /\ stkDb'.recs = stkRecs
      BY <1>1, <1>3
    <3> QED
      BY <2>0, <2>1, <2>3, <3>1 DEF KnownSids
  <2>5. \A f \in {stkRecs', stkFiles'} : \A s \in DOMAIN f \cap DOMAIN stkTold' : f[s] = stkTold'[s]
    BY <1>1, <2>2
  <2>6. 0 \notin DOMAIN stkRecs'
    BY <1>7 DEF StickerTypes, Sticker!TypeOK, Sticker!Numbered, Sticker!Sids
  <2> QED
    BY <1>3, <2>4, <2>5, <2>6 DEF SidsInv
<1>9. TimesInv'
  <2>1. stkCacheTime' # stkDbTime' /\ stkJob'.time # stkDbTime'
    BY <1>1, <1>3
  <2> QED
    BY <2>1 DEF TimesInv, Sticker!CacheIsCurrent
<1> QED
  BY <1>7, <1>8, <1>9 DEF StickerInv

\* The bot comes back with what the file has.
LEMMA StickerBotRestartStep ==
    ASSUME StickerInv, Sticker!BotRestarts
    PROVE  StickerInv'
<1>1. /\ stkTop' = stkDb.top /\ stkRecs' = stkDb.recs /\ stkBusy' = [step |-> "none", sid |-> 0]
      /\ stkPc' = [u \in StickerUploads |-> "idle"]
      /\ stkPic' = [u \in StickerUploads |-> NoPicture]
      /\ stkSeen' = [u \in StickerUploads |-> {}]
      /\ UNCHANGED <<stkTold, stkDb, stkDbTime, stkFiles, stkCache, stkCacheTime, stkVecs, stkUnsent,
                     stkSearch, stkJob>>
  BY DEF Sticker!BotRestarts, Sticker!disk, Sticker!service, Sticker!NotBusy, Sticker!NoSid
<1>2. StickerTypes'
  <2>1. /\ stkTop' \in 0 .. LastSid /\ stkTop' \in Nat /\ stkDb'.top \in 0 .. stkTop'
        /\ stkBusy'.sid \in 0 .. stkTop' /\ stkBusy'.step = "none"
    BY <1>1, StickersAssumed DEF StickerInv, StickerTypes, Sticker!TypeOK
  <2>2. Sticker!Numbered(stkRecs)' /\ \A s \in DOMAIN stkRecs' : s <= stkTop'
    BY <1>1 DEF StickerInv, StickerTypes, Sticker!TypeOK, SidsInv, KnownSids, Sticker!Numbered
  <2> QED
    BY <1>1, <2>1, <2>2 DEF StickerInv, StickerTypes, Sticker!TypeOK, Sticker!Numbered
<1>3. SidsInv'
  <2>1. KnownSids(stkTold)' /\ KnownSids(stkDb.recs)' /\ KnownSids(stkCache)'
        /\ KnownSids(stkJob.texts)'
    <3>1. stkDb'.top = stkDb.top /\ stkBusy'.sid \in {stkBusy.sid, 0} /\ stkTold' = stkTold
      BY <1>1
    <3> QED
      BY <1>1, <3>1, KnownStays
         DEF StickerInv, SidsInv, StickerTypes, Sticker!TypeOK, KnownSids
  <2>2. 0 \notin DOMAIN stkRecs'
    BY <1>2 DEF StickerTypes, Sticker!TypeOK, Sticker!Numbered, Sticker!Sids
  <2> QED
    BY <1>1, <2>1, <2>2 DEF StickerInv, SidsInv, KnownSids
<1>4. TimesInv'
  BY <1>1 DEF StickerInv, TimesInv, Sticker!CacheIsCurrent
<1> QED
  BY <1>2, <1>3, <1>4 DEF StickerInv

\* What the service keeps it has from the file or had before.
LEMMA ServiceKnows ==
    ASSUME StickerInv,
           UNCHANGED <<stkTop, stkRecs, stkBusy, stkTold, stkDb, stkDbTime, stkFiles>>,
           NEW f,
           \A s \in DOMAIN f : \E g \in {stkCache, stkDb.recs, stkJob.texts} :
               s \in DOMAIN g /\ f[s] = g[s]
    PROVE  /\ Sticker!Numbered(f)
           /\ \A s \in DOMAIN f : s <= stkDb'.top /\ s # stkBusy'.sid
                                  /\ (s \in DOMAIN stkTold' => f[s] = stkTold'[s])
  BY DEF StickerInv, StickerTypes, Sticker!TypeOK, SidsInv, KnownSids, Sticker!Numbered

LEMMA ServiceSteps ==
    ASSUME StickerInv,
           UNCHANGED <<stkTop, stkRecs, stkBusy, stkPc, stkPic, stkSeen, stkTold, stkDb,
                       stkDbTime, stkFiles>>,
           \A s \in DOMAIN stkCache' : \E g \in {stkCache, stkDb.recs, stkJob.texts} :
               s \in DOMAIN g /\ stkCache'[s] = g[s],
           stkJob'.texts \in {Sticker!Nothing, stkDb.recs, stkJob.texts},
           stkCacheTime' \in {0, stkCacheTime, stkSearch.time, stkJob.time},
           stkSearch'.time \in {0, stkSearch.time, stkDbTime},
           stkSearch'.pc \in {"idle", "load", "search"},
           stkJob' = [pc |-> stkJob'.pc, time |-> stkJob'.time, texts |-> stkJob'.texts,
                      todo |-> stkJob'.todo, have |-> stkJob'.have],
           stkJob'.pc \in {"idle", "time", "file", "fill"},
           stkJob'.time \in {0, stkJob.time, stkDbTime},
           stkJob'.todo \cup stkJob'.have \subseteq Sticker!Sids,
           stkVecs'.sids \subseteq Sticker!Sids,
           stkUnsent' \subseteq Sticker!Sids
    PROVE  StickerTypes' /\ SidsInv'
<1>1. /\ Sticker!Numbered(stkCache')
      /\ \A s \in DOMAIN stkCache' : s <= stkDb'.top /\ s # stkBusy'.sid
                                     /\ (s \in DOMAIN stkTold' => stkCache'[s] = stkTold'[s])
  BY ServiceKnows
<1>2. \A s \in DOMAIN stkJob'.texts : \E g \in {stkCache, stkDb.recs, stkJob.texts} :
          s \in DOMAIN g /\ stkJob'.texts[s] = g[s]
  BY DEF Sticker!Nothing
<1>3. /\ Sticker!Numbered(stkJob'.texts)
      /\ \A s \in DOMAIN stkJob'.texts : s <= stkDb'.top /\ s # stkBusy'.sid
                                         /\ (s \in DOMAIN stkTold' => stkJob'.texts[s] = stkTold'[s])
  BY <1>2, ServiceKnows
<1>4. {stkCacheTime', stkSearch'.time, stkJob'.time} \subseteq 0 .. stkDbTime'
  BY DEF StickerInv, StickerTypes, Sticker!TypeOK
<1>5. StickerTypes'
  BY <1>1, <1>3, <1>4 DEF StickerInv, StickerTypes, Sticker!TypeOK, Sticker!Numbered
<1>6. SidsInv'
  BY <1>1, <1>3 DEF StickerInv, SidsInv, KnownSids
<1> QED
  BY <1>5, <1>6

LEMMA StickerServiceSteps ==
    ASSUME StickerInv,
           \/ Sticker!Prepare \/ Sticker!Load \/ Sticker!Searched
           \/ \E s \in Sticker!Sids : Sticker!SendFails(s)
           \/ Sticker!JobReadsTime \/ Sticker!JobReadsFile \/ Sticker!Commit
           \/ \E model \in {"same", "another"} : Sticker!ServiceRestarts(model)
           \/ \E batch \in SUBSET Sticker!Sids, got \in BOOLEAN : Sticker!FillBatch(batch, got)
    PROVE  StickerInv'
<1>1. /\ UNCHANGED <<stkTop, stkRecs, stkBusy, stkPc, stkPic, stkSeen, stkTold, stkDb,
                     stkDbTime, stkFiles>>
      /\ stkJob = [pc |-> stkJob.pc, time |-> stkJob.time, texts |-> stkJob.texts,
                   todo |-> stkJob.todo, have |-> stkJob.have]
      /\ stkJob.pc \in {"idle", "time", "file", "fill"}
      /\ stkJob.todo \cup stkJob.have \subseteq Sticker!Sids
      /\ stkVecs.sids \subseteq Sticker!Sids
      /\ stkSearch.pc \in {"idle", "load", "search"}
      /\ stkCacheTime \in 0 .. stkDbTime /\ stkJob.time \in 0 .. stkDbTime
      /\ stkDbTime \in Nat
      /\ Sticker!Numbered(stkDb.recs) /\ Sticker!Numbered(stkJob.texts)
  BY DEF Sticker!Prepare, Sticker!Load, Sticker!Searched, Sticker!SendFails, Sticker!JobReadsTime,
         Sticker!JobReadsFile, Sticker!Commit, Sticker!ServiceRestarts, Sticker!FillBatch,
         Sticker!bot, Sticker!disk, StickerInv, StickerTypes, Sticker!TypeOK
<1>0. stkUnsent' \subseteq Sticker!Sids
  <2>1. stkUnsent' = stkUnsent \/ stkUnsent' = {}
        \/ \E s \in Sticker!Sids : stkUnsent' = stkUnsent \cup ({s} \cap DOMAIN stkFiles)
    BY DEF Sticker!Prepare, Sticker!Load, Sticker!Searched, Sticker!SendFails,
           Sticker!JobReadsTime, Sticker!JobReadsFile, Sticker!Commit, Sticker!Apply,
           Sticker!ServiceRestarts, Sticker!FillBatch
  <2>2. stkUnsent \subseteq Sticker!Sids
    BY DEF StickerInv, StickerTypes, Sticker!TypeOK
  <2> QED
    BY <2>1, <2>2
<1> DEFINE Started == [pc |-> "time", time |-> 0, texts |-> Sticker!Nothing,
                       todo |-> {}, have |-> {}]
           Idle == [pc |-> "idle", time |-> 0, texts |-> Sticker!Nothing,
                    todo |-> {}, have |-> {}]
<1>2. Sticker!JobStarts => stkJob' = Started
  BY DEF Sticker!JobStarts, Sticker!NoJob
<1>3. Sticker!NoJob = Idle
  BY DEF Sticker!NoJob
\* A step that reads nothing and lets the cache be or drops some of it.
<1>4. ASSUME stkJob' \in {stkJob, Started},
             DOMAIN stkCache' \subseteq DOMAIN stkCache,
             \A s \in DOMAIN stkCache' : stkCache'[s] = stkCache[s],
             stkCacheTime' \in {0, stkCacheTime},
             stkCacheTime' = 0 => stkCacheTime = 0 \/ DOMAIN stkCache' = {},
             stkSearch'.time \in {0, stkSearch.time, stkDbTime},
             stkSearch'.pc \in {"idle", "load", "search"},
             stkVecs'.sids \subseteq Sticker!Sids
      PROVE  StickerInv'
  <2>1. StickerTypes' /\ SidsInv'
    BY <1>0, <1>1, <1>4, ServiceSteps
  <2>2. TimesInv'
    <3>1. stkCacheTime' = stkDbTime' => DOMAIN stkCache' = {} \/ stkCacheTime = stkDbTime
      BY <1>1, <1>4
    <3> QED
      BY <1>1, <1>4, <3>1 DEF StickerInv, TimesInv, Sticker!CacheIsCurrent
  <2> QED
    BY <2>1, <2>2 DEF StickerInv
<1>5. CASE Sticker!Prepare
  <2>1. /\ stkJob' \in {stkJob, Started} /\ UNCHANGED <<stkCache, stkCacheTime, stkVecs>>
        /\ \/ stkSearch' = stkSearch
           \/ stkSearch' = [pc |-> "search", time |-> 0]
           \/ stkSearch' = [pc |-> "load", time |-> stkDbTime]
    BY <1>2, <1>5 DEF Sticker!Prepare
  <2>2. /\ stkSearch'.time \in {0, stkSearch.time, stkDbTime}
        /\ stkSearch'.pc \in {"idle", "load", "search"}
    BY <1>1, <2>1
  <2> HIDE DEF Started
  <2> QED
    BY <1>1, <1>4, <2>1, <2>2
<1>6. CASE Sticker!Searched
  <2>1. /\ stkJob' \in {stkJob, Started} /\ UNCHANGED <<stkCacheTime, stkVecs>>
        /\ stkSearch' = [pc |-> "idle", time |-> 0]
        /\ DOMAIN stkCache' \subseteq DOMAIN stkCache
        /\ \A s \in DOMAIN stkCache' : stkCache'[s] = stkCache[s]
    BY <1>2, <1>6 DEF Sticker!Searched, Sticker!NoSearch, Sticker!Restrict
  <2> QED
    BY <1>1, <1>4, <2>1
<1>7. CASE \E s \in Sticker!Sids : Sticker!SendFails(s)
  <2>1. /\ UNCHANGED <<stkJob, stkSearch, stkCacheTime, stkVecs>>
        /\ DOMAIN stkCache' \subseteq DOMAIN stkCache
        /\ \A s \in DOMAIN stkCache' : stkCache'[s] = stkCache[s]
    BY <1>7 DEF Sticker!SendFails, Sticker!Without, Sticker!Restrict
  <2> QED
    BY <1>1, <1>4, <2>1
<1>8. CASE \E model \in {"same", "another"} : Sticker!ServiceRestarts(model)
  <2>1. /\ DOMAIN stkCache' = {} /\ stkCacheTime' = 0
        /\ stkSearch' = [pc |-> "idle", time |-> 0] /\ stkJob' = Idle
        /\ stkVecs'.sids \subseteq Sticker!Sids
    BY <1>1, <1>3, <1>8
       DEF Sticker!ServiceRestarts, Sticker!NoSearch, Sticker!Nothing, Sticker!Unusable
  <2>2. StickerTypes' /\ SidsInv'
    BY <1>0, <1>1, <2>1, ServiceSteps
  <2>3. TimesInv'
    BY <2>1 DEF TimesInv, Sticker!CacheIsCurrent
  <2> QED
    BY <2>2, <2>3 DEF StickerInv
<1>9. CASE Sticker!Load
  <2>1. /\ UNCHANGED <<stkVecs, stkJob>> /\ stkSearch' = [pc |-> "search", time |-> 0]
        /\ stkCacheTime' = stkSearch.time
        /\ \A s \in DOMAIN stkCache' : s \in DOMAIN stkDb.recs /\ stkCache'[s] = stkDb.recs[s]
    BY <1>9 DEF Sticker!Load, Sticker!Apply, Sticker!Restrict
  <2>2. StickerTypes' /\ SidsInv'
    BY <1>0, <1>1, <2>1, ServiceSteps
  <2>3. TimesInv'
    BY <1>1, <2>1 DEF StickerInv, TimesInv, Sticker!CacheIsCurrent
  <2> QED
    BY <2>2, <2>3 DEF StickerInv
<1>10. CASE Sticker!JobReadsTime
  <2>1. /\ UNCHANGED <<stkCache, stkCacheTime, stkVecs, stkSearch>>
        /\ stkJob' = [pc |-> "file", time |-> stkDbTime, texts |-> stkJob.texts,
                      todo |-> stkJob.todo, have |-> stkJob.have]
    BY <1>1, <1>10 DEF Sticker!JobReadsTime
  <2>2. StickerTypes' /\ SidsInv'
    <3>1. stkSearch'.time \in {0, stkSearch.time, stkDbTime}
          /\ stkSearch'.pc \in {"idle", "load", "search"}
      BY <1>1, <2>1
    <3> QED
      BY <1>0, <1>1, <2>1, <3>1, ServiceSteps
  <2>3. TimesInv'
    BY <1>1, <2>1 DEF StickerInv, TimesInv, Sticker!CacheIsCurrent
  <2> QED
    BY <2>2, <2>3 DEF StickerInv
<1>11. CASE Sticker!JobReadsFile
  <2>0. UNCHANGED <<stkVecs, stkSearch>>
    BY <1>11 DEF Sticker!JobReadsFile
  <2>1. CASE Sticker!Apply(Sticker!Nothing, {}, stkJob.time) /\ stkJob' = Idle
    <3>1. DOMAIN stkCache' = {} /\ stkCacheTime' = stkJob.time
      BY <2>1 DEF Sticker!Apply, Sticker!Restrict
    <3>2. StickerTypes' /\ SidsInv'
      BY <1>0, <1>1, <2>0, <2>1, <3>1, ServiceSteps
    <3>3. TimesInv'
      BY <2>1, <3>1 DEF TimesInv, Sticker!CacheIsCurrent
    <3> QED
      BY <3>2, <3>3 DEF StickerInv
  <2>2. CASE stkJob' = Idle /\ UNCHANGED <<stkCache, stkCacheTime>>
    <3>1. StickerTypes' /\ SidsInv'
      BY <1>0, <1>1, <2>0, <2>2, ServiceSteps
    <3>2. TimesInv'
      BY <1>1, <2>2 DEF StickerInv, TimesInv, Sticker!CacheIsCurrent
    <3> QED
      BY <3>1, <3>2 DEF StickerInv
  <2>3. CASE /\ stkJob' = [stkJob EXCEPT !.pc = "fill", !.texts = stkDb.recs, !.have = stkVecs.sids,
                                         !.todo = DOMAIN stkDb.recs \ stkVecs.sids]
             /\ UNCHANGED <<stkCache, stkCacheTime>>
    <3>1. stkJob' = [pc |-> "fill", time |-> stkJob.time, texts |-> stkDb.recs,
                     todo |-> DOMAIN stkDb.recs \ stkVecs.sids, have |-> stkVecs.sids]
      BY <1>1, <2>3
    <3>2. StickerTypes' /\ SidsInv'
      <4>1. stkJob'.todo \cup stkJob'.have \subseteq Sticker!Sids
        BY <1>1, <3>1 DEF Sticker!Numbered
      <4> QED
        BY <1>0, <1>1, <2>0, <2>3, <3>1, <4>1, ServiceSteps
    <3>3. TimesInv'
      BY <1>1, <2>3, <3>1 DEF StickerInv, TimesInv, Sticker!CacheIsCurrent
    <3> QED
      BY <3>2, <3>3 DEF StickerInv
  <2> QED
    BY <1>3, <1>11, <2>1, <2>2, <2>3 DEF Sticker!JobReadsFile
<1>12. CASE Sticker!Commit
  <2>1. /\ stkVecs'.sids = stkJob.have \cap DOMAIN stkJob.texts
        /\ stkCacheTime' = stkJob.time /\ stkJob' = Idle /\ UNCHANGED stkSearch
        /\ \A s \in DOMAIN stkCache' : s \in DOMAIN stkJob.texts
                                       /\ stkCache'[s] = stkJob.texts[s]
        /\ stkJob.pc = "fill"
    BY <1>3, <1>12 DEF Sticker!Commit, Sticker!Apply, Sticker!Restrict
  <2>2. StickerTypes' /\ SidsInv'
    <3>1. stkVecs'.sids \subseteq Sticker!Sids
      BY <1>1, <2>1
    <3> QED
      BY <1>0, <1>1, <2>1, <3>1, ServiceSteps
  <2>3. TimesInv'
    BY <1>1, <2>1 DEF StickerInv, TimesInv, Sticker!CacheIsCurrent
  <2> QED
    BY <2>2, <2>3 DEF StickerInv
<1>13. CASE \E batch \in SUBSET Sticker!Sids, got \in BOOLEAN : Sticker!FillBatch(batch, got)
  <2>1. PICK batch \in SUBSET Sticker!Sids, got \in BOOLEAN : Sticker!FillBatch(batch, got)
    BY <1>13
  <2>2. /\ stkJob' = [pc |-> "fill", time |-> stkJob.time, texts |-> stkJob.texts,
                      todo |-> stkJob.todo \ batch,
                      have |-> IF got THEN stkJob.have \cup batch ELSE stkJob.have]
        /\ UNCHANGED <<stkCache, stkCacheTime, stkVecs, stkSearch>>
        /\ stkJob.pc = "fill"
    BY <1>1, <2>1 DEF Sticker!FillBatch
  <2>3. StickerTypes' /\ SidsInv'
    <3>1. stkJob'.todo \cup stkJob'.have \subseteq Sticker!Sids
      BY <1>1, <2>2
    <3> QED
      BY <1>0, <1>1, <2>2, <3>1, ServiceSteps
  <2>4. TimesInv'
    BY <1>1, <2>2 DEF StickerInv, TimesInv, Sticker!CacheIsCurrent
  <2> QED
    BY <2>3, <2>4 DEF StickerInv
<1> QED
  BY <1>5, <1>6, <1>7, <1>8, <1>9, <1>10, <1>11, <1>12, <1>13

LEMMA StickerSteps == StickerInv /\ [Sticker!Next]_stkVars => StickerInv'
<1> SUFFICES ASSUME StickerInv, [Sticker!Next]_stkVars PROVE StickerInv'
  OBVIOUS
<1>1. CASE UNCHANGED stkVars
  BY <1>1 DEF stkVars, StickerInv, StickerTypes, Sticker!TypeOK, Sticker!Numbered, SidsInv,
     KnownSids, TimesInv, Sticker!CacheIsCurrent
<1>2. CASE Sticker!Next
  BY <1>2, StickerUploadSteps, StickerAddStep, StickerDeleteStep, StickerSaveTopStep,
     StickerSaveRecsStep, StickerBotRestartStep, StickerServiceSteps
     DEF Sticker!Next, Sticker!Save
<1> QED
  BY <1>1, <1>2

LEMMA StickerHolds ==
    StickerInv => Sticker!TypeOK /\ Sticker!SidMeansItsPicture /\ Sticker!CacheIsCurrent
  BY DEF StickerInv, StickerTypes, SidsInv, KnownSids, TimesInv, Sticker!SidMeansItsPicture

------------------------------------------------------------------------------
(* Voices.                                                                   *)

\* What the instance says of sets and functions is what the library says.
LEMMA VoicesCount ==
    \A S : Voice!Cardinality(S) = Cardinality(S) /\ (Voice!IsFiniteSet(S) <=> IsFiniteSet(S))
  BY DEF Voice!Cardinality, Cardinality, Voice!IsFiniteSet, IsFiniteSet

LEMMA VoicesAssumed ==
    /\ ClipInbox \subseteq ClipTexts /\ ClipText \in [ClipKeys -> ClipTexts]
    /\ NoClipKey \notin ClipKeys /\ LastVid \in Nat
    /\ IsFiniteSet(ClipInbox) /\ IsFiniteSet(ClipKeys)
  BY InstancesAreSound, VoicesCount DEF Voice!VoicesAssumption

\* A set is listed with each of its elements once.
LEMMA SetIsListed ==
    ASSUME NEW S, IsFiniteSet(S)
    PROVE  /\ Cardinality(S) \in Nat
           /\ Voice!SetToSeq(S) \in [1 .. Cardinality(S) -> S]
           /\ \A i, j \in 1 .. Cardinality(S) :
                Voice!SetToSeq(S)[i] = Voice!SetToSeq(S)[j] => i = j
           /\ \A x \in S : \E i \in 1 .. Cardinality(S) : Voice!SetToSeq(S)[i] = x
<1> DEFINE n == Cardinality(S)
           seq == Voice!SetToSeq(S)
<1>1. n \in Nat /\ ExistsBijection(1 .. n, S)
  BY FS_CardinalityType
<1>2. \E f \in [1 .. n -> S] : Voice!IsInjective(f)
  BY <1>1 DEF ExistsBijection, Bijection, Injection, IsInjective, Voice!IsInjective
<1>3. seq \in [1 .. n -> S] /\ Voice!IsInjective(seq)
  <2>1. seq = CHOOSE f \in [1 .. n -> S] : Voice!IsInjective(f)
    BY VoicesCount DEF Voice!SetToSeq
  <2> HIDE DEF seq, n
  <2> QED
    BY <1>2, <2>1
<1>4. \A i, j \in 1 .. n : seq[i] = seq[j] => i = j
  <2> HIDE DEF seq, n
  <2> QED
    BY <1>3 DEF Voice!IsInjective
<1>5. seq \in Injection(1 .. n, S)
  <2> HIDE DEF seq, n
  <2> QED
    BY <1>3 DEF Injection, IsInjective, Voice!IsInjective
<1>6. IsFiniteSet(1 .. n) /\ Cardinality(1 .. n) = n
  BY <1>1, FS_Interval
<1>7. seq \in Surjection(1 .. n, S)
  <2> HIDE DEF seq
  <2> QED
    BY <1>5, <1>6, FS_Injection
<1>8. \A x \in S : \E i \in 1 .. n : seq[i] = x
  <2> HIDE DEF seq, n
  <2> QED
    BY <1>7 DEF Surjection
<1> QED
  BY <1>1, <1>3, <1>4, <1>8

ClipJobs == [vid : Nat \ {0}, key : ClipKeys, batch : ClipUpdates]
KnownClips == [tag : ClipTexts, key : ClipKeys \cup {NoClipKey}]
Reports == [pc : {"new", "collect", "wait", "over", "told", "lost"},
            pending : SUBSET ClipKeys, ok : Nat, fail : Nat, jobs : Nat]

\* The store and the service: the file always has what the bot has, and no two clips are
\* of one key.
ClipStoreInv ==
    /\ voiceTop \in 0 .. LastVid /\ voiceDbTime \in Nat
    /\ voiceVoices \in [DOMAIN voiceVoices -> KnownClips]
    /\ DOMAIN voiceVoices \subseteq 1 .. voiceTop
    /\ voiceDb = [top |-> voiceTop, voices |-> voiceVoices]
    /\ voiceUploads \in [ClipUsers -> SUBSET ClipTexts]
    /\ voiceInbox \subseteq ClipInbox /\ voiceFiles \subseteq 1 .. voiceTop
    /\ Voice!Numbered(voiceClips) /\ {voiceClipsTime, voiceReading} \subseteq 0 .. voiceDbTime
    /\ \A v, w \in DOMAIN voiceVoices :
         voiceVoices[v].key = voiceVoices[w].key /\ voiceVoices[v].key # NoClipKey => v = w
    /\ Voice!ClipsAreCurrent

\* A download that waits or runs.
InQueue == {voiceQueue[i] : i \in 1 .. Len(voiceQueue)}
InWork == {voiceWork[i] : i \in 1 .. Len(voiceWork)}
Downloads == InQueue \cup InWork

\* The queue, the worker and the updates: downloads have keys of their own, and an update
\* waits for just those of its own that are not over.
LoaderInv ==
    /\ voiceQueue \in Seq(ClipJobs)
    /\ voiceWork = <<>> \/ \E j \in ClipJobs : voiceWork = <<j>>
    /\ \A i, j \in 1 .. Len(voiceQueue) : voiceQueue[i].key = voiceQueue[j].key => i = j
    /\ \A i \in InQueue, j \in InWork : i.key # j.key
    /\ \A j \in Downloads :
         j.vid <= voiceTop /\ voiceUpdates[j.batch].pc = "wait"
         /\ j.key \in voiceUpdates[j.batch].pending
    /\ voiceQueued = {j.key : j \in Downloads}
    /\ voiceUpdates \in [ClipUpdates -> Reports]
    /\ \A b \in ClipUpdates :
         /\ \A k \in voiceUpdates[b].pending : \E j \in Downloads : j.key = k /\ j.batch = b
         /\ voiceUpdates[b].pc = "wait" <=> voiceUpdates[b].pending # {}
         /\ voiceUpdates[b].pc \in {"wait", "told"} =>
              voiceUpdates[b].ok + voiceUpdates[b].fail + Cardinality(voiceUpdates[b].pending)
                = voiceUpdates[b].jobs

VoiceInv == ClipStoreInv /\ LoaderInv

LEMMA VoicesBegin == Voice!Init => VoiceInv
<1> SUFFICES ASSUME Voice!Init PROVE VoiceInv
  OBVIOUS
<1> USE VoicesAssumed DEF Voice!Init, Voice!NoClips, Voice!NewUpdate
<1>1. ClipStoreInv
  BY DEF ClipStoreInv, Voice!Numbered, Voice!Vids, Voice!ClipsAreCurrent
<1>2. LoaderInv
  <2>1. Len(voiceQueue) = 0 /\ Len(voiceWork) = 0 /\ voiceQueue \in Seq(ClipJobs)
    OBVIOUS
  <2>2. Downloads = {} /\ InQueue = {} /\ InWork = {}
    BY <2>1 DEF Downloads, InQueue, InWork
  <2>3. voiceUpdates \in [ClipUpdates -> Reports]
    BY DEF Reports
  <2> QED
    BY <2>1, <2>2, <2>3 DEF LoaderInv
<1> QED
  BY <1>1, <1>2 DEF VoiceInv

\* Clips that are added come after those there are, and the file has them at once.
LEMMA ClipsAdded ==
    ASSUME ClipStoreInv, NEW n \in Nat, NEW new \in [1 .. n -> KnownClips],
           \A i, j \in 1 .. n : new[i].key = new[j].key /\ new[i].key # NoClipKey => i = j,
           \A i \in 1 .. n, v \in DOMAIN voiceVoices :
               new[i].key # NoClipKey => voiceVoices[v].key # new[i].key,
           Voice!Add(new), Voice!Saves
    PROVE  /\ voiceTop' = voiceTop + n /\ voiceTop' \in 0 .. LastVid
           /\ voiceDbTime' \in Nat /\ voiceDbTime <= voiceDbTime'
           /\ voiceDbTime' = voiceDbTime => voiceVoices' = voiceVoices
           /\ voiceVoices' \in [DOMAIN voiceVoices' -> KnownClips]
           /\ DOMAIN voiceVoices' \subseteq 1 .. voiceTop'
           /\ voiceDb' = [top |-> voiceTop', voices |-> voiceVoices']
           /\ \A v, w \in DOMAIN voiceVoices' :
                voiceVoices'[v].key = voiceVoices'[w].key /\ voiceVoices'[v].key # NoClipKey
                  => v = w
<1>1. voiceTop \in Nat /\ voiceDbTime \in Nat /\ LastVid \in Nat
      /\ voiceVoices \in [DOMAIN voiceVoices -> KnownClips]
      /\ DOMAIN voiceVoices \subseteq 1 .. voiceTop
  BY VoicesAssumed DEF ClipStoreInv
<1>2. Len(new) = n
  OBVIOUS
<1>3. voiceTop' = voiceTop + n /\ voiceTop' \in 0 .. LastVid
  BY <1>1, <1>2 DEF Voice!Add
<1>4. voiceVoices' = [v \in DOMAIN voiceVoices \cup voiceTop + 1 .. voiceTop' |->
                        IF v > voiceTop THEN new[v - voiceTop] ELSE voiceVoices[v]]
  BY DEF Voice!Add
<1>5. /\ DOMAIN voiceVoices' = DOMAIN voiceVoices \cup voiceTop + 1 .. voiceTop'
      /\ \A v \in DOMAIN voiceVoices : v <= voiceTop /\ voiceVoices'[v] = voiceVoices[v]
      /\ \A v \in voiceTop + 1 .. voiceTop' :
           v - voiceTop \in 1 .. n /\ voiceVoices'[v] = new[v - voiceTop]
  BY <1>1, <1>3, <1>4
<1>6. voiceVoices' \in [DOMAIN voiceVoices' -> KnownClips]
  <2>1. \A v \in DOMAIN voiceVoices' : voiceVoices'[v] \in KnownClips
    BY <1>1, <1>5
  <2> QED
    BY <1>4, <2>1
<1>7. DOMAIN voiceVoices' \subseteq 1 .. voiceTop'
  BY <1>1, <1>3, <1>5
<1>8. ASSUME NEW v \in DOMAIN voiceVoices', NEW w \in DOMAIN voiceVoices',
             voiceVoices'[v].key = voiceVoices'[w].key, voiceVoices'[v].key # NoClipKey
      PROVE  v = w
  <2>1. CASE v \in DOMAIN voiceVoices /\ w \in DOMAIN voiceVoices
    BY <1>5, <1>8, <2>1 DEF ClipStoreInv
  <2>2. CASE v \in voiceTop + 1 .. voiceTop' /\ w \in voiceTop + 1 .. voiceTop'
    <3>1. v - voiceTop = w - voiceTop
      BY <1>5, <1>8, <2>2
    <3> QED
      BY <1>1, <1>3, <2>2, <3>1
  <2>3. CASE v \in DOMAIN voiceVoices /\ w \in voiceTop + 1 .. voiceTop'
    BY <1>5, <1>8, <2>3
  <2>4. CASE w \in DOMAIN voiceVoices /\ v \in voiceTop + 1 .. voiceTop'
    BY <1>5, <1>8, <2>4
  <2> QED
    BY <1>5, <2>1, <2>2, <2>3, <2>4
<1>9. /\ voiceDbTime' \in Nat /\ voiceDbTime <= voiceDbTime'
      /\ voiceDbTime' = voiceDbTime => voiceVoices' = voiceVoices
      /\ voiceDb' = [top |-> voiceTop', voices |-> voiceVoices']
  BY <1>1 DEF Voice!Saves
<1> QED
  BY <1>3, <1>6, <1>7, <1>8, <1>9

\* What is left to show of the store when clips were added, or changed.
LEMMA ClipStoreGrows ==
    ASSUME ClipStoreInv,
           voiceTop' \in 0 .. LastVid, voiceTop <= voiceTop',
           voiceDbTime' \in Nat, voiceDbTime <= voiceDbTime',
           voiceDbTime' = voiceDbTime => voiceVoices' = voiceVoices,
           voiceVoices' \in [DOMAIN voiceVoices' -> KnownClips],
           DOMAIN voiceVoices' \subseteq 1 .. voiceTop',
           voiceDb' = [top |-> voiceTop', voices |-> voiceVoices'],
           \A v, w \in DOMAIN voiceVoices' :
               voiceVoices'[v].key = voiceVoices'[w].key /\ voiceVoices'[v].key # NoClipKey
                 => v = w,
           voiceUploads' \in [ClipUsers -> SUBSET ClipTexts],
           voiceInbox' \subseteq ClipInbox, voiceFiles' \subseteq 1 .. voiceTop',
           UNCHANGED <<voiceClips, voiceClipsTime, voiceReading>>
    PROVE  ClipStoreInv'
<1>1. {voiceClipsTime', voiceReading'} \subseteq 0 .. voiceDbTime'
  BY DEF ClipStoreInv
<1>2. (Voice!ClipsAreCurrent)'
  <2> SUFFICES ASSUME voiceClipsTime' = voiceDbTime', NEW v \in DOMAIN voiceClips'
               PROVE  v \in DOMAIN voiceDb'.voices /\ voiceClips'[v] = voiceDb'.voices[v]
    BY DEF Voice!ClipsAreCurrent
  <2>1. voiceClipsTime \in 0 .. voiceDbTime /\ voiceDbTime \in Nat
        /\ voiceDb.voices = voiceVoices /\ Voice!ClipsAreCurrent
    BY DEF ClipStoreInv
  <2>2. voiceDbTime' = voiceDbTime /\ voiceClipsTime = voiceDbTime
    BY <2>1
  <2>3. voiceDb'.voices = voiceDb.voices
    BY <2>1, <2>2
  <2> QED
    BY <2>1, <2>2, <2>3 DEF Voice!ClipsAreCurrent
<1>3. Voice!Numbered(voiceClips)'
  BY DEF ClipStoreInv, Voice!Numbered
<1> QED
  BY <1>1, <1>2, <1>3 DEF ClipStoreInv

\* The queue and the updates while the store changes.
LEMMA LoaderStands ==
    ASSUME VoiceInv, ClipStoreInv', voiceTop <= voiceTop',
           UNCHANGED <<voiceUpdates, voiceQueue, voiceQueued, voiceWork>>
    PROVE  LoaderInv'
<1>1. \A j \in Downloads : j.vid \in Nat
  <2>1. voiceQueue \in Seq(ClipJobs)
    BY DEF VoiceInv, LoaderInv
  <2>2. \A j \in InQueue : j \in ClipJobs
    BY <2>1, ElementOfSeq DEF InQueue
  <2>3. \A j \in InWork : j \in ClipJobs
    BY DEF VoiceInv, LoaderInv, InWork
  <2> QED
    BY <2>2, <2>3 DEF Downloads, ClipJobs
<1>2. Downloads' = Downloads /\ InQueue' = InQueue /\ InWork' = InWork
  BY DEF Downloads, InQueue, InWork
<1>3. voiceTop \in Nat /\ voiceTop' \in Nat
  BY DEF VoiceInv, ClipStoreInv
<1>4. \A j \in Downloads' : j.vid <= voiceTop'
  BY <1>1, <1>2, <1>3 DEF VoiceInv, LoaderInv
<1> QED
  BY <1>2, <1>4 DEF VoiceInv, LoaderInv

LEMMA ClipUploadSteps ==
    ASSUME VoiceInv, NEW u \in ClipUsers, Voice!UploadBegins(u) \/ Voice!UploadEnds(u)
    PROVE  VoiceInv'
<1>1. /\ UNCHANGED <<voiceUpdates, voiceQueue, voiceQueued, voiceWork, voiceInbox,
                     voiceClips, voiceClipsTime, voiceReading>>
      /\ voiceUploads \in [ClipUsers -> SUBSET ClipTexts]
      /\ voiceTop \in Nat /\ voiceFiles \subseteq 1 .. voiceTop
  BY DEF Voice!UploadBegins, Voice!UploadEnds, Voice!loader, Voice!service, VoiceInv, ClipStoreInv
<1>2. ASSUME UNCHANGED <<voiceTop, voiceVoices, voiceDb, voiceDbTime, voiceFiles>>,
             voiceUploads' \in [ClipUsers -> SUBSET ClipTexts]
      PROVE  VoiceInv'
  <2>1. ClipStoreInv'
    BY <1>1, <1>2 DEF VoiceInv, ClipStoreInv, Voice!Numbered, Voice!ClipsAreCurrent
  <2>2. voiceTop <= voiceTop'
    BY <1>1, <1>2
  <2> QED
    BY <1>1, <2>1, <2>2, LoaderStands DEF VoiceInv
<1>3. CASE Voice!UploadBegins(u)
  BY <1>1, <1>2, <1>3 DEF Voice!UploadBegins, Voice!store
<1>4. CASE Voice!UploadEnds(u)
  <2>1. voiceUploads' \in [ClipUsers -> SUBSET ClipTexts]
    BY <1>1, <1>4 DEF Voice!UploadEnds
  <2>2. CASE UNCHANGED <<voiceTop, voiceVoices, voiceDb, voiceDbTime, voiceFiles>>
    BY <1>2, <2>1, <2>2
  <2>3. ASSUME NEW t \in voiceUploads[u],
               Voice!Add(<<[tag |-> t, key |-> NoClipKey]>>), Voice!Saves,
               voiceFiles' = voiceFiles \cup {voiceTop'}
        PROVE  VoiceInv'
    <3> DEFINE new == <<[tag |-> t, key |-> NoClipKey]>>
    <3>1. new \in [1 .. 1 -> KnownClips] /\ new[1].key = NoClipKey
      BY <1>1 DEF KnownClips
    <3> HIDE DEF new
    <3>2. Voice!Add(new)
      BY <2>3 DEF new
    <3>3. /\ \A i, j \in 1 .. 1 : new[i].key = new[j].key /\ new[i].key # NoClipKey => i = j
          /\ \A i \in 1 .. 1, v \in DOMAIN voiceVoices :
               new[i].key # NoClipKey => voiceVoices[v].key # new[i].key
      BY <3>1
    <3>4. /\ voiceTop' = voiceTop + 1 /\ voiceTop' \in 0 .. LastVid
          /\ voiceDbTime' \in Nat /\ voiceDbTime <= voiceDbTime'
          /\ voiceDbTime' = voiceDbTime => voiceVoices' = voiceVoices
          /\ voiceVoices' \in [DOMAIN voiceVoices' -> KnownClips]
          /\ DOMAIN voiceVoices' \subseteq 1 .. voiceTop'
          /\ voiceDb' = [top |-> voiceTop', voices |-> voiceVoices']
          /\ \A v, w \in DOMAIN voiceVoices' :
               voiceVoices'[v].key = voiceVoices'[w].key /\ voiceVoices'[v].key # NoClipKey
                 => v = w
      BY <2>3, <3>1, <3>2, <3>3, ClipsAdded DEF VoiceInv
    <3>5. voiceFiles' \subseteq 1 .. voiceTop' /\ voiceTop <= voiceTop'
      BY <1>1, <2>3, <3>4
    <3>6. ClipStoreInv'
      BY <1>1, <2>1, <3>4, <3>5, ClipStoreGrows DEF VoiceInv, ClipStoreInv
    <3> QED
      BY <1>1, <3>5, <3>6, LoaderStands DEF VoiceInv
  <2> QED
    BY <1>4, <2>2, <2>3 DEF Voice!UploadEnds, Voice!store
<1> QED
  BY <1>3, <1>4

LEMMA ClipChangeSteps ==
    ASSUME VoiceInv, NEW v \in Voice!Vids,
           Voice!Delete(v) \/ \E t \in ClipTexts : Voice!SetTag(v, t)
    PROVE  VoiceInv'
<1>1. /\ UNCHANGED <<voiceTop, voiceUploads, voiceUpdates, voiceQueue, voiceQueued, voiceWork,
                     voiceInbox, voiceClips, voiceClipsTime, voiceReading>>
      /\ v \in DOMAIN voiceVoices /\ Voice!Saves /\ voiceFiles' \subseteq voiceFiles
  BY DEF Voice!Delete, Voice!SetTag, Voice!loader, Voice!service
<1>2. /\ voiceTop \in Nat /\ voiceTop \in 0 .. LastVid /\ voiceDbTime \in Nat
      /\ voiceFiles \subseteq 1 .. voiceTop
      /\ voiceVoices \in [DOMAIN voiceVoices -> KnownClips]
      /\ DOMAIN voiceVoices \subseteq 1 .. voiceTop
      /\ voiceUploads \in [ClipUsers -> SUBSET ClipTexts] /\ voiceInbox \subseteq ClipInbox
  BY DEF VoiceInv, ClipStoreInv
<1>3. /\ voiceVoices' \in [DOMAIN voiceVoices' -> KnownClips]
      /\ DOMAIN voiceVoices' \subseteq DOMAIN voiceVoices
      /\ \A w \in DOMAIN voiceVoices' : voiceVoices'[w].key = voiceVoices[w].key
  <2>1. CASE Voice!Delete(v)
    BY <1>2, <2>1 DEF Voice!Delete, Voice!Restrict
  <2>2. ASSUME NEW t \in ClipTexts, Voice!SetTag(v, t)
        PROVE  /\ voiceVoices' \in [DOMAIN voiceVoices' -> KnownClips]
               /\ DOMAIN voiceVoices' \subseteq DOMAIN voiceVoices
               /\ \A w \in DOMAIN voiceVoices' : voiceVoices'[w].key = voiceVoices[w].key
    <3>1. voiceVoices' = [voiceVoices EXCEPT ![v] = [voiceVoices[v] EXCEPT !.tag = t]]
      BY <2>2 DEF Voice!SetTag
    <3>2. [voiceVoices[v] EXCEPT !.tag = t] \in KnownClips
          /\ [voiceVoices[v] EXCEPT !.tag = t].key = voiceVoices[v].key
      BY <1>1, <1>2 DEF KnownClips
    <3> QED
      BY <1>1, <1>2, <3>1, <3>2
  <2> QED
    BY <2>1, <2>2
<1>4. /\ voiceDbTime' \in Nat /\ voiceDbTime <= voiceDbTime'
      /\ voiceDbTime' = voiceDbTime => voiceVoices' = voiceVoices
      /\ voiceDb' = [top |-> voiceTop', voices |-> voiceVoices']
  BY <1>1, <1>2 DEF Voice!Saves
<1>5. \A a, b \in DOMAIN voiceVoices' :
          voiceVoices'[a].key = voiceVoices'[b].key /\ voiceVoices'[a].key # NoClipKey => a = b
  BY <1>3 DEF VoiceInv, ClipStoreInv
<1>6. ClipStoreInv'
  <2>1. DOMAIN voiceVoices' \subseteq 1 .. voiceTop' /\ voiceFiles' \subseteq 1 .. voiceTop'
        /\ voiceTop <= voiceTop' /\ voiceTop' \in 0 .. LastVid
    BY <1>1, <1>2, <1>3
  <2> QED
    BY <1>1, <1>2, <1>3, <1>4, <1>5, <2>1, ClipStoreGrows DEF VoiceInv
<1> QED
  BY <1>1, <1>2, <1>6, LoaderStands DEF VoiceInv

LEMMA DownloadsAreJobs == LoaderInv => Downloads \subseteq ClipJobs
<1> SUFFICES ASSUME LoaderInv PROVE Downloads \subseteq ClipJobs
  OBVIOUS
<1>1. voiceQueue \in Seq(ClipJobs)
  BY DEF LoaderInv
<1>2. \A j \in InQueue : j \in ClipJobs
  BY <1>1, ElementOfSeq DEF InQueue
<1>3. \A j \in InWork : j \in ClipJobs
  BY DEF LoaderInv, InWork
<1> QED
  BY <1>2, <1>3 DEF Downloads

\* An update goes on to collect, or gives up.
LEMMA UpdateTurns ==
    ASSUME VoiceInv, ClipStoreInv', voiceTop <= voiceTop',
           UNCHANGED <<voiceQueue, voiceQueued, voiceWork>>,
           NEW b \in ClipUpdates, NEW p \in {"collect", "over"},
           voiceUpdates[b].pc \in {"new", "collect"},
           voiceUpdates' = [voiceUpdates EXCEPT ![b].pc = p]
    PROVE  LoaderInv'
<1>1. voiceUpdates \in [ClipUpdates -> Reports]
  BY DEF VoiceInv, LoaderInv
<1>2. /\ voiceUpdates' = [voiceUpdates EXCEPT ![b] = [voiceUpdates[b] EXCEPT !.pc = p]]
      /\ [voiceUpdates[b] EXCEPT !.pc = p] \in Reports
      /\ [voiceUpdates[b] EXCEPT !.pc = p].pc = p
      /\ [voiceUpdates[b] EXCEPT !.pc = p].pending = voiceUpdates[b].pending
  BY <1>1 DEF Reports
<1>3. /\ voiceUpdates' \in [ClipUpdates -> Reports]
      /\ voiceUpdates'[b].pc = p /\ voiceUpdates'[b].pending = voiceUpdates[b].pending
      /\ \A c \in ClipUpdates : c # b => voiceUpdates'[c] = voiceUpdates[c]
  BY <1>1, <1>2
<1>4. voiceUpdates[b].pending = {}
  BY DEF VoiceInv, LoaderInv
<1>5. Downloads' = Downloads /\ InQueue' = InQueue /\ InWork' = InWork
  BY DEF Downloads, InQueue, InWork
<1>6. Downloads \subseteq ClipJobs /\ voiceTop \in Nat /\ voiceTop' \in Nat
  BY DownloadsAreJobs DEF VoiceInv, ClipStoreInv
<1>7. \A j \in Downloads :
          j.vid <= voiceTop' /\ voiceUpdates'[j.batch].pc = "wait"
          /\ j.key \in voiceUpdates'[j.batch].pending
  <2> SUFFICES ASSUME NEW j \in Downloads
               PROVE  j.vid <= voiceTop' /\ voiceUpdates'[j.batch].pc = "wait"
                      /\ j.key \in voiceUpdates'[j.batch].pending
    OBVIOUS
  <2>1. /\ j.vid <= voiceTop /\ voiceUpdates[j.batch].pc = "wait"
        /\ j.key \in voiceUpdates[j.batch].pending /\ j.vid \in Nat /\ j.batch \in ClipUpdates
    BY <1>6 DEF VoiceInv, LoaderInv, ClipJobs
  <2> QED
    BY <1>3, <1>6, <2>1
<1>8. \A c \in ClipUpdates :
         /\ \A k \in voiceUpdates'[c].pending : \E j \in Downloads : j.key = k /\ j.batch = c
         /\ voiceUpdates'[c].pc = "wait" <=> voiceUpdates'[c].pending # {}
         /\ voiceUpdates'[c].pc \in {"wait", "told"} =>
              voiceUpdates'[c].ok + voiceUpdates'[c].fail + Cardinality(voiceUpdates'[c].pending)
                = voiceUpdates'[c].jobs
  <2> SUFFICES ASSUME NEW c \in ClipUpdates
               PROVE  /\ \A k \in voiceUpdates'[c].pending :
                           \E j \in Downloads : j.key = k /\ j.batch = c
                      /\ voiceUpdates'[c].pc = "wait" <=> voiceUpdates'[c].pending # {}
                      /\ voiceUpdates'[c].pc \in {"wait", "told"} =>
                           voiceUpdates'[c].ok + voiceUpdates'[c].fail
                             + Cardinality(voiceUpdates'[c].pending) = voiceUpdates'[c].jobs
    OBVIOUS
  <2>1. CASE c = b
    BY <1>3, <1>4, <2>1
  <2>2. CASE c # b
    BY <1>3, <2>2 DEF VoiceInv, LoaderInv
  <2> QED
    BY <2>1, <2>2
<1> QED
  BY <1>3, <1>5, <1>7, <1>8 DEF VoiceInv, LoaderInv

LEMMA ClipScanStep ==
    ASSUME VoiceInv, NEW b \in ClipUpdates, Voice!ScanInbox(b)
    PROVE  VoiceInv'
<1> DEFINE S == {t \in voiceInbox : ~Voice!HasTag(voiceVoices, t)}
           n == Cardinality(S)
           new == Voice!SetToSeq(S)
           clips == [i \in DOMAIN new |-> [tag |-> new[i], key |-> NoClipKey]]
<1>1. /\ voiceUpdates[b].pc = "new"
      /\ voiceUpdates' = [voiceUpdates EXCEPT ![b].pc = "collect"]
      /\ Voice!Add(clips) /\ Voice!Saves
      /\ voiceFiles' = voiceFiles \cup (voiceTop + 1 .. voiceTop')
      /\ voiceInbox' = voiceInbox \ Voice!ToSet(new)
      /\ UNCHANGED <<voiceUploads, voiceQueue, voiceQueued, voiceWork, voiceClips,
                     voiceClipsTime, voiceReading, voiceRestarts>>
  BY DEF Voice!ScanInbox, Voice!service
<1>2. /\ S \subseteq ClipTexts /\ IsFiniteSet(S)
      /\ voiceTop \in Nat /\ voiceFiles \subseteq 1 .. voiceTop /\ voiceInbox \subseteq ClipInbox
      /\ voiceUploads \in [ClipUsers -> SUBSET ClipTexts]
  <2>1. voiceInbox \subseteq ClipInbox
    BY DEF VoiceInv, ClipStoreInv
  <2>2. S \subseteq ClipTexts /\ S \in SUBSET ClipInbox
    BY <2>1, VoicesAssumed
  <2>3. IsFiniteSet(S)
    <3> HIDE DEF S
    <3> QED
      BY <2>2, FS_Subset, VoicesAssumed
  <2> QED
    BY <2>1, <2>2, <2>3 DEF VoiceInv, ClipStoreInv
<1>3. n \in Nat /\ new \in [1 .. n -> S]
  <2> HIDE DEF S
  <2> QED
    BY <1>2, SetIsListed
<1>4. /\ clips \in [1 .. n -> KnownClips] /\ \A i \in 1 .. n : clips[i].key = NoClipKey
  <2> HIDE DEF S, n, new
  <2> QED
    BY <1>2, <1>3 DEF KnownClips
<1> HIDE DEF S, n, new, clips
<1>5. /\ \A i, j \in 1 .. n : clips[i].key = clips[j].key /\ clips[i].key # NoClipKey => i = j
      /\ \A i \in 1 .. n, v \in DOMAIN voiceVoices :
           clips[i].key # NoClipKey => voiceVoices[v].key # clips[i].key
  BY <1>4
<1>6. /\ voiceTop' = voiceTop + n /\ voiceTop' \in 0 .. LastVid
      /\ voiceDbTime' \in Nat /\ voiceDbTime <= voiceDbTime'
      /\ voiceDbTime' = voiceDbTime => voiceVoices' = voiceVoices
      /\ voiceVoices' \in [DOMAIN voiceVoices' -> KnownClips]
      /\ DOMAIN voiceVoices' \subseteq 1 .. voiceTop'
      /\ voiceDb' = [top |-> voiceTop', voices |-> voiceVoices']
      /\ \A v, w \in DOMAIN voiceVoices' :
           voiceVoices'[v].key = voiceVoices'[w].key /\ voiceVoices'[v].key # NoClipKey
             => v = w
  BY <1>1, <1>3, <1>4, <1>5, ClipsAdded DEF VoiceInv
<1>7. voiceFiles' \subseteq 1 .. voiceTop' /\ voiceTop <= voiceTop' /\ voiceInbox' \subseteq ClipInbox
  BY <1>1, <1>2, <1>3, <1>6
<1>8. ClipStoreInv'
  <2>1. voiceUploads' \in [ClipUsers -> SUBSET ClipTexts]
        /\ UNCHANGED <<voiceClips, voiceClipsTime, voiceReading>>
    BY <1>1, <1>2
  <2> QED
    BY <1>6, <1>7, <2>1, ClipStoreGrows DEF VoiceInv
<1>9. LoaderInv'
  BY <1>1, <1>7, <1>8, UpdateTurns
<1> QED
  BY <1>8, <1>9 DEF VoiceInv

\* The service, and an update that gives up.
LEMMA ClipOtherSteps ==
    ASSUME VoiceInv,
           \/ \E b \in ClipUpdates : Voice!CollectFails(b)
           \/ Voice!LoadBegins \/ Voice!Load
    PROVE  VoiceInv'
<1>1. UNCHANGED <<voiceTop, voiceVoices, voiceDb, voiceDbTime, voiceUploads, voiceQueue,
                  voiceQueued, voiceWork, voiceInbox, voiceFiles>>
  BY DEF Voice!CollectFails, Voice!LoadBegins, Voice!Load, Voice!store, Voice!loader
<1>2. voiceTop <= voiceTop'
  BY <1>1 DEF VoiceInv, ClipStoreInv
<1>3. ASSUME NEW b \in ClipUpdates, Voice!CollectFails(b) PROVE VoiceInv'
  <2>1. /\ UNCHANGED <<voiceClips, voiceClipsTime, voiceReading>>
        /\ voiceUpdates[b].pc = "collect"
        /\ voiceUpdates' = [voiceUpdates EXCEPT ![b].pc = "over"]
    BY <1>3 DEF Voice!CollectFails, Voice!service
  <2>2. ClipStoreInv'
    BY <1>1, <2>1 DEF VoiceInv, ClipStoreInv, Voice!Numbered, Voice!ClipsAreCurrent
  <2> QED
    BY <1>1, <1>2, <2>1, <2>2, UpdateTurns DEF VoiceInv
<1>4. CASE Voice!LoadBegins
  <2>1. voiceReading' = voiceDbTime /\ UNCHANGED <<voiceClips, voiceClipsTime, voiceUpdates>>
    BY <1>4 DEF Voice!LoadBegins, Voice!loader
  <2>2. ClipStoreInv'
    BY <1>1, <2>1 DEF VoiceInv, ClipStoreInv, Voice!Numbered, Voice!ClipsAreCurrent
  <2> QED
    BY <1>1, <1>2, <2>1, <2>2, LoaderStands DEF VoiceInv
<1>5. CASE Voice!Load
  <2>1. /\ DOMAIN voiceClips' \subseteq DOMAIN voiceDb.voices
        /\ \A v \in DOMAIN voiceClips' : voiceClips'[v] = voiceDb.voices[v]
        /\ voiceClipsTime' = voiceReading /\ voiceReading' = 0 /\ UNCHANGED voiceUpdates
    BY <1>5 DEF Voice!Load, Voice!loader, Voice!Restrict
  <2>2. Voice!Numbered(voiceClips') /\ (Voice!ClipsAreCurrent)'
    <3>1. voiceDb.voices = voiceVoices /\ voiceTop \in 0 .. LastVid
          /\ voiceVoices \in [DOMAIN voiceVoices -> KnownClips]
          /\ DOMAIN voiceVoices \subseteq 1 .. voiceTop
      BY DEF VoiceInv, ClipStoreInv
    <3>2. Voice!Numbered(voiceClips')
      BY <2>1, <3>1, VoicesAssumed DEF Voice!Numbered, Voice!Vids, KnownClips
    <3>3. (Voice!ClipsAreCurrent)'
      BY <1>1, <2>1 DEF Voice!ClipsAreCurrent
    <3> QED
      BY <3>2, <3>3
  <2>3. ClipStoreInv'
    BY <1>1, <2>1, <2>2 DEF VoiceInv, ClipStoreInv, Voice!Numbered
  <2> QED
    BY <1>1, <1>2, <2>1, <2>3, LoaderStands DEF VoiceInv
<1> QED
  BY <1>3, <1>4, <1>5

LEMMA ClipRestartStep == VoiceInv /\ Voice!Restart => VoiceInv'
<1> SUFFICES ASSUME VoiceInv, Voice!Restart PROVE VoiceInv'
  OBVIOUS
<1>1. /\ voiceTop' = voiceTop /\ voiceVoices' = voiceVoices
      /\ UNCHANGED <<voiceDb, voiceDbTime, voiceInbox, voiceFiles, voiceClips,
                     voiceClipsTime, voiceReading>>
      /\ voiceUploads' = [u \in ClipUsers |-> {}]
      /\ voiceQueue' = <<>> /\ voiceQueued' = {} /\ voiceWork' = <<>>
      /\ voiceUpdates' = [b \in ClipUpdates |->
            IF voiceUpdates[b].pc \in {"new", "told"} THEN voiceUpdates[b]
            ELSE [Voice!NewUpdate EXCEPT !.pc = "lost"]]
  BY DEF Voice!Restart, Voice!service, VoiceInv, ClipStoreInv
<1>2. ClipStoreInv'
  BY <1>1 DEF VoiceInv, ClipStoreInv, Voice!Numbered, Voice!ClipsAreCurrent
<1>3. [Voice!NewUpdate EXCEPT !.pc = "lost"]
        = [pc |-> "lost", pending |-> {}, ok |-> 0, fail |-> 0, jobs |-> 0]
  BY DEF Voice!NewUpdate
<1>4. \A b \in ClipUpdates :
          /\ voiceUpdates'[b] \in Reports /\ voiceUpdates'[b].pending = {}
          /\ voiceUpdates'[b].pc # "wait"
          /\ voiceUpdates'[b].pc = "told" => voiceUpdates'[b] = voiceUpdates[b]
  <2>1. \A b \in ClipUpdates :
          /\ voiceUpdates[b] \in Reports
          /\ voiceUpdates[b].pc # "wait" => voiceUpdates[b].pending = {}
    BY DEF VoiceInv, LoaderInv
  <2>2. [pc |-> "lost", pending |-> {}, ok |-> 0, fail |-> 0, jobs |-> 0] \in Reports
    BY DEF Reports
  <2> SUFFICES ASSUME NEW b \in ClipUpdates
               PROVE  /\ voiceUpdates'[b] \in Reports /\ voiceUpdates'[b].pending = {}
                      /\ voiceUpdates'[b].pc # "wait"
                      /\ voiceUpdates'[b].pc = "told" => voiceUpdates'[b] = voiceUpdates[b]
    OBVIOUS
  <2>3. CASE voiceUpdates[b].pc \in {"new", "told"}
    BY <1>1, <2>1, <2>3
  <2>4. CASE voiceUpdates[b].pc \notin {"new", "told"}
    BY <1>1, <1>3, <2>2, <2>4
  <2> QED
    BY <2>3, <2>4
<1>5. LoaderInv'
  <2>1. Len(voiceQueue') = 0 /\ Len(voiceWork') = 0 /\ voiceQueue' \in Seq(ClipJobs)
    BY <1>1
  <2>2. Downloads' = {} /\ InQueue' = {} /\ InWork' = {}
    BY <2>1 DEF Downloads, InQueue, InWork
  <2>3. voiceUpdates' \in [ClipUpdates -> Reports]
    BY <1>1, <1>4
  <2>4. \A b \in ClipUpdates : voiceUpdates'[b].pc \in {"wait", "told"} =>
            voiceUpdates'[b].ok + voiceUpdates'[b].fail + Cardinality(voiceUpdates'[b].pending)
              = voiceUpdates'[b].jobs
    BY <1>4 DEF VoiceInv, LoaderInv
  <2> QED
    BY <1>1, <1>4, <2>1, <2>2, <2>3, <2>4 DEF LoaderInv
<1> QED
  BY <1>2, <1>5 DEF VoiceInv

LEMMA DownloadsApart == LoaderInv => \A i, j \in Downloads : i.key = j.key => i = j
  BY DEF LoaderInv, Downloads, InQueue, InWork

\* The head of the queue leaves it.
LEMMA QueueGoesOn ==
    ASSUME LoaderInv, voiceQueue # <<>>, voiceQueue' = Tail(voiceQueue)
    PROVE  /\ Head(voiceQueue) \in InQueue
           /\ voiceQueue' \in Seq(ClipJobs)
           /\ \A i, j \in 1 .. Len(voiceQueue') : voiceQueue'[i].key = voiceQueue'[j].key => i = j
           /\ InQueue' = InQueue \ {Head(voiceQueue)}
<1> DEFINE n == Len(voiceQueue)
<1>1. voiceQueue \in Seq(ClipJobs)
      /\ \A i, j \in 1 .. n : voiceQueue[i].key = voiceQueue[j].key => i = j
  BY DEF LoaderInv
<1>2. /\ n \in Nat /\ n >= 1 /\ Len(voiceQueue') = n - 1 /\ voiceQueue' \in Seq(ClipJobs)
      /\ \A i \in 1 .. n - 1 : voiceQueue'[i] = voiceQueue[i + 1]
      /\ Head(voiceQueue) = voiceQueue[1]
  BY <1>1
<1> HIDE DEF n
<1>3. \A i, j \in 1 .. n - 1 : voiceQueue'[i].key = voiceQueue'[j].key => i = j
  <2> SUFFICES ASSUME NEW i \in 1 .. n - 1, NEW j \in 1 .. n - 1,
                      voiceQueue'[i].key = voiceQueue'[j].key
               PROVE  i = j
    OBVIOUS
  <2>1. i + 1 \in 1 .. n /\ j + 1 \in 1 .. n
    BY <1>2
  <2>2. i + 1 = j + 1
    BY <1>1, <1>2, <2>1
  <2> QED
    BY <1>2, <2>2
<1>4. InQueue = {voiceQueue[i] : i \in 1 .. n} /\ InQueue' = {voiceQueue'[i] : i \in 1 .. n - 1}
  BY <1>2 DEF InQueue, n
<1>5. InQueue' = InQueue \ {voiceQueue[1]}
  <2>1. ASSUME NEW j \in InQueue' PROVE j \in InQueue /\ j # voiceQueue[1]
    <3>1. PICK i \in 1 .. n - 1 : j = voiceQueue'[i]
      BY <1>4
    <3>2. i + 1 \in 1 .. n /\ 1 \in 1 .. n /\ i + 1 # 1 /\ j = voiceQueue[i + 1]
      BY <1>2, <3>1
    <3> QED
      BY <1>1, <1>4, <3>2
  <2>2. ASSUME NEW j \in InQueue, j # voiceQueue[1] PROVE j \in InQueue'
    <3>1. PICK i \in 1 .. n : j = voiceQueue[i]
      BY <1>4
    <3>2. i - 1 \in 1 .. n - 1 /\ (i - 1) + 1 = i
      BY <1>2, <2>2, <3>1
    <3>3. voiceQueue'[i - 1] = j
      BY <1>2, <3>1, <3>2
    <3> QED
      BY <1>4, <3>2, <3>3
  <2> QED
    BY <2>1, <2>2
<1>6. voiceQueue[1] \in InQueue
  BY <1>2, <1>4
<1> QED
  BY <1>2, <1>3, <1>5, <1>6

\* What one download does to the report of its update.
LEMMA UpdateCounts ==
    ASSUME NEW b \in ClipUpdates, NEW key \in ClipKeys, NEW ok \in BOOLEAN,
           voiceUpdates \in [ClipUpdates -> Reports], key \in voiceUpdates[b].pending,
           Voice!Counts(b, key, ok)
    PROVE  /\ voiceUpdates' \in [ClipUpdates -> Reports]
           /\ \A c \in ClipUpdates : c # b => voiceUpdates'[c] = voiceUpdates[c]
           /\ voiceUpdates'[b].pending = voiceUpdates[b].pending \ {key}
           /\ voiceUpdates'[b].pc =
                IF voiceUpdates'[b].pending = {} THEN "told" ELSE voiceUpdates[b].pc
           /\ voiceUpdates'[b].jobs = voiceUpdates[b].jobs
           /\ voiceUpdates'[b].ok + voiceUpdates'[b].fail = voiceUpdates[b].ok + voiceUpdates[b].fail + 1
<1> DEFINE old == voiceUpdates[b]
           ok1 == old.ok + (IF ok THEN 1 ELSE 0)
           fail1 == old.fail + (IF ok THEN 0 ELSE 1)
           left == old.pending \ {key}
           pc1 == IF left = {} THEN "told" ELSE old.pc
           new == [old EXCEPT !.pending = left, !.ok = ok1, !.fail = fail1, !.pc = pc1]
<1>1. voiceUpdates' = [voiceUpdates EXCEPT ![b] = new]
  BY DEF Voice!Counts
<1>2. old = [pc |-> old.pc, pending |-> old.pending, ok |-> old.ok, fail |-> old.fail,
             jobs |-> old.jobs]
      /\ old.pc \in {"new", "collect", "wait", "over", "told", "lost"}
      /\ old.pending \in SUBSET ClipKeys /\ old.ok \in Nat /\ old.fail \in Nat /\ old.jobs \in Nat
  BY DEF Reports
<1> HIDE DEF old
<1>3. /\ ok1 \in Nat /\ fail1 \in Nat /\ ok1 + fail1 = old.ok + old.fail + 1
      /\ left \in SUBSET ClipKeys
      /\ pc1 \in {"new", "collect", "wait", "over", "told", "lost"}
  <2>1. CASE ok
    BY <1>2, <2>1
  <2>2. CASE ~ok
    BY <1>2, <2>2
  <2> QED
    BY <2>1, <2>2
<1> HIDE DEF ok1, fail1, pc1, left
<1>4. old \in Reports
  BY DEF old
<1>5. /\ new \in Reports
      /\ new.pending = left /\ new.jobs = old.jobs /\ new.pc = pc1
      /\ new.ok = ok1 /\ new.fail = fail1
  <2>1. new = [old EXCEPT !.pending = left, !.ok = ok1, !.fail = fail1, !.pc = pc1]
    OBVIOUS
  <2> HIDE DEF new
  <2> QED
    BY <1>3, <1>4, <2>1 DEF Reports
<1> HIDE DEF new
<1>6. /\ voiceUpdates' \in [ClipUpdates -> Reports] /\ voiceUpdates'[b] = new
      /\ \A c \in ClipUpdates : c # b => voiceUpdates'[c] = voiceUpdates[c]
  BY <1>1, <1>5
<1> QED
  BY <1>3, <1>5, <1>6 DEF old, left, pc1

\* A download is over, for the queue and for its update.
LEMMA DownloadOver ==
    ASSUME VoiceInv, NEW d \in Downloads, NEW ok \in BOOLEAN,
           Voice!Counts(d.batch, d.key, ok), voiceTop' = voiceTop,
           voiceQueue' \in Seq(ClipJobs), voiceWork' = <<>>,
           \A i, j \in 1 .. Len(voiceQueue') : voiceQueue'[i].key = voiceQueue'[j].key => i = j,
           InQueue' = Downloads \ {d}, voiceQueued' = voiceQueued \ {d.key}
    PROVE  LoaderInv'
<1> DEFINE b == d.batch
           key == d.key
           old == voiceUpdates[b]
           new == voiceUpdates'[b]
<1>1. /\ Downloads \subseteq ClipJobs /\ b \in ClipUpdates /\ key \in ClipKeys
      /\ voiceUpdates \in [ClipUpdates -> Reports] /\ old \in Reports
      /\ old.pc = "wait" /\ key \in old.pending
  BY DownloadsAreJobs DEF VoiceInv, LoaderInv, ClipJobs
<1>2. Voice!Counts(b, key, ok)
  OBVIOUS
<1> HIDE DEF b, key
<1>3. /\ voiceUpdates' \in [ClipUpdates -> Reports] /\ new \in Reports
      /\ \A c \in ClipUpdates : c # b => voiceUpdates'[c] = voiceUpdates[c]
  BY <1>1, <1>2, UpdateCounts
<1>4. /\ new.pending = old.pending \ {key}
      /\ new.pc = IF new.pending = {} THEN "told" ELSE "wait"
      /\ new.ok + new.fail = old.ok + old.fail + 1
      /\ new.jobs = old.jobs
  BY <1>1, <1>2, UpdateCounts
<1> USE DEF b, key
<1>6. Downloads' = Downloads \ {d} /\ InWork' = {}
  <2>1. InWork' = {}
    BY DEF InWork
  <2> QED
    BY <2>1 DEF Downloads
<1>7. \A j \in Downloads' : j \in Downloads /\ j.key # key
  BY <1>6, DownloadsApart DEF VoiceInv
<1>8. \A j \in Downloads' : j.vid <= voiceTop' /\ voiceUpdates'[j.batch].pc = "wait"
                            /\ j.key \in voiceUpdates'[j.batch].pending
  <2> SUFFICES ASSUME NEW j \in Downloads'
               PROVE  j.vid <= voiceTop' /\ voiceUpdates'[j.batch].pc = "wait"
                      /\ j.key \in voiceUpdates'[j.batch].pending
    OBVIOUS
  <2>1. /\ j.vid <= voiceTop /\ voiceUpdates[j.batch].pc = "wait" /\ j.key # key
        /\ j.key \in voiceUpdates[j.batch].pending /\ j.batch \in ClipUpdates
    BY <1>1, <1>7 DEF VoiceInv, LoaderInv, ClipJobs
  <2>2. CASE j.batch = b
    <3>1. j.key \in new.pending
      BY <1>4, <2>1, <2>2
    <3> QED
      BY <1>4, <2>1, <2>2, <3>1
  <2>3. CASE j.batch # b
    BY <1>3, <2>1, <2>3
  <2> QED
    BY <2>2, <2>3
<1>9. voiceQueued' = {j.key : j \in Downloads'}
  <2>1. voiceQueued = {j.key : j \in Downloads}
    BY DEF VoiceInv, LoaderInv
  <2> QED
    BY <1>6, <1>7, <2>1
<1>10. \A c \in ClipUpdates :
          /\ \A k \in voiceUpdates'[c].pending : \E j \in Downloads' : j.key = k /\ j.batch = c
          /\ voiceUpdates'[c].pc = "wait" <=> voiceUpdates'[c].pending # {}
          /\ voiceUpdates'[c].pc \in {"wait", "told"} =>
               voiceUpdates'[c].ok + voiceUpdates'[c].fail + Cardinality(voiceUpdates'[c].pending)
                 = voiceUpdates'[c].jobs
  <2> SUFFICES ASSUME NEW c \in ClipUpdates
               PROVE  /\ \A k \in voiceUpdates'[c].pending :
                           \E j \in Downloads' : j.key = k /\ j.batch = c
                      /\ voiceUpdates'[c].pc = "wait" <=> voiceUpdates'[c].pending # {}
                      /\ voiceUpdates'[c].pc \in {"wait", "told"} =>
                           voiceUpdates'[c].ok + voiceUpdates'[c].fail
                             + Cardinality(voiceUpdates'[c].pending) = voiceUpdates'[c].jobs
    OBVIOUS
  <2>1. /\ \A k \in voiceUpdates[c].pending : \E j \in Downloads : j.key = k /\ j.batch = c
        /\ voiceUpdates[c].pc = "wait" <=> voiceUpdates[c].pending # {}
        /\ voiceUpdates[c].pc \in {"wait", "told"} =>
             voiceUpdates[c].ok + voiceUpdates[c].fail + Cardinality(voiceUpdates[c].pending)
               = voiceUpdates[c].jobs
    BY DEF VoiceInv, LoaderInv
  <2>2. CASE c # b
    <3>1. \A k \in voiceUpdates[c].pending : \E j \in Downloads' : j.key = k /\ j.batch = c
      BY <1>6, <2>1, <2>2
    <3> QED
      BY <1>3, <2>1, <2>2, <3>1
  <2>3. CASE c = b
    <3>1. \A k \in new.pending : \E j \in Downloads' : j.key = k /\ j.batch = c
      BY <1>4, <1>6, <2>1, <2>3
    <3>2. IsFiniteSet(old.pending)
      <4>1. old.pending \in SUBSET ClipKeys
        BY <1>1 DEF Reports
      <4> QED
        BY <4>1, FS_Subset, VoicesAssumed
    <3>3. Cardinality(new.pending) = Cardinality(old.pending) - 1
          /\ Cardinality(old.pending) \in Nat
      <4> HIDE DEF old, new, key, b
      <4>1. Cardinality(old.pending) \in Nat
        BY <3>2, FS_CardinalityType
      <4>2. Cardinality(old.pending \ {key}) = Cardinality(old.pending) - 1
        BY <1>1, <3>2, FS_RemoveElement
      <4> QED
        BY <1>4, <4>1, <4>2
    <3>4. old.ok + old.fail + Cardinality(old.pending) = old.jobs
      BY <1>1, <2>1, <2>3
    <3>5. /\ old.ok \in Nat /\ old.fail \in Nat /\ old.jobs \in Nat
          /\ new.ok \in Nat /\ new.fail \in Nat
      BY <1>1, <1>3 DEF Reports
    <3>6. new.ok + new.fail + Cardinality(new.pending) = new.jobs
      <4> HIDE DEF old, new
      <4>1. /\ new.ok + new.fail = old.ok + old.fail + 1 /\ new.jobs = old.jobs
            /\ Cardinality(new.pending) = Cardinality(old.pending) - 1
        BY <1>4, <3>3
      <4>2. new.ok + new.fail + (Cardinality(old.pending) - 1)
              = old.ok + old.fail + Cardinality(old.pending)
        BY <3>3, <3>5, <4>1
      <4> QED
        BY <3>4, <4>1, <4>2
    <3>7. new.pc = "wait" <=> new.pending # {}
      <4> HIDE DEF old, new
      <4> QED
        BY <1>4
    <3> QED
      BY <2>3, <3>1, <3>6, <3>7
  <2> QED
    BY <2>2, <2>3
<1> QED
  BY <1>3, <1>6, <1>8, <1>9, <1>10 DEF LoaderInv

LEMMA ClipTakeStep == VoiceInv /\ Voice!Take => VoiceInv'
<1> SUFFICES ASSUME VoiceInv, Voice!Take PROVE VoiceInv'
  OBVIOUS
<1> DEFINE h == Head(voiceQueue)
<1>1. /\ voiceWork = <<>> /\ voiceQueue # <<>> /\ voiceQueue' = Tail(voiceQueue)
      /\ UNCHANGED <<voiceTop, voiceVoices, voiceDb, voiceDbTime, voiceUploads, voiceInbox,
                     voiceFiles, voiceClips, voiceClipsTime, voiceReading>>
  BY DEF Voice!Take, Voice!store, Voice!service
<1>2. ClipStoreInv'
  BY <1>1 DEF VoiceInv, ClipStoreInv, Voice!Numbered, Voice!ClipsAreCurrent
<1>3. InWork = {} /\ Downloads = InQueue
  <2>1. InWork = {}
    BY <1>1 DEF InWork
  <2> QED
    BY <2>1 DEF Downloads
<1>4. /\ h \in InQueue /\ voiceQueue' \in Seq(ClipJobs)
      /\ \A i, j \in 1 .. Len(voiceQueue') : voiceQueue'[i].key = voiceQueue'[j].key => i = j
      /\ InQueue' = InQueue \ {h}
  BY <1>1, QueueGoesOn DEF VoiceInv
<1> HIDE DEF h
<1>5. CASE voiceWork' = <<h>> /\ UNCHANGED <<voiceUpdates, voiceQueued>>
  <2>1. InWork' = {h}
    BY <1>5 DEF InWork
  <2>2. Downloads' = Downloads
    BY <1>3, <1>4, <2>1 DEF Downloads
  <2>3. h \in ClipJobs
    BY <1>3, <1>4, DownloadsAreJobs DEF VoiceInv
  <2>4. \A i \in InQueue', j \in InWork' : i.key # j.key
    BY <1>3, <1>4, <2>1, DownloadsApart DEF VoiceInv
  <2>5. LoaderInv'
    BY <1>1, <1>4, <1>5, <2>2, <2>3, <2>4 DEF VoiceInv, LoaderInv
  <2> QED
    BY <1>2, <2>5 DEF VoiceInv
<1>6. CASE /\ voiceWork' = <<>> /\ voiceQueued' = voiceQueued \ {h.key}
           /\ Voice!Counts(h.batch, h.key, TRUE)
  <2>1. LoaderInv'
    BY <1>1, <1>3, <1>4, <1>6, DownloadOver
  <2> QED
    BY <1>2, <2>1 DEF VoiceInv
<1> QED
  BY <1>5, <1>6 DEF Voice!Take, h

LEMMA ClipDownloadedStep ==
    ASSUME VoiceInv, NEW ok \in BOOLEAN, Voice!Downloaded(ok)
    PROVE  VoiceInv'
<1> DEFINE d == voiceWork[1]
<1>1. /\ voiceWork # <<>> /\ voiceWork' = <<>>
      /\ voiceFiles' = IF ok THEN voiceFiles \cup {d.vid} ELSE voiceFiles
      /\ voiceQueued' = voiceQueued \ {d.key}
      /\ Voice!Counts(d.batch, d.key, ok)
      /\ UNCHANGED <<voiceTop, voiceVoices, voiceDb, voiceDbTime, voiceUploads, voiceInbox,
                     voiceQueue, voiceClips, voiceClipsTime, voiceReading>>
  BY DEF Voice!Downloaded, Voice!store, Voice!service
<1>2. voiceWork = <<d>> /\ InWork = {d}
  <2>1. PICK j \in ClipJobs : voiceWork = <<j>>
    BY <1>1 DEF VoiceInv, LoaderInv
  <2> QED
    BY <2>1 DEF InWork
<1>3. d \in Downloads /\ InQueue' = Downloads \ {d}
  <2>1. InQueue' = InQueue
    BY <1>1 DEF InQueue
  <2>2. d \notin InQueue
    BY <1>2 DEF VoiceInv, LoaderInv
  <2> QED
    BY <1>2, <2>1, <2>2 DEF Downloads
<1>4. d.vid \in 1 .. voiceTop
  <2>1. d \in ClipJobs /\ d.vid <= voiceTop /\ voiceTop \in Nat
    BY <1>3, DownloadsAreJobs DEF VoiceInv, LoaderInv, ClipStoreInv
  <2> QED
    BY <2>1 DEF ClipJobs
<1>5. ClipStoreInv'
  <2>1. voiceFiles' \subseteq 1 .. voiceTop
    BY <1>1, <1>4 DEF VoiceInv, ClipStoreInv
  <2> QED
    BY <1>1, <2>1 DEF VoiceInv, ClipStoreInv, Voice!Numbered, Voice!ClipsAreCurrent
<1>6. LoaderInv'
  <2>1. /\ voiceQueue' \in Seq(ClipJobs)
        /\ \A i, j \in 1 .. Len(voiceQueue') : voiceQueue'[i].key = voiceQueue'[j].key => i = j
    BY <1>1 DEF VoiceInv, LoaderInv
  <2> HIDE DEF d
  <2> QED
    BY <1>1, <1>3, <2>1, DownloadOver
<1> QED
  BY <1>5, <1>6 DEF VoiceInv

\* Jobs are put at the end of the queue.
LEMMA JobsAreQueued ==
    ASSUME LoaderInv, NEW F \in SUBSET ClipJobs, IsFiniteSet(F),
           \A i, j \in F : i.key = j.key => i = j,
           \A j \in F : j.key \notin voiceQueued,
           voiceQueue' = voiceQueue \o Voice!SetToSeq(F)
    PROVE  /\ voiceQueue' \in Seq(ClipJobs)
           /\ \A i, j \in 1 .. Len(voiceQueue') : voiceQueue'[i].key = voiceQueue'[j].key => i = j
           /\ InQueue' = InQueue \cup F
<1> DEFINE n == Len(voiceQueue)
           m == Cardinality(F)
           seq == Voice!SetToSeq(F)
<1>1. /\ m \in Nat /\ seq \in [1 .. m -> F]
      /\ \A i, j \in 1 .. m : seq[i] = seq[j] => i = j
      /\ \A x \in F : \E i \in 1 .. m : seq[i] = x
  BY SetIsListed
<1>2. /\ voiceQueue \in Seq(ClipJobs) /\ n \in Nat
      /\ \A i, j \in 1 .. n : voiceQueue[i].key = voiceQueue[j].key => i = j
      /\ \A i \in 1 .. n : voiceQueue[i] \in InQueue /\ voiceQueue[i].key \in voiceQueued
  BY DEF LoaderInv, InQueue, Downloads
<1> HIDE DEF n, m, seq
<1>3. seq \in Seq(ClipJobs) /\ Len(seq) = m
  <2>1. seq \in [1 .. m -> ClipJobs]
    BY <1>1
  <2> QED
    BY <1>1, <2>1
<1>4. /\ voiceQueue' \in Seq(ClipJobs) /\ Len(voiceQueue') = n + m
      /\ \A i \in 1 .. n : voiceQueue'[i] = voiceQueue[i]
      /\ \A i \in 1 .. m : voiceQueue'[n + i] = seq[i]
  <2>1. voiceQueue' = voiceQueue \o seq
    BY DEF seq
  <2>2. /\ voiceQueue \o seq \in Seq(ClipJobs) /\ Len(voiceQueue \o seq) = Len(voiceQueue) + Len(seq)
        /\ \A i \in 1 .. Len(voiceQueue) + Len(seq) : (voiceQueue \o seq)[i] =
             IF i <= Len(voiceQueue) THEN voiceQueue[i] ELSE seq[i - Len(voiceQueue)]
    BY <1>2, <1>3, ConcatProperties
  <2>3. \A i \in 1 .. m : n + i \in 1 .. n + m /\ ~(n + i <= n) /\ (n + i) - n = i
    BY <1>1, <1>2
  <2> QED
    BY <1>1, <1>2, <1>3, <2>1, <2>2, <2>3 DEF n
<1>5. \A i \in 1 .. n + m : i \in 1 .. n \/ (i - n \in 1 .. m /\ n + (i - n) = i)
  BY <1>1, <1>2
<1>6. ASSUME NEW i \in 1 .. n + m, NEW j \in 1 .. n + m, voiceQueue'[i].key = voiceQueue'[j].key
      PROVE  i = j
  <2>1. CASE i \in 1 .. n /\ j \in 1 .. n
    BY <1>2, <1>4, <1>6, <2>1
  <2>2. CASE i - n \in 1 .. m /\ j - n \in 1 .. m
    <3>1. seq[i - n] = seq[j - n]
      <4>1. n + (i - n) = i /\ n + (j - n) = j
        BY <1>2
      <4>2. voiceQueue'[n + (i - n)] = seq[i - n] /\ voiceQueue'[n + (j - n)] = seq[j - n]
        BY <1>4, <2>2
      <4>3. seq[i - n] \in F /\ seq[j - n] \in F
        BY <1>1, <2>2
      <4> QED
        BY <1>6, <4>1, <4>2, <4>3
    <3>2. i - n = j - n
      BY <1>1, <2>2, <3>1
    <3> QED
      BY <1>2, <3>2
  <2>3. \A k, l \in 1 .. n + m : k \in 1 .. n /\ l - n \in 1 .. m =>
            voiceQueue'[k].key # voiceQueue'[l].key
    <3> SUFFICES ASSUME NEW k \in 1 .. n, NEW l \in 1 .. n + m, l - n \in 1 .. m
                 PROVE  voiceQueue'[k].key # voiceQueue'[l].key
      OBVIOUS
    <3>1. voiceQueue'[l] = seq[l - n] /\ voiceQueue'[k] = voiceQueue[k]
      <4>1. n + (l - n) = l
        BY <1>2
      <4>2. voiceQueue'[n + (l - n)] = seq[l - n]
        BY <1>4
      <4>3. voiceQueue'[k] = voiceQueue[k]
        BY <1>4
      <4> QED
        BY <4>1, <4>2, <4>3
    <3>2. seq[l - n] \in F
      BY <1>1
    <3> QED
      BY <1>2, <3>1, <3>2
  <2> QED
    BY <1>5, <1>6, <2>1, <2>2, <2>3
<1>7. InQueue' = InQueue \cup F
  <2>1. InQueue' = {voiceQueue'[i] : i \in 1 .. n + m} /\ InQueue = {voiceQueue[i] : i \in 1 .. n}
    BY <1>4 DEF InQueue, n
  <2>2. ASSUME NEW x \in InQueue' PROVE x \in InQueue \cup F
    <3>1. PICK i \in 1 .. n + m : x = voiceQueue'[i]
      BY <2>1
    <3>2. CASE i \in 1 .. n
      BY <1>2, <1>4, <3>1, <3>2
    <3>3. CASE i - n \in 1 .. m /\ n + (i - n) = i
      <4>1. x = seq[i - n]
        BY <1>4, <3>1, <3>3
      <4> QED
        BY <1>1, <3>3, <4>1
    <3> QED
      BY <1>5, <3>2, <3>3
  <2>3. ASSUME NEW x \in InQueue PROVE x \in InQueue'
    <3>1. PICK i \in 1 .. n : x = voiceQueue[i]
      BY <2>1
    <3>2. i \in 1 .. n + m /\ voiceQueue'[i] = x
      BY <1>1, <1>2, <1>4, <3>1
    <3> QED
      BY <2>1, <3>2
  <2>4. ASSUME NEW x \in F PROVE x \in InQueue'
    <3>1. PICK i \in 1 .. m : x = seq[i]
      BY <1>1
    <3>2. n + i \in 1 .. n + m /\ voiceQueue'[n + i] = x
      BY <1>1, <1>2, <1>4, <3>1
    <3> QED
      BY <2>1, <3>2
  <2> QED
    BY <2>2, <2>3, <2>4
<1>8. \A i, j \in 1 .. Len(voiceQueue') : voiceQueue'[i].key = voiceQueue'[j].key => i = j
  BY <1>4, <1>6
<1> QED
  BY <1>4, <1>7, <1>8

LEMMA ClipCollectStep ==
    ASSUME VoiceInv, NEW b \in ClipUpdates, Voice!Collected(b)
    PROVE  VoiceInv'
<1> DEFINE S == {k \in ClipKeys : ~Voice!HasKey(voiceVoices, k)
                                  /\ ~Voice!HasTag(voiceVoices, ClipText[k])}
           n == Cardinality(S)
           U == Voice!Unknown
           clips == [i \in DOMAIN U |-> [tag |-> ClipText[U[i]], key |-> U[i]]]
           missing == {v \in DOMAIN voiceVoices' :
                         voiceVoices'[v].key # NoClipKey /\ v \notin voiceFiles}
           jobs == {[vid |-> v, key |-> voiceVoices'[v].key, batch |-> b] : v \in missing}
           fresh == {j \in jobs : j.key \notin voiceQueued}
           mine == {j.key : j \in fresh}
           pc1 == IF mine = {} THEN "over" ELSE "wait"
           jobs1 == Voice!Cardinality(mine)
           report == [Voice!NewUpdate EXCEPT !.pc = pc1, !.pending = mine, !.jobs = jobs1]
<1>1. /\ voiceUpdates[b].pc = "collect"
      /\ Voice!Add(clips) /\ Voice!Saves
      /\ voiceQueue' = voiceQueue \o Voice!SetToSeq(fresh)
      /\ voiceQueued' = voiceQueued \cup {j.key : j \in jobs}
      /\ voiceUpdates' = [voiceUpdates EXCEPT ![b] = report]
      /\ UNCHANGED <<voiceUploads, voiceWork, voiceInbox, voiceFiles, voiceClips,
                     voiceClipsTime, voiceReading>>
  <2>1. Voice!QueuedFor(jobs) = mine
    BY DEF Voice!QueuedFor
  <2> HIDE DEF clips
  <2>2. Voice!Add(clips)
    BY DEF Voice!Collected, clips
  <2> QED
    BY <2>1, <2>2 DEF Voice!Collected, Voice!service, mine, report
<1>2. U = Voice!SetToSeq(S)
  BY DEF Voice!Unknown
<1> HIDE DEF U
<1>3. IsFiniteSet(S)
  <2>1. S \in SUBSET ClipKeys
    OBVIOUS
  <2> HIDE DEF S
  <2> QED
    BY <2>1, FS_Subset, VoicesAssumed
<1>4. /\ n \in Nat /\ U \in [1 .. n -> S]
      /\ \A i, j \in 1 .. n : U[i] = U[j] => i = j
  <2> HIDE DEF S
  <2> QED
    BY <1>2, <1>3, SetIsListed
<1>5. \A k \in S : /\ k \in ClipKeys /\ ClipText[k] \in ClipTexts
                   /\ \A v \in DOMAIN voiceVoices : voiceVoices[v].key # k
  BY VoicesAssumed DEF Voice!HasKey
<1> HIDE DEF S, n
<1>6. /\ clips \in [1 .. n -> KnownClips] /\ \A i \in 1 .. n : clips[i].key = U[i]
  BY <1>4, <1>5 DEF KnownClips
<1> HIDE DEF clips
<1>7. /\ \A i, j \in 1 .. n : clips[i].key = clips[j].key /\ clips[i].key # NoClipKey => i = j
      /\ \A i \in 1 .. n, v \in DOMAIN voiceVoices :
           clips[i].key # NoClipKey => voiceVoices[v].key # clips[i].key
  BY <1>4, <1>5, <1>6
<1>8. /\ voiceTop' = voiceTop + n /\ voiceTop' \in 0 .. LastVid
      /\ voiceDbTime' \in Nat /\ voiceDbTime <= voiceDbTime'
      /\ voiceDbTime' = voiceDbTime => voiceVoices' = voiceVoices
      /\ voiceVoices' \in [DOMAIN voiceVoices' -> KnownClips]
      /\ DOMAIN voiceVoices' \subseteq 1 .. voiceTop'
      /\ voiceDb' = [top |-> voiceTop', voices |-> voiceVoices']
      /\ \A v, w \in DOMAIN voiceVoices' :
           voiceVoices'[v].key = voiceVoices'[w].key /\ voiceVoices'[v].key # NoClipKey
             => v = w
  BY <1>1, <1>4, <1>6, <1>7, ClipsAdded DEF VoiceInv
<1>9. voiceTop \in Nat /\ voiceTop <= voiceTop'
  BY <1>4, <1>8 DEF VoiceInv, ClipStoreInv
<1>10. ClipStoreInv'
  <2>1. voiceFiles' \subseteq 1 .. voiceTop' /\ voiceUploads' \in [ClipUsers -> SUBSET ClipTexts]
        /\ voiceInbox' \subseteq ClipInbox
    BY <1>1, <1>8, <1>9 DEF VoiceInv, ClipStoreInv
  <2> QED
    BY <1>1, <1>8, <1>9, <2>1, ClipStoreGrows DEF VoiceInv
\* The jobs: their clips are new, or lost their files, and have keys of their own.
<1>11. \A j \in jobs : /\ j \in ClipJobs /\ j.vid <= voiceTop' /\ j.batch = b
                       /\ j.vid \in DOMAIN voiceVoices' /\ j.key = voiceVoices'[j.vid].key
                       /\ j.key # NoClipKey
                       /\ j = [vid |-> j.vid, key |-> j.key, batch |-> b]
  <2> SUFFICES ASSUME NEW v \in missing
               PROVE  /\ [vid |-> v, key |-> voiceVoices'[v].key, batch |-> b] \in ClipJobs
                      /\ v <= voiceTop' /\ v \in DOMAIN voiceVoices'
                      /\ voiceVoices'[v].key # NoClipKey
    OBVIOUS
  <2>1. v \in 1 .. voiceTop' /\ voiceVoices'[v] \in KnownClips
        /\ voiceVoices'[v].key # NoClipKey /\ v \in DOMAIN voiceVoices'
    BY <1>8
  <2>2. voiceTop' \in Nat
    BY <1>8
  <2> QED
    BY <2>1, <2>2 DEF KnownClips, ClipJobs
<1> HIDE DEF jobs
<1>12. \A i, j \in fresh : i.key = j.key => i = j
  <2> SUFFICES ASSUME NEW i \in fresh, NEW j \in fresh, i.key = j.key PROVE i = j
    OBVIOUS
  <2>1. i \in jobs /\ j \in jobs
    OBVIOUS
  <2>2. i.vid = j.vid
    BY <1>8, <1>11, <2>1
  <2>3. i = [vid |-> i.vid, key |-> i.key, batch |-> b] /\ j = [vid |-> j.vid, key |-> j.key, batch |-> b]
    BY <1>11, <2>1
  <2> QED
    BY <2>2, <2>3
<1>13. fresh \in SUBSET ClipJobs /\ \A j \in fresh : j.key \notin voiceQueued /\ j \in jobs
  BY <1>11
<1>14. voiceQueued' = voiceQueued \cup mine
  BY <1>1
<1> HIDE DEF fresh
<1>15. IsFiniteSet(fresh) /\ IsFiniteSet(mine)
  <2> DEFINE f == [j \in fresh |-> j.vid]
  <2>1. f \in Injection(fresh, 1 .. voiceTop')
    <3>1. f \in [fresh -> 1 .. voiceTop']
      BY <1>8, <1>11, <1>13 DEF ClipJobs
    <3>2. \A i, j \in fresh : f[i] = f[j] => i = j
      <4> SUFFICES ASSUME NEW i \in fresh, NEW j \in fresh, i.vid = j.vid PROVE i = j
        OBVIOUS
      <4>1. i.key = j.key
        BY <1>11, <1>13
      <4> QED
        BY <1>12, <4>1
    <3> QED
      BY <3>1, <3>2 DEF Injection, IsInjective
  <2>2. IsFiniteSet(1 .. voiceTop')
    BY <1>8, FS_Interval
  <2> HIDE DEF f
  <2>3. IsFiniteSet(fresh)
    BY <2>1, <2>2, FS_Injection
  <2>4. mine \in SUBSET ClipKeys
    BY <1>13 DEF ClipJobs
  <2>5. IsFiniteSet(mine)
    <3> HIDE DEF mine
    <3> QED
      BY <2>4, FS_Subset, VoicesAssumed
  <2> QED
    BY <2>3, <2>5
<1>16. /\ voiceQueue' \in Seq(ClipJobs)
       /\ \A i, j \in 1 .. Len(voiceQueue') : voiceQueue'[i].key = voiceQueue'[j].key => i = j
       /\ InQueue' = InQueue \cup fresh
  BY <1>1, <1>12, <1>13, <1>15, JobsAreQueued DEF VoiceInv
<1>17. InWork' = InWork /\ Downloads' = Downloads \cup fresh
  BY <1>1, <1>16 DEF InWork, Downloads
<1>18. \A i \in InQueue', j \in InWork' : i.key # j.key
  BY <1>13, <1>16, <1>17 DEF VoiceInv, LoaderInv, Downloads
<1>19. voiceQueued' = {j.key : j \in Downloads'}
  BY <1>14, <1>17 DEF VoiceInv, LoaderInv
<1>20. /\ report \in Reports
       /\ report.pending = mine /\ (report.pc = "wait" <=> mine # {})
       /\ report.pc # "told"
       /\ report.ok + report.fail + Cardinality(report.pending) = report.jobs
  <2>1. mine \in SUBSET ClipKeys /\ Cardinality(mine) \in Nat
    BY <1>13, <1>15, FS_CardinalityType DEF ClipJobs
  <2>2. /\ jobs1 = Cardinality(mine) /\ pc1 \in {"over", "wait"}
        /\ pc1 = "wait" <=> mine # {}
    <3> HIDE DEF mine
    <3> QED
      BY VoicesCount
  <2> HIDE DEF mine, pc1, jobs1
  <2>3. Voice!NewUpdate = [pc |-> "new", pending |-> {}, ok |-> 0, fail |-> 0, jobs |-> 0]
    BY DEF Voice!NewUpdate
  <2>4. Voice!NewUpdate \in Reports /\ Voice!NewUpdate.ok = 0 /\ Voice!NewUpdate.fail = 0
    BY <2>3 DEF Reports
  <2>5. report \in Reports
    BY <2>1, <2>2, <2>4 DEF Reports
  <2>6. /\ report.pc = pc1 /\ report.pending = mine /\ report.jobs = jobs1
        /\ report.ok = 0 /\ report.fail = 0
    BY <2>4 DEF Reports
  <2> HIDE DEF report
  <2> QED
    BY <2>1, <2>2, <2>5, <2>6
<1>21. /\ voiceUpdates' \in [ClipUpdates -> Reports] /\ voiceUpdates'[b] = report
       /\ \A c \in ClipUpdates : c # b => voiceUpdates'[c] = voiceUpdates[c]
  <2> HIDE DEF report
  <2> QED
    BY <1>1, <1>20 DEF VoiceInv, LoaderInv
<1>22. \A j \in Downloads' : j.vid <= voiceTop' /\ voiceUpdates'[j.batch].pc = "wait"
                             /\ j.key \in voiceUpdates'[j.batch].pending
  <2> SUFFICES ASSUME NEW j \in Downloads'
               PROVE  j.vid <= voiceTop' /\ voiceUpdates'[j.batch].pc = "wait"
                      /\ j.key \in voiceUpdates'[j.batch].pending
    OBVIOUS
  <2>1. CASE j \in fresh
    <3>1. j.key \in mine /\ j.batch = b /\ j.vid <= voiceTop'
      BY <1>11, <1>13, <2>1
    <3> HIDE DEF mine, report
    <3> QED
      BY <1>20, <1>21, <3>1
  <2>2. CASE j \in Downloads
    <3>1. /\ j.vid <= voiceTop /\ voiceUpdates[j.batch].pc = "wait" /\ j.vid \in Nat
          /\ j.key \in voiceUpdates[j.batch].pending /\ j.batch \in ClipUpdates
      BY <2>2, DownloadsAreJobs DEF VoiceInv, LoaderInv, ClipJobs
    <3>2. j.batch # b
      BY <1>1, <3>1
    <3> QED
      BY <1>8, <1>9, <1>21, <3>1, <3>2
  <2> QED
    BY <1>17, <2>1, <2>2
<1>23. \A c \in ClipUpdates :
          /\ \A k \in voiceUpdates'[c].pending : \E j \in Downloads' : j.key = k /\ j.batch = c
          /\ voiceUpdates'[c].pc = "wait" <=> voiceUpdates'[c].pending # {}
          /\ voiceUpdates'[c].pc \in {"wait", "told"} =>
               voiceUpdates'[c].ok + voiceUpdates'[c].fail + Cardinality(voiceUpdates'[c].pending)
                 = voiceUpdates'[c].jobs
  <2> SUFFICES ASSUME NEW c \in ClipUpdates
               PROVE  /\ \A k \in voiceUpdates'[c].pending :
                           \E j \in Downloads' : j.key = k /\ j.batch = c
                      /\ voiceUpdates'[c].pc = "wait" <=> voiceUpdates'[c].pending # {}
                      /\ voiceUpdates'[c].pc \in {"wait", "told"} =>
                           voiceUpdates'[c].ok + voiceUpdates'[c].fail
                             + Cardinality(voiceUpdates'[c].pending) = voiceUpdates'[c].jobs
    OBVIOUS
  <2>1. CASE c = b
    <3>1. \A k \in mine : \E j \in Downloads' : j.key = k /\ j.batch = c
      BY <1>11, <1>13, <1>17, <2>1
    <3> HIDE DEF mine, report
    <3> QED
      BY <1>20, <1>21, <2>1, <3>1
  <2>2. CASE c # b
    BY <1>17, <1>21, <2>2 DEF VoiceInv, LoaderInv
  <2> QED
    BY <2>1, <2>2
<1>24. LoaderInv'
  <2>1. voiceWork' = <<>> \/ \E j \in ClipJobs : voiceWork' = <<j>>
    BY <1>1 DEF VoiceInv, LoaderInv
  <2> QED
    BY <1>16, <1>18, <1>19, <1>21, <1>22, <1>23, <2>1 DEF LoaderInv
<1> QED
  BY <1>10, <1>24 DEF VoiceInv

LEMMA VoiceSteps == VoiceInv /\ [Voice!Next]_voiceVars => VoiceInv'
<1> SUFFICES ASSUME VoiceInv, [Voice!Next]_voiceVars PROVE VoiceInv'
  OBVIOUS
<1>1. CASE UNCHANGED voiceVars
  BY <1>1 DEF voiceVars, VoiceInv, ClipStoreInv, LoaderInv, Downloads, InQueue, InWork,
     Voice!Numbered, Voice!ClipsAreCurrent
<1>2. CASE Voice!Next
  BY <1>2, ClipUploadSteps, ClipChangeSteps, ClipScanStep, ClipCollectStep, ClipOtherSteps,
     ClipTakeStep, ClipDownloadedStep, ClipRestartStep DEF Voice!Next
<1> QED
  BY <1>1, <1>2

\* What waits or runs, as the module of the clips puts it.
LEMMA DownloadsInLine ==
    ASSUME LoaderInv
    PROVE  /\ Voice!ToSet(voiceQueue \o voiceWork) = Downloads
           /\ \A i, j \in DOMAIN (voiceQueue \o voiceWork) :
                (voiceQueue \o voiceWork)[i].key = (voiceQueue \o voiceWork)[j].key => i = j
<1> DEFINE all == voiceQueue \o voiceWork
           n == Len(voiceQueue)
<1>1. voiceQueue \in Seq(ClipJobs) /\ n \in Nat
  BY DEF LoaderInv
<1>2. voiceWork \in Seq(ClipJobs) /\ Len(voiceWork) \in {0, 1}
  <2>1. CASE voiceWork = <<>>
    BY <2>1
  <2>2. CASE \E j \in ClipJobs : voiceWork = <<j>>
    BY <2>2
  <2> QED
    BY <2>1, <2>2 DEF LoaderInv
<1>3. /\ all \in Seq(ClipJobs) /\ Len(all) = n + Len(voiceWork)
      /\ \A i \in 1 .. n : all[i] = voiceQueue[i]
      /\ \A i \in 1 .. Len(voiceWork) : all[n + i] = voiceWork[i]
  BY <1>1, <1>2
<1>4. DOMAIN all = 1 .. n + Len(voiceWork)
  BY <1>3
<1> HIDE DEF all, n
<1>5. \A i \in DOMAIN all :
        \/ i \in 1 .. n /\ all[i] = voiceQueue[i] /\ all[i] \in InQueue
        \/ i = n + 1 /\ Len(voiceWork) = 1 /\ all[i] = voiceWork[1] /\ all[i] \in InWork
  BY <1>1, <1>2, <1>3, <1>4 DEF InQueue, InWork, n
<1>6. Voice!ToSet(all) = Downloads
  <2>1. \A x \in Voice!ToSet(all) : x \in Downloads
    BY <1>5 DEF Voice!ToSet, Downloads
  <2>2. \A i \in 1 .. n : i \in DOMAIN all /\ voiceQueue[i] = all[i]
    BY <1>1, <1>2, <1>3, <1>4
  <2>3. \A i \in 1 .. Len(voiceWork) : n + i \in DOMAIN all /\ voiceWork[i] = all[n + i]
    BY <1>1, <1>2, <1>3, <1>4
  <2>4. ASSUME NEW x \in InQueue PROVE x \in Voice!ToSet(all)
    <3>1. PICK i \in 1 .. n : x = voiceQueue[i]
      BY DEF InQueue, n
    <3> QED
      BY <2>2, <3>1 DEF Voice!ToSet
  <2>5. ASSUME NEW x \in InWork PROVE x \in Voice!ToSet(all)
    <3>1. PICK i \in 1 .. Len(voiceWork) : x = voiceWork[i]
      BY DEF InWork
    <3> QED
      BY <2>3, <3>1 DEF Voice!ToSet
  <2> QED
    BY <2>1, <2>4, <2>5 DEF Downloads
<1>7. ASSUME NEW i \in DOMAIN all, NEW j \in DOMAIN all, all[i].key = all[j].key
      PROVE  i = j
  <2>1. \A x \in InQueue, y \in InWork : x.key # y.key
    BY DEF LoaderInv
  <2>2. \A k, l \in 1 .. n : voiceQueue[k].key = voiceQueue[l].key => k = l
    BY DEF LoaderInv, n
  <2> QED
    BY <1>5, <1>7, <2>1, <2>2
<1> QED
  BY <1>6, <1>7 DEF all

LEMMA VoiceHolds ==
    VoiceInv => /\ Voice!TypeOK /\ Voice!QueuedIsWaiting /\ Voice!OneClipPerKey
                /\ Voice!ClipsAreCurrent /\ Voice!ReportAddsUp
<1> SUFFICES ASSUME VoiceInv
             PROVE  /\ Voice!TypeOK /\ Voice!QueuedIsWaiting /\ Voice!OneClipPerKey
                    /\ Voice!ClipsAreCurrent /\ Voice!ReportAddsUp
  OBVIOUS
<1> USE DEF VoiceInv
<1>1. LastVid \in Nat /\ voiceTop \in 0 .. LastVid
  BY VoicesAssumed DEF ClipStoreInv
<1>2. Voice!ToSet(voiceQueue \o voiceWork) = Downloads
  BY DownloadsInLine
<1>3. Downloads \subseteq ClipJobs /\ voiceQueued = {j.key : j \in Downloads}
  BY DownloadsAreJobs DEF LoaderInv
<1>4. Voice!TypeOK
  <2>1. Voice!Numbered(voiceVoices) /\ \A v \in DOMAIN voiceVoices : v <= voiceTop
    BY <1>1 DEF ClipStoreInv, Voice!Numbered, Voice!Vids, KnownClips
  <2>2. Voice!Numbered(voiceDb.voices)
    BY <2>1 DEF ClipStoreInv
  <2>3. \A j \in Downloads : j.vid <= voiceTop /\ j.key \in voiceQueued /\ j.batch \in ClipUpdates
    BY <1>3 DEF LoaderInv, ClipJobs
  <2>4. \A b \in ClipUpdates : voiceUpdates[b].pending \subseteq ClipKeys
    BY DEF LoaderInv, Reports
  <2> QED
    BY <1>1, <1>2, <2>1, <2>2, <2>3, <2>4 DEF Voice!TypeOK, ClipStoreInv
<1>5. Voice!QueuedIsWaiting
  BY <1>2, <1>3 DEF Voice!QueuedIsWaiting
<1>6. Voice!OneClipPerKey /\ Voice!ClipsAreCurrent
  BY DownloadsInLine DEF ClipStoreInv, Voice!OneClipPerKey
<1>7. Voice!ReportAddsUp
  <2> SUFFICES ASSUME NEW b \in ClipUpdates
               PROVE  /\ voiceUpdates[b].pc = "told" => voiceUpdates[b].pending = {}
                      /\ voiceUpdates[b].pc \in {"wait", "told"} =>
                           voiceUpdates[b].ok + voiceUpdates[b].fail
                             + Cardinality(voiceUpdates[b].pending) = voiceUpdates[b].jobs
                      /\ voiceUpdates[b].pc = "wait" =>
                           voiceUpdates[b].pending \cap voiceQueued # {}
    BY VoicesCount DEF Voice!ReportAddsUp
  <2>1. \A k \in voiceUpdates[b].pending : k \in voiceQueued
    BY <1>3 DEF LoaderInv
  <2> QED
    BY <2>1 DEF LoaderInv
<1> QED
  BY <1>4, <1>5, <1>6, <1>7

\* The number of a sticker or of a clip means what it was given for, and the downloads of
\* clips and the reports on them add up (NumbersKeepTheirMeaning), whatever the number of
\* commands, pictures, clips and restarts: Save gives a sid only after the file's top is
\* written, and _enqueue_pjsk_download takes no clip whose key is queued.
THEOREM NumbersAlwaysKept == SceneSpec => []NumbersKeepTheirMeaning
<1> DEFINE Inv == /\ scene = "Sticker" => StickerInv
                  /\ scene = "Voice" => VoiceInv
<1>1. SceneInit => Inv
  BY StickersBegin, VoicesBegin DEF SceneInit
<1>2. Inv /\ [SceneNext]_sceneVars => Inv'
  <2> SUFFICES ASSUME Inv, [SceneNext]_sceneVars PROVE Inv'
    OBVIOUS
  <2>1. /\ scene' = scene
        /\ scene = "Sticker" => [Sticker!Next]_stkVars
        /\ scene = "Voice" => [Voice!Next]_voiceVars
    BY DEF SceneNext, sceneVars
  <2> QED
    BY <2>1, StickerSteps, VoiceSteps
<1>3. Inv => NumbersKeepTheirMeaning
  BY StickerHolds, VoiceHolds DEF NumbersKeepTheirMeaning
<1> QED
  BY <1>1, <1>2, <1>3, PTL DEF SceneSpec

==============================================================================
