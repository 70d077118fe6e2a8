------------------------------- MODULE MCWork --------------------------------
(***************************************************************************)
(* What runs in the background, checked with liveness: the drawing of      *)
(* widgets and of text, the cache of pictures and its hash, the assets of  *)
(* the game, the record of messages, and the jobs.                         *)
(***************************************************************************)
EXTENDS SampleInputs

\* Values to hash: a text that reads like an integer has its rank among the items of a set.
Value(kind, data, holds, rank) == [kind |-> kind, data |-> data, holds |-> holds, rank |-> rank]
Atom(kind, data, rank) == Value(kind, data, <<>>, rank)
Str(s, rank) == Atom("str", s, rank)
Whole(i) == Atom("int", <<i>>, IF i < 0 THEN 0 ELSE i)
Items == {Whole(-1), Whole(1), Whole(3), Str(<<"a">>, 7), Str(<<"1">>, 1)}
Atoms == Items \cup
    {Whole(-6), Whole(6), Atom("none", <<>>, 9), Str(<<>>, 0), Atom("bool", <<1>>, 8),
     Atom("float", <<1>>, 1), Atom("bytes", <<"a">>, 5), Str(<<"a", "S">>, 8),
     Atom("image", <<2, "a", "b">>, 9), Atom("array", <<2, "a", "b">>, 9)}
Strs == {Str(<<"a">>, 7), Str(<<"a", "S">>, 8), Str(<<"S", "a">>, 9)}
Lists == {Value(k, <<>>, h, 10) : k \in {"list", "tuple"}, h \in Of({Whole(-1), Whole(1)} \cup Strs, 0, 2)}
Sets == {Value("set", <<>>, h, 10) : h \in {s \in Of(Items, 0, 2) : Len(s) < 2 \/ s[1] # s[2]}}
Name(s) == Str(<<s>>, IF s = "a" THEN 7 ELSE 9)
Held == {Whole(1), Str(<<"a">>, 7)}
Entries(S) == {<<>>} \cup {<<k, v>> : k \in S, v \in Held} \cup
    {<<k, v, l, w>> : k \in S, l \in S, v \in Held, w \in Held}
Distinct(h) == Len(h) < 4 \/ h[1] # h[3]
Dicts == {Value("dict", <<>>, h, 10) :
    h \in {e \in Entries({Name("a"), Name("b"), Whole(1)}) : Distinct(e) /\ (Len(e) < 4 \/ e[2] = Whole(1))}}
Objects == {Value("object", <<"c">>, h, 10) : h \in {e \in Entries({Name("a"), Name("_")}) : Distinct(e)}}
Iterables == {Value("iterable", <<"c">>, h, 10) : h \in {<<>>, <<Whole(1)>>, <<Name("b"), Whole(1)>>}}
Parts == Iterables \cup {Value("object", <<"c">>, h, 10) :
    h \in {<<Name("a"), Whole(1)>>, <<Name("a"), Whole(1), Name("b"), Whole(1)>>}}
Wholes == {Value("object", <<"c">>, <<Name("a"), p>> \o rest, 11) :
    p \in Parts, rest \in {<<>>, <<Name("b"), Whole(1)>>}}
Records == {Value("record", <<"c">>, <<Name("a"), v>>, 10) : v \in Held}
Nested == {Value("list", <<>>, <<v, w>>, 11) :
    v \in {l \in Lists \cup Objects : Len(l.holds) < (IF l.kind = "object" THEN 4 ELSE 2)}, w \in Held}
Values ==
    Atoms \cup Lists \cup Sets \cup Dicts \cup Objects \cup Parts \cup Wholes \cup Records \cup Nested

VARIABLES
    scene,          \* the instance that runs; the variables of the others stand still
    layWidget, layStep, layRegion, layOuter, layAt, layCells, layRects,
    txtText, txtWidth, txtCount, txtWrap, txtShrink, txtTodo, txtLine, txtPc, txtShown,
    hashValue, hashOther, hashFed, hashOtherFed,
    picAt, picKey, picContent, picGot, picFile, picPool, picRivals, picFaults,
    ripNow, ripSince, ripVersion, ripCall, ripFile, ripMemory, ripFaults,
    recSeen, recTask, recTell, recTold, recPending, recBatch, recConn, recOpened,
    recTables, recCaller, recOpen, recStored, recRecorded, recDropped, recFaults,
    jobNow, jobScheduler, jobAt, jobWake, jobNext, jobFirst, jobRuns, jobTasks

layVars == <<layWidget, layStep, layRegion, layOuter, layAt, layCells, layRects>>
Layout == INSTANCE Layout WITH
    Widgets <- Widgets, Short <- ShortProducts, widget <- layWidget, step <- layStep, region <- layRegion,
    outer <- layOuter, at <- layAt, cells <- layCells, rects <- layRects

txtVars == <<
    txtText, txtWidth, txtCount, txtWrap, txtShrink, txtTodo, txtLine, txtPc, txtShown>>
Text == INSTANCE TextLines WITH
    Texts <- Texts, Widths <- {1, 3, 4}, Counts <- 1..3, SuffixWidth <- 3,
    MaxShown <- 6, text <- txtText, width <- txtWidth, count <- txtCount,
    wrap <- txtWrap, shrink <- txtShrink, todo <- txtTodo, line <- txtLine,
    pc <- txtPc, shown <- txtShown

hashVars == <<hashValue, hashOther, hashFed, hashOtherFed>>
Hash == INSTANCE PictureHash WITH
    Values <- Values, Word <- 4, value <- hashValue, other <- hashOther,
    fed <- hashFed, otherFed <- hashOtherFed

picVars == <<
    picAt, picKey, picContent, picGot, picFile, picPool, picRivals, picFaults>>
Picture == INSTANCE PictureCache WITH
    Gets <- {"g1", "g2"}, Keys <- {"k1"}, NoKey <- "none", Contents <- {"c1", "c2"},
    MaxFaults <- 2, at <- picAt, key <- picKey, content <- picContent, got <- picGot,
    file <- picFile, pool <- picPool, rivals <- picRivals, faults <- picFaults

ripVars == <<
    ripNow, ripSince, ripVersion, ripCall, ripFile, ripMemory, ripFaults>>
Asset == INSTANCE RipAssets WITH
    Calls <- {"c1", "c2"}, Requests <- Requests, Sources <- 2, Expire <- 1,
    Timeout <- 1, MaxTime <- 2, MaxVersion <- 2, MaxFaults <- 1, now <- ripNow,
    since <- ripSince, version <- ripVersion, call <- ripCall, file <- ripFile,
    memory <- ripMemory, faults <- ripFaults

recVars == <<
    recSeen, recTask, recTell, recTold, recPending, recBatch, recConn, recOpened,
    recTables, recCaller, recOpen, recStored, recRecorded, recDropped, recFaults>>
Record == INSTANCE RecordStore WITH
    Messages <- {"m1", "p"}, Reports <- RecordReportsFew, GroupOf <- RecordGroups,
    NoGroup <- "private", Excluded <- {}, Masters <- <<"u1">>, Queries <- {"q"},
    Asked <- RecordAsks, MaxFaults <- 1, seen <- recSeen, task <- recTask,
    tell <- recTell, told <- recTold, pending <- recPending, batch <- recBatch,
    conn <- recConn, opened <- recOpened, tables <- recTables, caller <- recCaller,
    open <- recOpen, stored <- recStored, recorded <- recRecorded,
    dropped <- recDropped, faults <- recFaults

jobVars == <<
    jobNow, jobScheduler, jobAt, jobWake, jobNext, jobFirst, jobRuns, jobTasks>>
Job == INSTANCE Repeats WITH
    Repeating <- {"r1"}, Once <- {"o1"}, Interval <- 2, MaxDelay <- 1, MaxTime <- 6,
    now <- jobNow, scheduler <- jobScheduler, at <- jobAt, wake <- jobWake,
    next <- jobNext, first <- jobFirst, runs <- jobRuns, tasks <- jobTasks

ASSUME InstancesAreSound ==
    /\ Text!TextAssumption
    /\ Picture!PictureCacheAssumption
    /\ Asset!RipAssumption
    /\ Record!RecordAssumption
    /\ Job!RepeatsAssumption

Scenes == {"Layout", "Text", "Hash", "Picture", "Asset", "Record", "Job"}
SceneInit ==
    /\ scene \in Scenes
    /\ scene # "Layout" => layWidget = CHOOSE w \in UNION Widgets : TRUE
    /\ scene # "Text" =>
         txtText = <<<<>>>> /\ txtWidth = 1 /\ txtCount = 1 /\ txtWrap = FALSE /\ txtShrink = FALSE
    /\ scene # "Hash" => hashValue = Whole(1) /\ hashOther = Whole(1)
    /\ Layout!Init
    /\ Text!Init
    /\ Hash!Init
    /\ Picture!Init
    /\ Asset!Init
    /\ Record!Init
    /\ Job!Init
SceneNext ==
    \/ scene = "Layout" /\ Layout!Next /\ UNCHANGED <<scene, txtVars, hashVars, picVars, ripVars, recVars, jobVars>>
    \/ scene = "Text" /\ Text!Next /\ UNCHANGED <<scene, layVars, hashVars, picVars, ripVars, recVars, jobVars>>
    \/ scene = "Hash" /\ Hash!Next /\ UNCHANGED <<scene, layVars, txtVars, picVars, ripVars, recVars, jobVars>>
    \/ scene = "Picture" /\ Picture!Next /\ UNCHANGED <<scene, layVars, txtVars, hashVars, ripVars, recVars, jobVars>>
    \/ scene = "Asset" /\ Asset!Next /\ UNCHANGED <<scene, layVars, txtVars, hashVars, picVars, recVars, jobVars>>
    \/ scene = "Record" /\ Record!Next /\ UNCHANGED <<scene, layVars, txtVars, hashVars, picVars, ripVars, jobVars>>
    \/ scene = "Job" /\ Job!Next /\ UNCHANGED <<scene, layVars, txtVars, hashVars, picVars, ripVars, recVars>>
sceneVars == <<scene, layVars, txtVars, hashVars, picVars, ripVars, recVars, jobVars>>

\* Nothing else is fair in an instance that stands still.
In(s, A) == scene = s /\ A
SceneFairness ==
    /\ \A g \in {"g1", "g2"} : WF_picVars(In("Picture", Picture!Works(g)))
    /\ \A c \in {"c1", "c2"} :
         /\ WF_ripVars(In("Asset", Asset!SourceFails(c) \/ Asset!Downloaded(c)))
         /\ WF_ripVars(In("Asset", Asset!Return(c)))
    /\ \A r \in RecordReportsFew : WF_recVars(In("Record", Record!Hooks(r)))
    /\ WF_recVars(In("Record", Record!TakeBatch))
    /\ WF_recVars(In("Record", Record!Database(Record!Job)))
    /\ WF_recVars(In("Record", Record!LockedOut(Record!Job) /\ Record!Fails(Record!Job)))
    /\ WF_jobVars(In("Job", Job!StartScheduler)) /\ WF_jobVars(In("Job", Job!Tick))
    /\ \A j \in {"r1", "o1"} :
         /\ WF_jobVars(In("Job", Job!Begin(j))) /\ WF_jobVars(In("Job", Job!Run(j)))
         /\ WF_jobVars(In("Job", Job!RunEnds(j)))

SceneSpec == SceneInit /\ [][SceneNext]_sceneVars /\ SceneFairness

------------------------------------------------------------------------------

\* Layout, TextLines, PictureHash, PictureCache: whatever the sizes of its items, a
\* widget is drawn where it was measured and its cells keep apart; a text is cut where
\* it no longer fits and skips nothing; a caller gets the picture of its own operations
\* from the cache, whatever other pictures of the key are drawn and removed meanwhile.
PicturesAreOwn ==
    /\ scene = "Layout" =>
         /\ Layout!TypeOK /\ Layout!DrawnWhereMeasured /\ Layout!CellsKeepApart
         /\ Layout!ItemsInCells /\ Layout!RegionsAreRestored /\ Layout!FlowIsFilled
    /\ scene = "Text" =>
         Text!TypeOK /\ Text!LinesFit /\ Text!NothingSkipped /\ Text!LoopsEnd
    /\ scene = "Hash" => Hash!TypeOK /\ Hash!FedAlike
    /\ scene = "Picture" => Picture!TypeOK /\ Picture!OwnPicture /\ Picture!OneFilePerKey

\* The pictures and, of RipAssets, RecordStore, Repeats: no caller gets a file older than
\* it allows; a message is in one place until it is stored or lost to a fault; a job
\* runs by its plan.
WorkIsSound ==
    /\ PicturesAreOwn
    /\ scene = "Asset" => Asset!TypeOK /\ Asset!NotTooOld /\ Asset!OnlyWholeIsParsed
    /\ scene = "Record" =>
         /\ Record!TypeOK /\ Record!EachIsSomewhereOnce
         /\ Record!RowsInOrder /\ Record!BodiesHaveHeads
    /\ scene = "Job" => Job!TypeOK /\ Job!RunsOnTime /\ Job!OneTaskEach

\* Every call, drawing and record ends, and every job runs, when the loop and the disk
\* go on and downloads are answered or timed out.
WorkEnds ==
    /\ scene = "Picture" => Picture!GetsEnd
    /\ scene = "Asset" => Asset!CallsEnd
    /\ scene = "Record" => Record!RecordsEnd
    /\ scene = "Job" => Job!JobsRun

==============================================================================
