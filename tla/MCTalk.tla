------------------------------- MODULE MCTalk --------------------------------
(***************************************************************************)
(* What the bot says, without liveness: the feed of the autochat service,  *)
(* whose constants MCTalk.cfg gives, its replies, and the sessions of the  *)
(* chat command.                                                           *)
(***************************************************************************)
EXTENDS AutochatFeed, TLC

\* AutochatFeed, whose constants MCTalk.cfg gives: the group of the only notice.
PokedIn == [p |-> "g1"]

\* What the model may plan as an answer in a group.
Plans == {<<"poke">>, <<"text", "text">>, <<"sticker", "tts">>}

VARIABLES
    scene,          \* the instance that runs; the variables of the others stand still
    chatSessions, chatContent, chatOld, chatTarget, chatPc, chatMine, chatBackup,
    chatRound, chatAnswers, chatAllowed,
    repClock, repItems, repStored, repNext, repPc, repWill, repChecked, repLastReply,
    repSelfIds, repNotices, repSelfInfo, repReal, repEmbedded, repShort, repPlan,
    repNoted, repEm, repSm, repSent, repBefore, repRestarts

chatVars == <<
    chatSessions, chatContent, chatOld, chatTarget, chatPc, chatMine, chatBackup,
    chatRound, chatAnswers, chatAllowed>>
Chat == INSTANCE ChatSessions WITH
    Queries <- {"q1", "q2", "q3"}, Tooled <- {"q1"}, Plain <- {"q2"}, Rounds <- 2,
    LenLimit <- 3, sessions <- chatSessions, content <- chatContent, old <- chatOld,
    target <- chatTarget, pc <- chatPc, mine <- chatMine, backup <- chatBackup,
    round <- chatRound, answers <- chatAnswers, allowed <- chatAllowed

repVars == <<
    repClock, repItems, repStored, repNext, repPc, repWill, repChecked, repLastReply,
    repSelfIds, repNotices, repSelfInfo, repReal, repEmbedded, repShort, repPlan,
    repNoted, repEm, repSm, repSent, repBefore, repRestarts>>
Reply == INSTANCE AutochatReply WITH
    Kinds <- {"msg", "poke", "command"}, Longs <- {FALSE}, Plans <- Plans, Sure <- 2,
    Limit <- 3, Gain <- [msg |-> 1, poke |-> 2], HistoryNum <- 1, Recall <- 1,
    Threshold <- 1, ForgetAfter <- 0, Cost <- 1, KeepIds <- 2, KeepNotices <- 1,
    KeepSelf <- 2, MaxItems <- 3, MaxTime <- 2, MaxRestarts <- 1, clock <- repClock,
    items <- repItems, stored <- repStored, next <- repNext, pc <- repPc,
    will <- repWill, checked <- repChecked, lastReply <- repLastReply,
    selfIds <- repSelfIds, notices <- repNotices, selfInfo <- repSelfInfo,
    real <- repReal, embedded <- repEmbedded, short <- repShort, plan <- repPlan,
    noted <- repNoted, em <- repEm, sm <- repSm, sent <- repSent, before <- repBefore,
    restarts <- repRestarts

ASSUME InstancesAreSound ==
    /\ Chat!ChatAssumption
    /\ Reply!ReplyAssumption

Scenes == {"Chat", "Feed", "Reply"}
SceneInit ==
    /\ scene \in Scenes
    /\ Chat!Init
    /\ Init
    /\ Reply!Init
SceneNext ==
    \/ scene = "Chat" /\ Chat!Next /\ UNCHANGED <<scene, vars, repVars>>
    \/ scene = "Feed" /\ Next /\ UNCHANGED <<scene, chatVars, repVars>>
    \/ scene = "Reply" /\ Reply!Next /\ UNCHANGED <<scene, chatVars, vars>>
sceneVars == <<scene, chatVars, vars, repVars>>

SceneSpec == SceneInit /\ [][SceneNext]_sceneVars

------------------------------------------------------------------------------

\* ChatSessions: two queries never answer in one session at once, a session holds
\* one thread of questions and answers, what was limited keeps the system prompt,
\* and a query that fails leaves the thread to the next one.
ThreadsAreKept ==
    /\ [](scene = "Chat" =>
            Chat!TypeOK /\ Chat!OneHolder /\ Chat!OneThread)
    /\ Chat!PromptStays
    /\ Chat!FailureKeepsTheThread

\* AutochatReply: a reply answers what was read before it was planned, items that
\* are stale start none, what was said is remembered, and a memory that became
\* long-term stays.
RepliesAreSound ==
    /\ [](scene = "Reply" =>
            /\ Reply!TypeOK /\ Reply!StaleIsIgnored
            /\ Reply!RemembersWhatItSaid /\ Reply!AnsweredIsRead)
    /\ Reply!LongTermStays

==============================================================================
