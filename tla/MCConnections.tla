---------------------------- MODULE MCConnections ----------------------------
(***************************************************************************)
(* The connections of the bot, checked with liveness: the API calls of     *)
(* ApiCalls, whose constants MCConnections.cfg gives, the sessions of      *)
(* BotRegistry, and the feed of the autochat service.                      *)
(***************************************************************************)
EXTENDS ApiCalls, TLC

VARIABLES
    scene,          \* the instance that runs; the variables of the others stand still
    regRegistry, regSelfId, regPhase, regClosed, regReader, regTasks, regLogin,
    regLoginId, regCloseTasks, regHooks,
    feedClock, feedOn, feedRecent, feedNaming, feedItems, feedLink, feedPool,
    feedClosing, feedClient, feedCall, feedQueue, feedBusy, feedHandled, feedLost,
    feedFaults

regVars == <<
    regRegistry, regSelfId, regPhase, regClosed, regReader, regTasks, regLogin,
    regLoginId, regCloseTasks, regHooks>>
R == INSTANCE BotRegistry WITH
    Sessions <- {"s1", "s2"}, SelfIds <- {"q1"}, NoBot <- "none", NoId <- "noid",
    MaxTasks <- 1, LoginMayLag <- TRUE, registry <- regRegistry, selfId <- regSelfId,
    phase <- regPhase, closed <- regClosed, reader <- regReader, tasks <- regTasks,
    login <- regLogin, loginId <- regLoginId, closeTasks <- regCloseTasks,
    hooks <- regHooks

feedVars == <<
    feedClock, feedOn, feedRecent, feedNaming, feedItems, feedLink, feedPool,
    feedClosing, feedClient, feedCall, feedQueue, feedBusy, feedHandled, feedLost,
    feedFaults>>
F == INSTANCE AutochatFeed WITH
    Sessions <- {"s1", "s2"}, NoSession <- "none", Groups <- {"g1"}, Sigs <- {"p"},
    NoSig <- "none", GroupOf <- [p |-> "g1"], MaxLag <- 1, MaxItems <- 2,
    MaxFaults <- 1, MaxTime <- 0, clock <- feedClock, on <- feedOn,
    recent <- feedRecent, naming <- feedNaming, items <- feedItems, link <- feedLink,
    pool <- feedPool, closing <- feedClosing, client <- feedClient, call <- feedCall,
    queue <- feedQueue, busy <- feedBusy, handled <- feedHandled, lost <- feedLost,
    faults <- feedFaults

ASSUME InstancesAreSound ==
    /\ F!FeedAssumption

Scenes == {"calls", "R", "F"}
SceneInit ==
    /\ scene \in Scenes
    /\ Init
    /\ R!Init
    /\ F!Init
SceneNext ==
    \/ scene = "calls" /\ Next /\ UNCHANGED <<scene, regVars, feedVars>>
    \/ scene = "R" /\ R!Next /\ UNCHANGED <<scene, vars, feedVars>>
    \/ scene = "F" /\ F!Next /\ UNCHANGED <<scene, vars, regVars>>
sceneVars == <<scene, vars, regVars, feedVars>>

\* Nothing else is fair in an instance that stands still.
Runs(A) == scene = "F" /\ A
SceneFairness ==
    /\ Fairness /\ R!Fairness
    /\ \A s \in {"s1", "s2"} :
         /\ WF_feedVars(Runs(F!Connect(s))) /\ WF_feedVars(Runs(F!Serve(s)))
         /\ WF_feedVars(Runs(F!CloseRefused(s))) /\ WF_feedVars(Runs(F!ServerLoses(s)))
    /\ WF_feedVars(Runs(F!Poll)) /\ WF_feedVars(Runs(F!Answered))
    /\ \A g \in {"g1"} : WF_feedVars(Runs(F!Take(g))) /\ WF_feedVars(Runs(F!ChatEnds(g)))
    /\ WF_feedVars(Runs(feedCall # F!NoCall /\ feedLink[feedCall.on] # "up" /\ F!CallFails))

SceneSpec == SceneInit /\ [][SceneNext]_sceneVars /\ SceneFairness

------------------------------------------------------------------------------

\* BotRegistry: sessions whose connection is over end, and so do sessions that
\* a newer connection of their account evicted.
SessionsEnd == R!GoneSessionEnds /\ R!EvictedSessionEnds

\* AutochatFeed: once faults stop the service keeps a pool, and what is pushed is
\* handled in the end, or lost to a fault.
FeedFlows == scene = "F" => F!ClientIsServed /\ F!PushedIsHandled

==============================================================================
