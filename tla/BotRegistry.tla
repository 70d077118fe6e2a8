---------------------------- MODULE BotRegistry -----------------------------
(***************************************************************************)
(* Sessions and the registry of connected accounts: _session and           *)
(* _handle_payload of src/src/core/server.py with register_bot,            *)
(* unregister_bot and close of src/src/core/bot.py.                        *)
(*                                                                         *)
(* A session is one accepted websocket with the Bot made for it.  It runs  *)
(* read_loop and ensure_login under asyncio.gather, one task per received  *)
(* event, and, once a newer connection has taken its account over, a task  *)
(* that closes its bot.  The API call of ensure_login is abstracted as     *)
(* ApiContract allows: it is running, then answered or not, then done.     *)
(***************************************************************************)
EXTENDS Integers, Sequences

CONSTANTS
    Sessions,     \* connections that may be accepted
    SelfIds,      \* accounts
    NoBot,        \* an absent registry entry
    NoId,         \* self_id 0: the account is not known
    MaxTasks,     \* bound: event tasks of a session that have not started
    LoginMayLag   \* TRUE for Python 3.11, whose wait_for wakes its caller one
                  \* loop turn later than that of Python 3.12 and newer

ASSUME RegistryAssumption ==
    /\ NoBot \notin Sessions
    /\ NoId \notin SelfIds
    /\ MaxTasks \in Nat \ {0}
    /\ LoginMayLag \in BOOLEAN

Ids == SelfIds \cup {NoId}

VARIABLES
    registry,    \* _bots: the session registered for each account
    selfId,      \* Bot.self_id
    phase,       \* "idle", "refused" by the handshake, "open" or "ended"
    closed,      \* Bot._closed
    reader,      \* read_loop: "off", "reading", or over: "returned" when the
                 \* connection closed properly, "raised" when it was lost
    tasks,       \* self_ids of the events whose _handle_payload has not started
    login,       \* get_login_info: "idle", "running", "answered" or "done"
    loginId,     \* the account that answer names
    closeTasks,  \* sessions whose old.close() task has not run
    hooks        \* history: connect hooks fired minus disconnect hooks fired

registryVars == <<registry, selfId, closeTasks, hooks>>
sessionVars  == <<phase, reader, tasks>>
loginVars    == <<login, loginId>>
vars         == <<registryVars, sessionVars, loginVars, closed>>

Init ==
    /\ registry   = [i \in SelfIds |-> NoBot]
    /\ selfId     = [s \in Sessions |-> NoId]
    /\ phase      = [s \in Sessions |-> "idle"]
    /\ closed     = [s \in Sessions |-> FALSE]
    /\ reader     = [s \in Sessions |-> "off"]
    /\ tasks      = [s \in Sessions |-> <<>>]
    /\ login      = [s \in Sessions |-> "idle"]
    /\ loginId    = [s \in Sessions |-> NoId]
    /\ closeTasks = {}
    /\ hooks      = [s \in Sessions |-> 0]

-----------------------------------------------------------------------------
(***************************************************************************)
(* The registry, as operators on a value bots of _bots.                    *)
(***************************************************************************)

\* Faulty variants: by key only; with a 0 left in the entry.
UnregisterByKey(bots, s) ==
    IF selfId[s] # NoId THEN [bots EXCEPT ![selfId[s]] = NoBot] ELSE bots

UnregisterLeavingZero(bots, s) ==
    IF selfId[s] # NoId /\ bots[selfId[s]] = s
    THEN [bots EXCEPT ![selfId[s]] = NoId]
    ELSE bots

\* unregister_bot leaves an entry that now belongs to another session.
Unregister(bots, s) ==
    IF selfId[s] # NoId /\ bots[selfId[s]] = s
    THEN [bots EXCEPT ![selfId[s]] = NoBot]
    ELSE bots

\* register_bot: the newest connection of an account replaces the older one,
\* for which it fires the disconnect hooks and schedules close.
Evicted(bots, s, i) == {bots[i]} \ {s, NoBot}

\* Faulty variants: no disconnect hook, or no close, for the evicted session.
RegisterSilently(bots, s, i) ==
    /\ registry'   = [bots EXCEPT ![i] = s]
    /\ closeTasks' = closeTasks \cup Evicted(bots, s, i)
    /\ hooks' = [hooks EXCEPT ![s] = @ + (IF bots[i] # s THEN 1 ELSE 0)
                                       - (IF bots # registry THEN 1 ELSE 0)]

RegisterBesideTwin(bots, s, i) ==
    /\ registry' = [bots EXCEPT ![i] = s]
    /\ hooks' = [t \in Sessions |->
                   hooks[t] + (IF t = s /\ bots[i] # s THEN 1 ELSE 0)
                            - (IF t = s /\ bots # registry THEN 1 ELSE 0)
                            - (IF t \in Evicted(bots, s, i) THEN 1 ELSE 0)]
    /\ UNCHANGED closeTasks

Register(bots, s, i) ==
    /\ registry'   = [bots EXCEPT ![i] = s]
    /\ closeTasks' = closeTasks \cup Evicted(bots, s, i)
    /\ hooks' = [t \in Sessions |->
                   hooks[t] + (IF t = s /\ bots[i] # s THEN 1 ELSE 0)
                            - (IF t = s /\ bots # registry THEN 1 ELSE 0)
                            - (IF t \in Evicted(bots, s, i) THEN 1 ELSE 0)]

\* Faulty variant: the entry under the former account stays.
AdoptIdKeepingEntry(s, i) ==
    IF i \in {NoId, selfId[s]}
    THEN UNCHANGED registryVars
    ELSE /\ Register(registry, s, i)
         /\ selfId' = [selfId EXCEPT ![s] = i]

\* An event or the login answer names account i.  (No entry has key 0, so the
\* two branches of the code, with and without unregister_bot, are this one.)
AdoptId(s, i) ==
    IF i \in {NoId, selfId[s]}
    THEN UNCHANGED registryVars
    ELSE /\ Register(Unregister(registry, s), s, i)
         /\ selfId' = [selfId EXCEPT ![s] = i]

\* Bot.close; what it does to pending calls is in ApiCalls.
CloseBot(s) == closed' = [closed EXCEPT ![s] = TRUE]

-----------------------------------------------------------------------------
(***************************************************************************)
(* A session.                                                              *)
(***************************************************************************)

\* Path or token do not match: no Bot is made.
Refuse(s) ==
    /\ phase[s] = "idle"
    /\ phase' = [phase EXCEPT ![s] = "refused"]
    /\ UNCHANGED <<registryVars, loginVars, reader, tasks, closed>>

\* i is the account of the X-Self-ID header, NoId without one.
Connect(s, i) ==
    /\ phase[s] = "idle"
    /\ phase'  = [phase EXCEPT ![s] = "open"]
    /\ reader' = [reader EXCEPT ![s] = "reading"]
    /\ AdoptId(s, i)
    /\ UNCHANGED <<loginVars, tasks, closed>>

\* The read loop gets an event of account i and spawns its task.
ReadEvent(s, i) ==
    /\ reader[s] = "reading"
    /\ Len(tasks[s]) < MaxTasks
    /\ tasks' = [tasks EXCEPT ![s] = Append(@, i)]
    /\ UNCHANGED <<registryVars, loginVars, phase, reader, closed>>

\* First step of _handle_payload, up to the await in log_event.
HandlePayload(s) ==
    /\ tasks[s] # <<>>
    /\ AdoptId(s, Head(tasks[s]))
    /\ tasks' = [tasks EXCEPT ![s] = Tail(@)]
    /\ UNCHANGED <<loginVars, phase, reader, closed>>

\* The connection is over and its last frame read.
ReaderEnds(s, how) ==
    /\ reader[s] = "reading"
    /\ reader' = [reader EXCEPT ![s] = how]
    /\ UNCHANGED <<registryVars, loginVars, phase, tasks, closed>>

\* ensure_login starts with the session; call_api raises on a closed bot.
LoginStarts(s) ==
    /\ phase[s] = "open"
    /\ login[s] = "idle"
    /\ login' = [login EXCEPT ![s] = IF closed[s] THEN "done" ELSE "running"]
    /\ UNCHANGED <<registryVars, sessionVars, loginId, closed>>

\* The read loop delivers the answer to the future of the call.
LoginAnswered(s, i) ==
    /\ reader[s] = "reading" /\ ~closed[s]
    /\ login[s] = "running"
    /\ login'   = [login EXCEPT ![s] = "answered"]
    /\ loginId' = [loginId EXCEPT ![s] = i]
    /\ UNCHANGED <<registryVars, sessionVars, closed>>

\* ensure_login goes on with the answer, to its end.
LoginSucceeds(s) ==
    /\ login[s] = "answered"
    /\ login' = [login EXCEPT ![s] = "done"]
    /\ AdoptId(s, loginId[s])
    /\ UNCHANGED <<sessionVars, loginId, closed>>

\* Faulty variant: the call has no timeout.
LoginFailsWithoutTimeout(s) ==
    /\ login[s] = "running" /\ closed[s]
    /\ login' = [login EXCEPT ![s] = "done"]
    /\ UNCHANGED <<registryVars, sessionVars, loginId, closed>>

\* get_login_info raises, by refusal, timeout, failed send or close, and
\* ensure_login swallows it.
LoginFails(s) ==
    /\ login[s] \in {"running", "answered"}
    /\ login' = [login EXCEPT ![s] = "done"]
    /\ UNCHANGED <<registryVars, sessionVars, loginId, closed>>

\* Faulty variant: the evicted bot is not closed.
CloseEvictedInName(s) ==
    /\ s \in closeTasks
    /\ login[s] # "idle"
    /\ closeTasks' = closeTasks \ {s}
    /\ UNCHANGED <<registry, selfId, hooks, sessionVars, loginVars, closed>>

\* The task register_bot made for an evicted session, whose ensure_login was
\* scheduled before it.
CloseEvicted(s) ==
    /\ s \in closeTasks
    /\ login[s] # "idle"
    /\ closeTasks' = closeTasks \ {s}
    /\ CloseBot(s)
    /\ UNCHANGED <<registry, selfId, hooks, sessionVars, loginVars>>

\* Faulty variant: the session ends with its read loop.
GatherOverAfterReading(s) == reader[s] \in {"returned", "raised"}

\* gather(read_loop(), ensure_login()) waits for both unless one raises, and
\* only read_loop can.  Then ensure_login goes on by itself.
GatherOver(s) ==
    \/ reader[s] = "returned" /\ login[s] = "done"
    \/ /\ reader[s] = "raised" /\ login[s] # "idle"
       /\ login[s] = "answered" => LoginMayLag

\* The finally block of _session.  The tasks of events read were scheduled
\* before the callbacks of gather, so their first steps have run.
EndSession(s) ==
    /\ phase[s] = "open"
    /\ GatherOver(s)
    /\ tasks[s] = <<>>
    /\ phase' = [phase EXCEPT ![s] = "ended"]
    /\ LET left == Unregister(registry, s)
       IN  /\ registry' = left
           /\ hooks' = [hooks EXCEPT ![s] = @ - (IF left # registry THEN 1 ELSE 0)]
    /\ CloseBot(s)
    /\ UNCHANGED <<selfId, closeTasks, reader, tasks, loginVars>>

-----------------------------------------------------------------------------
SessionNext(s) ==
    \/ Refuse(s)
    \/ \E i \in Ids : Connect(s, i) \/ ReadEvent(s, i) \/ LoginAnswered(s, i)
    \/ HandlePayload(s)
    \/ \E how \in {"returned", "raised"} : ReaderEnds(s, how)
    \/ LoginStarts(s) \/ LoginSucceeds(s) \/ LoginFails(s)
    \/ CloseEvicted(s) \/ EndSession(s)

Next == \E s \in Sessions : SessionNext(s)

(***************************************************************************)
(* The loop runs every ready coroutine; a call ends (ApiContract); and the *)
(* connection of a closed bot ends, by the close handshake or, if the peer *)
(* ignores it, by the close timeout of the library.                        *)
(***************************************************************************)
Fairness ==
    \A s \in Sessions :
        /\ WF_vars(HandlePayload(s))
        /\ WF_vars(LoginStarts(s))
        /\ WF_vars(LoginSucceeds(s) \/ LoginFails(s))
        /\ WF_vars(CloseEvicted(s))
        /\ WF_vars(EndSession(s))
        /\ WF_vars(closed[s] /\ \E how \in {"returned", "raised"} : ReaderEnds(s, how))

Spec == Init /\ [][Next]_vars

FairSpec == Spec /\ Fairness

-----------------------------------------------------------------------------
(***************************************************************************)
(* Correctness.                                                            *)
(***************************************************************************)
TypeOK ==
    /\ registry \in [SelfIds -> Sessions \cup {NoBot}]
    /\ selfId \in [Sessions -> Ids]
    /\ phase \in [Sessions -> {"idle", "refused", "open", "ended"}]
    /\ closed \in [Sessions -> BOOLEAN]
    /\ reader \in [Sessions -> {"off", "reading", "returned", "raised"}]
    /\ tasks \in [Sessions -> Seq(Ids)]
    /\ login \in [Sessions -> {"idle", "running", "answered", "done"}]
    /\ loginId \in [Sessions -> Ids]
    /\ closeTasks \in SUBSET Sessions
    /\ hooks \in [Sessions -> Int]

Registered(s) == \E i \in SelfIds : registry[i] = s

\* A session is registered under the account it carries now and under no other,
\* however often events and the login answer have changed that account.
RegistryMatchesSelfId ==
    \A i \in SelfIds : registry[i] # NoBot => selfId[registry[i]] = i

\* The plugins have been told of every change: a session has had one connect
\* hook more than disconnect hooks exactly while the registry holds it, also
\* when it was evicted first and ends later.
HooksMatchRegistry ==
    \A s \in Sessions : hooks[s] = IF Registered(s) THEN 1 ELSE 0

\* A session past its finally block is not in the registry: get_bot never
\* answers with the bot of a connection that is gone.
EndedIsUnregistered ==
    \A i \in SelfIds : registry[i] # NoBot => phase[registry[i]] = "open"

\* Two connections do not keep one account: a session that carries an account
\* without being registered for it has been evicted, and its bot is closed or
\* about to be.
UnregisteredTwinIsClosed ==
    \A s \in Sessions :
        selfId[s] # NoId /\ ~Registered(s) => closed[s] \/ s \in closeTasks

\* A session leaves the registry only by a step of its own or because a newer
\* one takes its account: the end of an evicted session never unregisters the
\* session that evicted it.
OnlySelfOrSuccessorUnregisters ==
    [][\A i \in SelfIds : registry[i] # NoBot /\ registry'[i] = NoBot =>
          LET s == registry[i]
          IN  selfId'[s] # i \/ phase'[s] = "ended"]_vars

\* A connection that is over ends its session, although the session may still
\* wait for a login call that the peer cannot answer any more.
GoneSessionEnds ==
    \A s \in Sessions : reader[s] \in {"returned", "raised"} ~> phase[s] = "ended"

\* A session evicted by a newer connection of its account is closed and ends.
EvictedSessionEnds ==
    \A s \in Sessions : s \in closeTasks ~> phase[s] = "ended"
=============================================================================
