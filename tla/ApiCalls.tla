------------------------------ MODULE ApiCalls ------------------------------
(***************************************************************************)
(* API calls over the websocket of a bot: call_api, deliver, close and     *)
(* _send_json of src/src/core/bot.py, with the part of _handle_raw and     *)
(* _handle_payload of src/src/core/server.py that routes an answer.        *)
(*                                                                         *)
(* All coroutines run on one asyncio loop: an action is what one coroutine *)
(* does between two awaits.  A call is identified by its echo, which is    *)
(* unique over all bots.                                                   *)
(***************************************************************************)
EXTENDS Naturals, Sequences

CONSTANTS
    Bots,        \* Bot objects, one for each accepted connection
    Calls,       \* API calls that may be made
    NoBot        \* the target of a call not yet made

ASSUME ApiAssumption == NoBot \notin Bots

VARIABLES
    link,        \* the websocket of the bot: "up" or "down"
    closed,      \* Bot._closed
    pending,     \* Bot._pending, as the set of echoes
    sendq,       \* holder and waiters of Bot._send_lock, in order
    target,      \* the bot a call was made on
    call,        \* "idle", "queued" on the lock, "draining" in ws.send,
                 \* "waiting" in wait_for, or "done"
    fut,         \* the call's future: "none", "pending", "ok" or "failed" (an
                 \* answer), "exc" (set by close) or "cancelled"
    outcome,     \* "none", or how the call ended
    sent,        \* requests the peer has received
    heard        \* history, read by no action: <<call, ok>> for every answer
                 \* that came over the call's own bot

botVars  == <<link, closed>>
callVars == <<pending, sendq, target, call, fut, outcome, sent>>
vars     == <<botVars, callVars, heard>>

Init ==
    /\ link    = [b \in Bots |-> "up"]
    /\ closed  = [b \in Bots |-> FALSE]
    /\ pending = [b \in Bots |-> {}]
    /\ sendq   = [b \in Bots |-> <<>>]
    /\ target  = [c \in Calls |-> NoBot]
    /\ call    = [c \in Calls |-> "idle"]
    /\ fut     = [c \in Calls |-> "none"]
    /\ outcome = [c \in Calls |-> "none"]
    /\ sent    = {}
    /\ heard   = {}

-----------------------------------------------------------------------------
(***************************************************************************)
(* The coroutine of one call.                                              *)
(***************************************************************************)

\* call_api up to its first await.  A plugin may hold the Bot of a connection
\* that is gone; on a closed bot the call raises at once, on any other its
\* future is pending before the request can leave.
Begin(c, b) ==
    /\ call[c] = "idle"
    /\ target' = [target EXCEPT ![c] = b]
    /\ IF closed[b]
       THEN /\ call'    = [call EXCEPT ![c] = "done"]
            /\ outcome' = [outcome EXCEPT ![c] = "error"]
            /\ UNCHANGED <<fut, pending, sendq>>
       ELSE /\ call'    = [call EXCEPT ![c] = "queued"]
            /\ fut'     = [fut EXCEPT ![c] = "pending"]
            /\ pending' = [pending EXCEPT ![b] = @ \cup {c}]
            /\ sendq'   = [sendq EXCEPT ![b] = Append(@, c)]
            /\ UNCHANGED outcome
    /\ UNCHANGED <<botVars, sent, heard>>

\* asyncio.Lock is granted in the order in which calls asked for it.
HoldsLock(c) == sendq[target[c]] # <<>> /\ Head(sendq[target[c]]) = c

\* _send_json has the lock: ws.send hands the request to the peer ...
Write(c) ==
    /\ call[c] = "queued"
    /\ HoldsLock(c)
    /\ link[target[c]] = "up" /\ ~closed[target[c]]
    /\ call' = [call EXCEPT ![c] = "draining"]
    /\ sent' = sent \cup {c}
    /\ UNCHANGED <<botVars, pending, sendq, target, fut, outcome, heard>>

\* ... and has drained: the lock is released and wait_for begins.
Drain(c) ==
    /\ call[c] = "draining"
    /\ HoldsLock(c)
    /\ link[target[c]] = "up"
    /\ call'  = [call EXCEPT ![c] = "waiting"]
    /\ sendq' = [sendq EXCEPT ![target[c]] = Tail(@)]
    /\ UNCHANGED <<botVars, pending, target, fut, outcome, sent, heard>>

\* Faulty variant: the echo stays in _pending.
FinishLeakingEcho(c, how) ==
    /\ call'    = [call EXCEPT ![c] = "done"]
    /\ outcome' = [outcome EXCEPT ![c] = how]
    /\ fut'     = [fut EXCEPT ![c] = IF @ = "pending" THEN "cancelled" ELSE @]
    /\ UNCHANGED <<botVars, pending, target, sent, heard>>

\* The finally block of call_api, and how the call ends.
Finish(c, how) ==
    /\ call'    = [call EXCEPT ![c] = "done"]
    /\ outcome' = [outcome EXCEPT ![c] = how]
    /\ pending' = [pending EXCEPT ![target[c]] = @ \ {c}]
    /\ fut'     = [fut EXCEPT ![c] = IF @ = "pending" THEN "cancelled" ELSE @]
    /\ UNCHANGED <<botVars, target, sent, heard>>

\* Faulty variant: an exception of ws.send leaves the lock taken.
SendFailsKeepingLock(c) ==
    /\ call[c] \in {"queued", "draining"} /\ link[target[c]] = "down"
    /\ HoldsLock(c)
    /\ Finish(c, "error")
    /\ UNCHANGED sendq

\* ws.send raises: the connection is gone, or is closing before the write.
SendFails(c) ==
    /\ \/ call[c] = "queued" /\ (link[target[c]] = "down" \/ closed[target[c]])
       \/ call[c] = "draining" /\ link[target[c]] = "down"
    /\ HoldsLock(c)
    /\ sendq' = [sendq EXCEPT ![target[c]] = Tail(@)]
    /\ Finish(c, "error")

\* Faulty variants: the retcode is not looked at; the state of the future is
\* passed on as the result.
ResumeIgnoringRetcode(c) ==
    /\ call[c] = "waiting"
    /\ fut[c] \in {"ok", "failed", "exc"}
    /\ Finish(c, IF fut[c] = "exc" THEN "error" ELSE "ok")
    /\ UNCHANGED sendq

ResumeWithRawFuture(c) ==
    /\ call[c] = "waiting"
    /\ fut[c] \in {"ok", "failed", "exc"}
    /\ Finish(c, fut[c])
    /\ UNCHANGED sendq

\* wait_for returns the answer, or raises what close has set.
Resume(c) ==
    /\ call[c] = "waiting"
    /\ fut[c] \in {"ok", "failed", "exc"}
    /\ Finish(c, IF fut[c] = "exc" THEN "error" ELSE fut[c])
    /\ UNCHANGED sendq

\* api_timeout has passed since the request was sent.  The timer may beat an
\* answer already delivered: the shield wakes the caller one turn later.
TimeOut(c) ==
    /\ call[c] = "waiting"
    /\ Finish(c, "timeout")
    /\ UNCHANGED sendq

-----------------------------------------------------------------------------
(***************************************************************************)
(* Frames and connections.                                                 *)
(***************************************************************************)

\* Faulty variant: one table of echoes for all bots.
DeliversFromAnyBot(b, c) == \E other \in Bots : c \in pending[other]

\* Bot.deliver on bot b takes an answer to c.
Delivers(b, c) == c \in pending[b]

\* The read loop of b gets an answer to c.  The peer may be late, answer
\* twice, or answer over a connection it has opened since the request; what
\* deliver does not take, _handle_payload drops.
Answer(b, c, ok) ==
    /\ c \in sent
    /\ fut' = IF Delivers(b, c) /\ fut[c] = "pending"
              THEN [fut EXCEPT ![c] = IF ok THEN "ok" ELSE "failed"]
              ELSE fut
    /\ heard' = IF target[c] = b THEN heard \cup {<<c, ok>>} ELSE heard
    /\ UNCHANGED <<botVars, pending, sendq, target, call, outcome, sent>>

\* The connection of b ends; frames already received may still be read.
LinkEnds(b) ==
    /\ link[b] = "up"
    /\ link' = [link EXCEPT ![b] = "down"]
    /\ UNCHANGED <<closed, callVars, heard>>

\* Faulty variant: the futures are forgotten, not failed.
CloseForgettingFutures(b) ==
    /\ ~closed[b]
    /\ closed'  = [closed EXCEPT ![b] = TRUE]
    /\ pending' = [pending EXCEPT ![b] = {}]
    /\ UNCHANGED <<link, sendq, target, call, fut, outcome, sent, heard>>

\* Bot.close up to ws.close, called by the finally block of _session or, while
\* the connection is still up, for a session evicted from the registry.
Close(b) ==
    /\ ~closed[b]
    /\ closed'  = [closed EXCEPT ![b] = TRUE]
    /\ fut'     = [c \in Calls |-> IF c \in pending[b] /\ fut[c] = "pending"
                                   THEN "exc" ELSE fut[c]]
    /\ pending' = [pending EXCEPT ![b] = {}]
    /\ UNCHANGED <<link, sendq, target, call, outcome, sent, heard>>

Next ==
    \/ \E c \in Calls : \/ \E b \in Bots : Begin(c, b)
                        \/ \E b \in Bots, ok \in BOOLEAN : Answer(b, c, ok)
                        \/ Write(c) \/ Drain(c) \/ SendFails(c)
                        \/ Resume(c) \/ TimeOut(c)
    \/ \E b \in Bots : LinkEnds(b) \/ Close(b)

(***************************************************************************)
(* The loop runs every ready coroutine and fires every timer.  A drain on  *)
(* a peer that stopped reading does not last: the server pings every 20 s  *)
(* and drops a connection whose pong is 20 s late, which fails the send.   *)
(***************************************************************************)
Fairness ==
    \A c \in Calls : /\ WF_vars(Write(c) \/ Drain(c) \/ SendFails(c))
                     /\ WF_vars(Resume(c) \/ TimeOut(c))

Spec == Init /\ [][Next]_vars

FairSpec == Spec /\ Fairness
-----------------------------------------------------------------------------
(***************************************************************************)
(* Correctness.                                                            *)
(***************************************************************************)
Sending == {"queued", "draining"}
Open    == Sending \cup {"waiting"}

TypeOK ==
    /\ link \in [Bots -> {"up", "down"}]
    /\ closed \in [Bots -> BOOLEAN]
    /\ pending \in [Bots -> SUBSET Calls]
    /\ sendq \in [Bots -> Seq(Calls)]
    /\ target \in [Calls -> Bots \cup {NoBot}]
    /\ call \in [Calls -> {"idle", "done"} \cup Open]
    /\ fut \in [Calls -> {"none", "pending", "ok", "failed", "exc", "cancelled"}]
    /\ outcome \in [Calls -> {"none", "ok", "failed", "timeout", "error"}]
    /\ sent \in SUBSET Calls
    /\ heard \in SUBSET (Calls \X BOOLEAN)

\* Bot._pending is exactly the unfinished calls of a bot that is not closed: an
\* answer to a request on the wire always finds its future, also while ws.send
\* still drains, and no timeout, failed send or close leaves an entry behind.
PendingIsUnfinished ==
    \A b \in Bots :
        pending[b] = {c \in Calls : target[c] = b /\ ~closed[b] /\ call[c] \in Open}

\* A call never waits for an answer that cannot come any more: once its bot is
\* closed its future holds an answer or the error set by close.
ClosedBotAwaitsNothing ==
    \A c \in Calls :
        target[c] # NoBot /\ closed[target[c]] => fut[c] # "pending"

\* At most one call of a bot is inside ws.send, whatever fails meanwhile, and
\* the lock is always passed on to calls that still want it.
OneSenderPerBot ==
    \A c \in Calls :
        /\ call[c] = "draining" => Head(sendq[target[c]]) = c
        /\ call[c] \in Sending <=>
             target[c] # NoBot /\ \E k \in 1..Len(sendq[target[c]]) : sendq[target[c]][k] = c

\* What call_api reports is what the peer answered on the connection the call
\* was made on, also when answers repeat, come late or come over another one.
OutcomeWasAnswered ==
    \A c \in Calls :
        outcome[c] \in {"ok", "failed"} => <<c, outcome[c] = "ok">> \in heard

\* The contract of call_api, the calls of all bots taken together.
Contract == INSTANCE ApiContract
                WITH status <- [c \in Calls |-> IF call[c] \in Open THEN "open"
                                                ELSE IF call[c] = "done" THEN outcome[c]
                                                ELSE "idle"]

\* ApiCalls implements the contract, its promise that every call ends included:
\* by an answer, the timeout, a failed send or the close of the bot.
ImplementsContract == Contract!Spec
=============================================================================
