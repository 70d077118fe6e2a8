----------------------------- MODULE ModelStatus -----------------------------
(***************************************************************************)
(* The watch over one model API (src/src/llm/model_api_status.py).  Every  *)
(* recorded call starts a task that judges the latest calls under a lock:  *)
(* a model in order that fails too often becomes bad, a bad one that       *)
(* succeeds often enough becomes ok again.  The state is saved under the   *)
(* lock, the notice is drawn and sent to the groups after it is released,  *)
(* so several notices may be on their way at once.                         *)
(***************************************************************************)
EXTENDS Naturals, Sequences, FiniteSets, SequencesExt

CONSTANTS
    NoTask,
    Tasks,          \* tasks that may be judging at once
    Groups,         \* groups of the white list
    Switched,       \* those that may leave it and come back
    FailStreak, FailWindow, FailCount,
    RecoverStreak, RecoverWindow, RecoverCount,
    EvalLimit,      \* eval_limit
    MaxCalls        \* bound: calls recorded

StatusAssumption ==
    /\ {FailStreak, FailWindow, FailCount} \subseteq Nat \ {0}
    /\ {RecoverStreak, RecoverWindow, RecoverCount} \subseteq Nat \ {0}
    /\ NoTask \notin Tasks
    /\ {EvalLimit, MaxCalls} \subseteq Nat

\* No calls are both an outage and a recovery, as with the rules that the example
\* configuration comes with (config-example/llm/llm.yaml:41): calls that end with
\* FailStreak failures leave too few others in the window.
RulesExcludeEachOther == RecoverCount + FailStreak > RecoverWindow

VARIABLES
    calls,          \* outcomes of the recorded calls, oldest first
    newest,         \* task of the latest call
    unheard,        \* that task found no group that wants notices
    saved,          \* notify_states in the database: "unset", "bad" or "ok"
    holder,         \* task that holds the lock, or NoTask
    pc,             \* where each task is
    to,             \* the groups each task still has to tell
    on,             \* groups that want notices now
    flips           \* the states notified, in order

callVars == <<calls, newest, unheard>>
vars == <<callVars, saved, holder, pc, to, on, flips>>

Largest(S) == CHOOSE n \in S : \A m \in S : m <= n
Limit == Largest({EvalLimit, FailStreak, FailWindow, RecoverStreak, RecoverWindow})

\* Faulty variant: the latest call is cut off.
RecentButLatest == IF Len(calls) <= 1 THEN <<>> ELSE SubSeq(calls, 1, Len(calls) - 1)

Recent == IF Len(calls) <= Limit THEN calls
          ELSE SubSeq(calls, Len(calls) - Limit + 1, Len(calls))

\* The last n of s, of which at least k are ok (or not ok).
Among(s, n, k, ok) ==
    /\ Len(s) >= n
    /\ Cardinality({i \in Len(s) - n + 1 .. Len(s) : s[i] = ok}) >= k

JudgeFail(s) ==
    \/ Among(s, FailStreak, FailStreak, FALSE)
    \/ Among(s, FailWindow, FailCount, FALSE)

JudgeRecover(s) ==
    \/ Among(s, RecoverStreak, RecoverStreak, TRUE)
    \/ Among(s, RecoverWindow, RecoverCount, TRUE)

-----------------------------------------------------------------------------
Init ==
    /\ calls = <<>> /\ newest = NoTask /\ unheard = FALSE
    /\ saved = "unset" /\ holder = NoTask
    /\ pc = [t \in Tasks |-> "free"]
    /\ to = [t \in Tasks |-> {}]
    /\ on = Groups
    /\ flips = <<>>

\* record_call keeps the call and starts the hook, which may first have to
\* wait for the history of the model from the disk.
Record(t, ok) ==
    /\ pc[t] = "free" /\ Len(calls) < MaxCalls
    /\ calls' = Append(calls, ok)
    /\ newest' = t /\ unheard' = FALSE
    /\ pc' = [pc EXCEPT ![t] = "hooked"]
    /\ UNCHANGED <<saved, holder, to, on, flips>>

\* _evaluate_and_notify takes the groups and asks for the lock.
Enter(t) ==
    /\ pc[t] = "hooked"
    /\ pc' = [pc EXCEPT ![t] = IF on = {} THEN "free" ELSE "waiting"]
    /\ unheard' = (unheard \/ (on = {} /\ newest = t))
    /\ to' = [to EXCEPT ![t] = on]
    /\ UNCHANGED <<calls, newest, saved, holder, on, flips>>

\* Faulty variant: nobody is kept out.
LockShared(t) ==
    /\ pc[t] = "waiting"
    /\ holder' = t
    /\ pc' = [pc EXCEPT ![t] = "judging"]
    /\ UNCHANGED <<callVars, saved, to, on, flips>>

Lock(t) ==
    /\ pc[t] = "waiting" /\ holder = NoTask
    /\ holder' = t
    /\ pc' = [pc EXCEPT ![t] = "judging"]
    /\ UNCHANGED <<callVars, saved, to, on, flips>>

Flip(t, state) ==
    /\ saved' = state
    /\ flips' = Append(flips, state)
    /\ pc' = [pc EXCEPT ![t] = state]

Unlocks(t) == holder = t /\ holder' = NoTask

\* Nothing to notify.
Settles(t) ==
    /\ pc' = [pc EXCEPT ![t] = "free"]
    /\ to' = [to EXCEPT ![t] = {}]
    /\ UNCHANGED <<saved, flips>>

\* Faulty variant: the state is not saved before the notice is sent.
JudgeUnsaved(t) ==
    /\ pc[t] = "judging" /\ Unlocks(t)
    /\ IF saved # "bad" /\ JudgeFail(Recent)
       THEN /\ flips' = Append(flips, "bad")
            /\ pc' = [pc EXCEPT ![t] = "bad"]
            /\ UNCHANGED <<saved, to>>
       ELSE Settles(t)
    /\ UNCHANGED <<callVars, on>>

\* The history of the model is at hand: the state is judged and saved and the
\* lock released without waiting.
Judge(t) ==
    /\ pc[t] = "judging" /\ Unlocks(t)
    /\ IF saved # "bad"
       THEN IF JudgeFail(Recent) THEN Flip(t, "bad") /\ UNCHANGED to ELSE Settles(t)
       ELSE IF JudgeRecover(Recent) THEN Flip(t, "ok") /\ UNCHANGED to ELSE Settles(t)
    /\ UNCHANGED <<callVars, on>>

\* One group is told, or could not be.
Tell(t, g) ==
    /\ pc[t] \in {"bad", "ok"} /\ g \in to[t]
    /\ to' = [to EXCEPT ![t] = @ \ {g}]
    /\ pc' = IF to[t] = {g} THEN [pc EXCEPT ![t] = "free"] ELSE pc
    /\ UNCHANGED <<callVars, saved, holder, on, flips>>

\* notify_gwl is switched.
Switch(g) ==
    /\ g \in Switched
    /\ on' = IF g \in on THEN on \ {g} ELSE on \cup {g}
    /\ UNCHANGED <<callVars, saved, holder, pc, to, flips>>

Works(t) ==
    \/ Enter(t) \/ Lock(t) \/ Judge(t)
    \/ \E g \in Groups : Tell(t, g)

Next ==
    \/ \E t \in Tasks, ok \in BOOLEAN : Record(t, ok)
    \/ \E t \in Tasks : Works(t)
    \/ \E g \in Groups : Switch(g)

Spec == Init /\ [][Next]_vars

-----------------------------------------------------------------------------
Quiet == \A t \in Tasks : pc[t] \notin {"hooked", "waiting", "judging"}

TypeOK ==
    /\ calls \in Seq(BOOLEAN) /\ newest \in Tasks \cup {NoTask} /\ unheard \in BOOLEAN
    /\ saved \in {"unset", "bad", "ok"} /\ holder \in Tasks \cup {NoTask}
    /\ pc \in [Tasks -> {"free", "hooked", "waiting", "judging", "bad", "ok"}]
    /\ \A t \in Tasks : pc[t] = "judging" <=> holder = t
    /\ to \in [Tasks -> SUBSET Groups] /\ on \subseteq Groups
    /\ flips \in Seq({"bad", "ok"})

\* However many tasks judge at once, the notices decided on alternate, a
\* failure first: nobody is told of one outage twice (the comment at
\* file_db.set in _evaluate_and_notify).
FlipsAlternate ==
    \A i \in DOMAIN flips : flips[i] = IF i % 2 = 1 THEN "bad" ELSE "ok"

\* No outage is overlooked, though the calls end while others are judged: with
\* the last calls failed and nobody about to judge them the model is bad,
\* unless no group wanted notices when the last one ended.
OutageIsSeen ==
    Quiet /\ ~unheard /\ Among(calls, FailStreak, FailStreak, FALSE) => saved = "bad"

=============================================================================
