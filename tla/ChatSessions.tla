----------------------------- MODULE ChatSessions -----------------------------
(***************************************************************************)
(* The conversations of /chat (src/src/chat/__init__.py).  A session is    *)
(* kept under the id of the message the bot answered with, and a reply to  *)
(* that message goes on with it: the session is taken out of the map, used *)
(* over many awaits, and put back under the id of the next answer, or      *)
(* under the old one when the query fails.                                 *)
(***************************************************************************)
EXTENDS Integers, Sequences, FiniteSets, SequencesExt

CONSTANTS
    Queries,        \* messages that ask the bot
    Tooled,         \* those that ask for tools
    Plain,          \* those in a mode that has no system prompt
    Rounds,         \* requests of a query that runs tools
    LenLimit        \* SESSION_LEN_LIMIT_CFG

ChatAssumption ==
    /\ Tooled \cup Plain \subseteq Queries
    /\ {Rounds, LenLimit} \subseteq Nat \ {0}

None == 0           \* no message
Foreign == -1       \* a message of somebody else, or one the bot has no session for
Sids == 1 .. Cardinality(Queries)
Messages == 1 .. Cardinality(Queries)

VARIABLES
    sessions,       \* sessions: message id to session
    content,        \* per session its content: [role, of]
    old,            \* the sessions not used for SESSION_EXPIRE_TIME
    target,         \* per query: the message it replies to
    pc,             \* the await it is in
    mine,           \* its session, 0 before it has one
    backup,         \* session_id_backup
    round,          \* requests it has made
    answers,        \* the queries answered; the place is the message id
    allowed         \* the group is on the white list

queryVars == <<target, pc, mine, backup, round>>
vars == <<sessions, content, old, queryVars, answers, allowed>>

Init ==
    /\ sessions = <<>> /\ content = <<>> /\ old = {}
    /\ target = [q \in Queries |-> None]
    /\ pc = [q \in Queries |-> "idle"]
    /\ mine = [q \in Queries |-> 0]
    /\ backup = [q \in Queries |-> None]
    /\ round = [q \in Queries |-> 0]
    /\ answers = <<>> /\ allowed = TRUE

Goes(q, to) == pc' = [pc EXCEPT ![q] = to]
Without(f, x) == [y \in DOMAIN f \ {x} |-> f[y]]
With(f, x, v) == [y \in DOMAIN f \cup {x} |-> IF y = x THEN v ELSE f[y]]

\* Content is appended to the session of q, which makes the session recent.
Adds(q, role) ==
    /\ content' = [content EXCEPT ![mine[q]] = Append(@, [role |-> role, of |-> q])]
    /\ old' = old \ {mine[q]}

\* A message asks the bot, perhaps in reply to another: it is addressed to the
\* bot, no other command, and names no model that is refused.
Ask(q, to) ==
    /\ pc[q] = "idle" /\ allowed
    /\ to \in {None, Foreign} \cup (1 .. Len(answers))
    /\ target' = [target EXCEPT ![q] = to]
    /\ Goes(q, "asked")
    /\ UNCHANGED <<sessions, content, old, mine, backup, round, answers, allowed>>

\* The session of the message replied to is taken over.
Resume(q) ==
    /\ pc[q] = "asked" /\ target[q] \in DOMAIN sessions
    /\ mine' = [mine EXCEPT ![q] = sessions[target[q]]]
    /\ backup' = [backup EXCEPT ![q] = target[q]]
    /\ sessions' = Without(sessions, target[q])
    /\ Goes(q, "loading")
    /\ UNCHANGED <<content, old, target, round, answers, allowed>>

\* Faulty variant: the session stays in the map while it is used.
ResumeShared(q) ==
    /\ pc[q] = "asked" /\ target[q] \in DOMAIN sessions
    /\ mine' = [mine EXCEPT ![q] = sessions[target[q]]]
    /\ backup' = [backup EXCEPT ![q] = target[q]]
    /\ Goes(q, "loading")
    /\ UNCHANGED <<sessions, content, old, target, round, answers, allowed>>

\* What a session begins with.
NewSession(q) == IF q \in Plain THEN <<>> ELSE <<[role |-> "system", of |-> q]>>

\* Otherwise a session is made, with the prompt and the text replied to.
Start(q) ==
    /\ pc[q] = "asked" /\ target[q] \notin DOMAIN sessions
    /\ content' = Append(content, NewSession(q) \o
           (IF target[q] = None THEN <<>> ELSE <<[role |-> "quote", of |-> q]>>))
    /\ mine' = [mine EXCEPT ![q] = Len(content')]
    /\ Goes(q, "loading")
    /\ UNCHANGED <<sessions, old, target, backup, round, answers, allowed>>

\* A card or a video that is replied to is not talked about.
StartRefused(q) ==
    /\ pc[q] = "asked" /\ target[q] = Foreign
    /\ Goes(q, "done")
    /\ UNCHANGED <<sessions, content, old, target, mine, backup, round, answers, allowed>>

\* Its pictures are loaded: the question joins the session, and a model is asked.
Loaded(q) ==
    /\ pc[q] = "loading"
    /\ Adds(q, "user")
    /\ Goes(q, "asking")
    /\ UNCHANGED <<sessions, target, mine, backup, round, answers, allowed>>

\* The answer joins the session.  A group that has left the white list gets
\* none; an answer that names a tool is followed, another one is sent.
Answered(q) ==
    /\ pc[q] = "asking"
    /\ Adds(q, "assistant")
    /\ round' = [round EXCEPT ![q] = @ + 1]
    /\ IF ~allowed THEN Goes(q, "done")
       ELSE Goes(q, "sending") \/ (q \in Tooled /\ Goes(q, "tool"))
    /\ UNCHANGED <<sessions, target, mine, backup, answers, allowed>>

\* What the tool gave joins the session; the model is asked again, but not for
\* ever: what it said last is sent then.
ToolRuns(q) ==
    /\ pc[q] = "tool"
    /\ Adds(q, "system")
    /\ Goes(q, IF round[q] < Rounds THEN "asking" ELSE "sending")
    /\ UNCHANGED <<sessions, target, mine, backup, round, answers, allowed>>

\* The notice about the tool cannot be sent, or there is no such tool.
ToolFails(q) ==
    /\ pc[q] = "tool"
    /\ Goes(q, "sending")
    /\ UNCHANGED <<sessions, content, old, target, mine, backup, round, answers, allowed>>

\* Faulty variant of QueryFails: the session is not put back.
QueryFailsForgetting(q) ==
    /\ pc[q] \in {"loading", "asking"}
    /\ Goes(q, "failed")
    /\ UNCHANGED <<sessions, content, old, target, mine, backup, round, answers, allowed>>

\* A picture that cannot be loaded or models that fail: the session is put back
\* where it was, the question stays in it.
QueryFails(q) ==
    /\ pc[q] \in {"loading", "asking"}
    /\ sessions' = IF backup[q] = None THEN sessions
                   ELSE With(sessions, backup[q], mine[q])
    /\ Goes(q, "failed")
    /\ UNCHANGED <<content, old, target, mine, backup, round, answers, allowed>>

\* limit_length: the system prompt and the last entries.
Limited(s) ==
    LET system == SelectSeq(SubSeq(s, 1, 1), LAMBDA e : e.role = "system")
        rest == SubSeq(s, Len(system) + 1, Len(s))
    IN  system \o (IF Len(rest) >= LenLimit
                   THEN SubSeq(rest, Len(rest) - LenLimit + 1, Len(rest)) ELSE rest)

\* Faulty variant: the prompt is counted and cut off like the rest.
LimitedFlat(s) == IF Len(s) >= LenLimit THEN SubSeq(s, Len(s) - LenLimit + 1, Len(s)) ELSE s

\* The answer is sent: the session is kept under its id, and sessions that were
\* not used for long are dropped.
Sent(q) ==
    /\ pc[q] = "sending"
    /\ answers' = Append(answers, q)
    /\ content' = [content EXCEPT ![mine[q]] = Limited(@)]
    /\ LET kept == With(sessions, Len(answers'), mine[q])
       IN  sessions' = [m \in {x \in DOMAIN kept : kept[x] \notin old} |-> kept[m]]
    /\ Goes(q, "done")
    /\ UNCHANGED <<old, target, mine, backup, round, allowed>>

\* It cannot be sent.
SendFails(q) ==
    /\ pc[q] = "sending"
    /\ Goes(q, "done")
    /\ UNCHANGED <<sessions, content, old, target, mine, backup, round, answers, allowed>>

\* Half a day goes by.
Ages(s) ==
    /\ s \in DOMAIN content \ old
    /\ old' = old \cup {s}
    /\ UNCHANGED <<sessions, content, queryVars, answers, allowed>>

\* A superuser takes the group off the white list, or puts it on again.
Switch ==
    /\ allowed' = ~allowed
    /\ UNCHANGED <<sessions, content, old, queryVars, answers>>

Works(q) ==
    \/ Resume(q) \/ Start(q) \/ StartRefused(q) \/ Loaded(q) \/ Answered(q)
    \/ ToolRuns(q) \/ ToolFails(q) \/ QueryFails(q) \/ Sent(q) \/ SendFails(q)

Next ==
    \/ \E q \in Queries : Works(q) \/ \E to \in Messages \cup {None, Foreign} : Ask(q, to)
    \/ \E s \in Sids : Ages(s)
    \/ Switch

Spec == Init /\ [][Next]_vars

-----------------------------------------------------------------------------

Working == {q \in Queries : pc[q] \in {"loading", "asking", "tool", "sending"}}

\* What is kept is a session, and a query at work has one.
TypeOK ==
    /\ DOMAIN sessions \subseteq 1 .. Len(answers)
    /\ \A m \in DOMAIN sessions : sessions[m] \in DOMAIN content
    /\ Len(content) <= Cardinality(Queries) /\ old \subseteq DOMAIN content
    /\ \A q \in Working : mine[q] \in DOMAIN content
    /\ \A q \in Queries : round[q] <= Rounds

\* No two queries write into one session at a time, and none writes into one
\* that others may take up: people who reply to one answer at the same moment
\* are not mixed (sessions.pop).
OneHolder ==
    /\ \A p, q \in Working : mine[p] = mine[q] => p = q
    /\ \A q \in Working : \A m \in DOMAIN sessions : sessions[m] # mine[q]
    /\ \A m, n \in DOMAIN sessions : sessions[m] = sessions[n] => m = n

\* The queries message m goes back to, one reply after the other.
Thread[m \in Messages \cup {None, Foreign}] ==
    IF m < 1 THEN {} ELSE {answers[m]} \cup Thread[target[answers[m]]]

\* A session holds one line of conversation: what was asked and answered on the
\* way to the message it is kept under, and failed questions to that line.
OneThread ==
    \A m \in DOMAIN sessions :
        \A e \in ToSet(content[sessions[m]]) :
            \/ e.of \in Thread[m]
            \/ /\ pc[e.of] = "failed" /\ backup[e.of] # None
               /\ answers[backup[e.of]] \in Thread[m]

\* The prompt a session began with is never cut off, however long it grows
\* (limit_length).
PromptStays ==
    [][\A s \in DOMAIN content :
         content[s] # <<>> /\ Head(content[s]).role = "system"
         => content'[s] # <<>> /\ Head(content'[s]) = Head(content[s])]_vars

\* A query that fails leaves the message it replied to as it was: the
\* conversation can be gone on with from there (session_id_backup).
FailureKeepsTheThread ==
    [][\A q \in Queries :
         pc[q] # "failed" /\ pc'[q] = "failed" /\ backup[q] # None
         => backup[q] \in DOMAIN sessions' /\ sessions'[backup[q]] = mine[q]]_vars

=============================================================================
