------------------------------ MODULE Dispatch ------------------------------
(***************************************************************************)
(* A message on its way through the bot: _handle_payload logs it           *)
(* (core/log_event.py) and emits it on the bus (core/bus.py), whose        *)
(* subscribers for messages are the recorder (record/__init__.py, priority *)
(* -1) and the command dispatcher (utils/handler.py, priority 0).          *)
(*                                                                         *)
(* Every report of a message is a task of its own.  A task runs alone      *)
(* until it awaits something: the name of a group, the hooks of the        *)
(* recorder, the message replied to, the notice of a cooldown, the command *)
(* itself, or the sending of a reply.                                      *)
(***************************************************************************)
EXTENDS Integers, Sequences, FiniteSets, SequencesExt, FiniteSetsExt

CONSTANTS
    Ids,            \* message ids
    Reports,        \* the reports of them, <<id, n>>: two connections may report one
    May,            \* what each message may be: [user, group, segs, sent]
    Supers,         \* superusers of the configuration
    SelfId,         \* the bot's own account
    Groups, NoGroup,
    Handlers,       \* the commands in the order of CmdHandler.cmd_handlers
    Cds, NoCd,      \* cooldowns
    Interval,       \* seconds of a cooldown
    NoticeInterval, \* seconds between two notices of one cooldown to one user
    SeenLimit,      \* _SEEN_LIMIT
    MaxTime         \* bound: the clock

DispatchAssumption ==
    /\ {Interval, NoticeInterval, SeenLimit, MaxTime} \subseteq Nat
    /\ Reports \subseteq Ids \X Nat
    /\ NoGroup \notin Groups /\ NoCd \notin Cds
    /\ \A i \in Ids : \A c \in May[i] : c.group \in Groups \cup {NoGroup}
    /\ \A h \in DOMAIN Handlers : Handlers[h].cd \in Cds \cup {NoCd}

VARIABLES
    content,        \* what each message is, once it is reported
    pc,             \* where the task of each report is
    rank,           \* handlers the dispatcher still has to try
    toMe,           \* reports whose message is for the bot
    seen,           \* _seen_msg_ids
    overflows,      \* how often _seen_msg_ids was emptied
    logged,         \* the messages in the log, in order
    named,          \* groups whose name is in the cache
    noted,          \* message_id_set of the recorder
    recorded,       \* messages put into msgs_to_insert, in order
    clock,
    last,           \* time of the last command a cooldown let through
    lastNotice,     \* time of the last notice of a cooldown
    on,             \* groups of the white list
    runs            \* the commands that ran: [report, handler, at]

taskVars == <<content, pc, rank, toMe>>
logVars  == <<seen, overflows, logged, named>>
recVars  == <<noted, recorded>>
cdVars   == <<last, lastNotice>>
vars     == <<taskVars, logVars, recVars, cdVars, clock, on, runs>>

Contents  == UNION {May[i] : i \in Ids}
NoContent == [user |-> SelfId, group |-> NoGroup, segs |-> <<>>, sent |-> FALSE]
Users     == {c.user : c \in Contents}
Long      == -1 - Interval - NoticeInterval   \* the time of what never happened

Message(r) == content[r[1]]

-----------------------------------------------------------------------------
(* Messages.  Their segments are "reply", "@me", "@other", "blank" and     *)
(* words of text.                                                          *)

\* The segments from the first that is none of those skipped.
From(segs, skipped) ==
    LET kept == {i \in DOMAIN segs : segs[i] \notin skipped}
    IN  IF kept = {} THEN <<>> ELSE SubSeq(segs, Min(kept), Len(segs))

\* command_text: the text, but for what is addressed to somebody else.
CommandText(c) ==
    LET rest == From(c.segs, {"reply", "@me", "blank"})
    IN  IF rest # <<>> /\ Head(rest) = "@other" THEN <<>>
        ELSE SelectSeq(rest, LAMBDA s : s \notin {"reply", "@me", "@other"})

\* get_reply_id.
Replies(c) == "reply" \in Range(c.segs)

\* _check_to_me: private messages, and those with the bot at either end.
CheckToMe(c) ==
    LET shown == From(SelectSeq(c.segs, LAMBDA s : s # "blank"), {"reply"})
    IN  c.group = NoGroup \/ (shown # <<>> /\ "@me" \in {Head(shown), Last(shown)})

-----------------------------------------------------------------------------
(* Commands.  A handler is [cmds, priority, block, super, listed, cd,      *)
(* toMe, kind]; a text and a command are sequences of words.               *)

\* CmdHandler.match: the length of the longest command of h that text begins
\* with, 0 for a handler of every message, -1 when none matches.
MatchLen(h, text) ==
    IF <<>> \in Handlers[h].cmds THEN 0
    ELSE Max({-1} \cup {Len(c) : c \in {d \in Handlers[h].cmds : IsPrefix(d, text)}})

\* The order in which _dispatch_commands tries the handlers that match.
Before(text, h, k) ==
    \/ MatchLen(h, text) > MatchLen(k, text)
    \/ /\ MatchLen(h, text) = MatchLen(k, text)
       /\ \/ Handlers[h].priority > Handlers[k].priority
          \/ Handlers[h].priority = Handlers[k].priority /\ h < k

\* A private message of the bot's own account.
ToItself(c) == c.group = NoGroup /\ c.user = SelfId

\* The handlers that _dispatch_commands tries for a message, and the one it tries
\* first of those that are left (text is bound, so that TLC computes it once).
Matching ==
    [c \in Contents |->
        IF c.sent \/ ToItself(c) THEN {}
        ELSE {h \in DOMAIN Handlers : MatchLen(h, CommandText(c)) >= 0}]
Best(r) ==
    CHOOSE h \in rank[r] : \E text \in {CommandText(Message(r))} :
        \A k \in rank[r] \ {h} : Before(text, h, k)

\* The checks of dispatch that neither wait nor change anything.
Admits(h, c) ==
    /\ Handlers[h].super => c.user \in Supers
    /\ Handlers[h].listed =>
         (c.group \in Groups /\ (c.user \in Supers \/ c.group \in on))

\* ColdDown.check refuses.
Cooling(h, c) ==
    /\ Handlers[h].cd \in Cds
    /\ c.user \notin Supers
    /\ clock - last[Handlers[h].cd][c.user] < Interval

-----------------------------------------------------------------------------
Init ==
    /\ content = [i \in Ids |-> NoContent]
    /\ pc = [r \in Reports |-> "unread"]
    /\ rank = [r \in Reports |-> {}]
    /\ toMe = {}
    /\ seen = {} /\ overflows = 0 /\ logged = <<>> /\ named = {}
    /\ noted = {} /\ recorded = <<>>
    /\ clock = 0
    /\ last = [d \in Cds |-> [u \in Users |-> Long]]
    /\ lastNotice = [d \in Cds |-> [u \in Users |-> Long]]
    /\ on = Groups
    /\ runs = <<>>

\* No other task is between two awaits.
Turn(r) == \A q \in Reports \ {r} : pc[q] # "trying"

Goes(r, to) == pc' = [pc EXCEPT ![r] = to]

\* Faulty variant: the id is remembered only once the message is logged.
RememberNothing(i) == UNCHANGED <<seen, overflows>>

\* Faulty variant: the limit is checked before the id is added.
RememberFirst(i) ==
    LET full == Cardinality(seen) > SeenLimit
    IN  /\ seen' = IF full THEN {i} ELSE seen \cup {i}
        /\ overflows' = overflows + IF full THEN 1 ELSE 0

\* remember_logged_msg.
Remember(i) ==
    LET more == seen \cup {i}
        full == Cardinality(more) > SeenLimit
    IN  /\ seen' = IF full THEN {} ELSE more
        /\ overflows' = overflows + IF full THEN 1 ELSE 0

\* _dispatch_commands begins.
Dispatches(r, c) ==
    /\ Goes(r, "trying")
    /\ rank' = [rank EXCEPT ![r] = Matching[c]]

\* Faulty variant: the recorder notes a message when it has its hooks behind it.
EmitsUnnoted(r, c) ==
    IF r[1] \in noted THEN Dispatches(r, c) /\ UNCHANGED noted
    ELSE Goes(r, "hooks") /\ UNCHANGED <<noted, rank>>

\* emit reaches the recorder: a message it has not seen waits for its hooks.
Emits(r, c) ==
    IF r[1] \in noted \/ ToItself(c)
    THEN Dispatches(r, c) /\ UNCHANGED noted
    ELSE /\ noted' = noted \cup {r[1]}
         /\ Goes(r, "hooks")
         /\ UNCHANGED rank

\* The task of a report begins: log_event, which may await the group's name.
Arrive(r, c) ==
    /\ Turn(r) /\ pc[r] = "unread"
    /\ c = Message(r) \/ \A q \in Reports : q[1] = r[1] => pc[q] = "unread"
    /\ content' = [content EXCEPT ![r[1]] = c]
    /\ IF r[1] \in seen
       THEN Emits(r, c) /\ UNCHANGED <<seen, overflows, logged>>
       ELSE /\ Remember(r[1])
            /\ IF c.group \in Groups \ named
               THEN Goes(r, "naming") /\ UNCHANGED <<rank, noted, logged>>
               ELSE Emits(r, c) /\ logged' = Append(logged, r[1])
    /\ toMe' = IF CheckToMe(c) THEN toMe \cup {r} ELSE toMe
    /\ UNCHANGED <<named, recorded, cdVars, clock, on, runs>>

\* The name of the group, or the failure to get it.
NameAnswered(r, found) ==
    /\ pc[r] = "naming"
    /\ named' = IF found THEN named \cup {Message(r).group} ELSE named
    /\ logged' = Append(logged, r[1])
    /\ Emits(r, Message(r))
    /\ UNCHANGED <<content, toMe, seen, overflows, recorded, cdVars, clock, on, runs>>

\* The before hooks are over, whatever became of them.  The black list of the
\* recorder, empty here, lets no private message pass.
HooksEnd(r) ==
    /\ pc[r] = "hooks"
    /\ recorded' = IF Message(r).group \in Groups THEN Append(recorded, r[1]) ELSE recorded
    /\ Dispatches(r, Message(r))
    /\ UNCHANGED <<content, toMe, logVars, noted, cdVars, clock, on, runs>>

-----------------------------------------------------------------------------
(* dispatch of the handlers in turn.                                       *)

Tries(r, h) == pc[r] = "trying" /\ h \in rank[r] /\ h = Best(r)

Next1(r) == rank' = [rank EXCEPT ![r] = @ \ {Best(r)}]

KnownToBeToMe(r, h) == ~Handlers[h].toMe \/ r \in toMe

Refuse(r, h) ==
    /\ Tries(r, h)
    /\ \/ ~KnownToBeToMe(r, h) /\ ~Replies(Message(r))
       \/ KnownToBeToMe(r, h) /\ ~Admits(h, Message(r))
    /\ Next1(r)
    /\ UNCHANGED <<content, pc, toMe, logVars, recVars, cdVars, clock, on, runs>>

\* only_to_me: the message replied to has to be looked at.
Ask(r, h) ==
    /\ Tries(r, h)
    /\ ~KnownToBeToMe(r, h) /\ Replies(Message(r))
    /\ Goes(r, "asking")
    /\ UNCHANGED <<content, rank, toMe, logVars, recVars, cdVars, clock, on, runs>>

\* Faulty variant: a message that is not for the bot is asked about again.
AskAnsweredAgain(r, mine) ==
    /\ pc[r] = "asking"
    /\ Goes(r, "trying")
    /\ toMe' = IF mine THEN toMe \cup {r} ELSE toMe
    /\ UNCHANGED <<content, rank, logVars, recVars, cdVars, clock, on, runs>>

AskAnswered(r, mine) ==
    /\ pc[r] = "asking"
    /\ Goes(r, "trying")
    /\ IF mine THEN toMe' = toMe \cup {r} /\ UNCHANGED rank
               ELSE Next1(r) /\ UNCHANGED toMe
    /\ UNCHANGED <<content, logVars, recVars, cdVars, clock, on, runs>>

\* The cooldown refuses, with a notice unless one was sent a short while ago.
Cool(r, h) ==
    LET c == Message(r)
        d == Handlers[h].cd
    IN  /\ Tries(r, h) /\ KnownToBeToMe(r, h) /\ Admits(h, c) /\ Cooling(h, c)
        /\ IF clock - lastNotice[d][c.user] > NoticeInterval
           THEN /\ lastNotice' = [lastNotice EXCEPT ![d][c.user] = clock]
                /\ Goes(r, "noticing")
                /\ UNCHANGED rank
           ELSE Next1(r) /\ UNCHANGED <<lastNotice, pc>>
        /\ UNCHANGED <<content, toMe, logVars, recVars, last, clock, on, runs>>

NoticeSent(r) ==
    /\ pc[r] = "noticing"
    /\ Goes(r, "trying")
    /\ Next1(r)
    /\ UNCHANGED <<content, toMe, logVars, recVars, cdVars, clock, on, runs>>

\* Faulty variant: the cooldown starts when the command is answered.
RunBeforeCooldown(r, h) ==
    /\ Tries(r, h) /\ KnownToBeToMe(r, h)
    /\ Admits(h, Message(r)) /\ ~Cooling(h, Message(r))
    /\ runs' = Append(runs, [report |-> r, handler |-> h, at |-> clock])
    /\ Goes(r, "running")
    /\ UNCHANGED <<content, rank, toMe, logVars, recVars, cdVars, clock, on>>

\* All checks passed: the cooldown starts and the command runs.
Run(r, h) ==
    LET c == Message(r)
        d == Handlers[h].cd
    IN  /\ Tries(r, h) /\ KnownToBeToMe(r, h) /\ Admits(h, c) /\ ~Cooling(h, c)
        /\ last' = IF d \in Cds /\ c.user \notin Supers
                   THEN [last EXCEPT ![d][c.user] = clock] ELSE last
        /\ runs' = Append(runs, [report |-> r, handler |-> h, at |-> clock])
        /\ Goes(r, "running")
        /\ UNCHANGED <<content, rank, toMe, logVars, recVars, lastNotice, clock, on>>

Exhaust(r) ==
    /\ pc[r] = "trying" /\ rank[r] = {}
    /\ Goes(r, "done")
    /\ UNCHANGED <<content, rank, toMe, logVars, recVars, cdVars, clock, on, runs>>

\* Faulty variant: every handler that ran lets the next one have the message.
LeavesOpen(r) == Goes(r, "trying") /\ Next1(r)

\* dispatch is left in order: a blocking handler stops the event.
Leaves(r) ==
    IF Handlers[Best(r)].block
    THEN Goes(r, "done") /\ UNCHANGED rank
    ELSE Goes(r, "trying") /\ Next1(r)

\* The command returns, or ends without wanting a reply.
RunEnds(r) ==
    /\ pc[r] = "running" /\ Handlers[Best(r)].kind = "plain"
    /\ Leaves(r)
    /\ UNCHANGED <<content, toMe, logVars, recVars, cdVars, clock, on, runs>>

\* The command raises: what it wants to say is sent as a reply.
RunFails(r) ==
    /\ pc[r] = "running"
    /\ Goes(r, "replying")
    /\ UNCHANGED <<content, rank, toMe, logVars, recVars, cdVars, clock, on, runs>>

\* "/{name} on" and "/{name} off" have found their group.
Switch(r, g) ==
    /\ pc[r] = "running"
    /\ \/ Handlers[Best(r)].kind = "on"  /\ on' = on \cup {g}
       \/ Handlers[Best(r)].kind = "off" /\ on' = on \ {g}
    /\ Goes(r, "replying")
    /\ UNCHANGED <<content, rank, toMe, logVars, recVars, cdVars, clock, runs>>

\* The reply is sent; when it cannot be, its exception ends the emission.
ReplySent(r, sent) ==
    /\ pc[r] = "replying"
    /\ IF sent THEN Leaves(r) ELSE Goes(r, "done") /\ UNCHANGED rank
    /\ UNCHANGED <<content, toMe, logVars, recVars, cdVars, clock, on, runs>>

\* Time passes while tasks wait.
Tick ==
    /\ clock < MaxTime
    /\ \A r \in Reports : pc[r] # "trying"
    /\ clock' = clock + 1
    /\ UNCHANGED <<taskVars, logVars, recVars, cdVars, on, runs>>

\* A task whose turn it is goes on.
Progress(r) ==
    /\ Turn(r)
    /\ \/ \E found \in BOOLEAN : NameAnswered(r, found)
       \/ HooksEnd(r)
       \/ \E h \in rank[r] : Refuse(r, h) \/ Ask(r, h) \/ Cool(r, h) \/ Run(r, h)
       \/ \E mine \in BOOLEAN : AskAnswered(r, mine)
       \/ NoticeSent(r)
       \/ Exhaust(r)
       \/ RunEnds(r)
       \/ RunFails(r)
       \/ \E g \in Groups : Switch(r, g)
       \/ \E sent \in BOOLEAN : ReplySent(r, sent)

Next ==
    \/ \E r \in Reports : \E c \in May[r[1]] : Arrive(r, c)
    \/ \E r \in Reports : Progress(r)
    \/ Tick

Spec == Init /\ [][Next]_vars

\* Calls are answered or time out, and commands end.
Fairness == \A r \in Reports : WF_vars(Progress(r))
FairSpec == Spec /\ Fairness

-----------------------------------------------------------------------------
Places == {"unread", "naming", "hooks", "trying", "asking", "noticing", "running",
           "replying", "done"}

\* The types of the state.
TypeOK ==
    /\ content \in [Ids -> Contents \cup {NoContent}]
    /\ pc \in [Reports -> Places]
    /\ rank \in [Reports -> SUBSET DOMAIN Handlers]
    /\ toMe \subseteq Reports
    /\ seen \subseteq Ids /\ Cardinality(seen) <= SeenLimit /\ overflows \in Nat
    /\ Range(logged) \subseteq Ids /\ named \subseteq Groups
    /\ noted \subseteq Ids /\ Range(recorded) \subseteq Ids
    /\ clock \in 0..MaxTime
    /\ {last, lastNotice} \subseteq [Cds -> [Users -> {Long} \cup 0..MaxTime]]
    /\ on \subseteq Groups

\* A message stays out of the log while it is remembered: it is logged again
\* only after the set of remembered ids was emptied, however its reports
\* overlap (remember_logged_msg).
LoggedAgainOnlyAfterOverflow ==
    \A i \in Ids : Cardinality({n \in DOMAIN logged : logged[n] = i}) <= 1 + overflows

\* Reports of one message put it into the queue of the recorder once, though
\* the hooks of the first are awaited while the others arrive
\* (record_message).
RecordedOnce == IsInjective(recorded)

\* A command runs only on a message that the recorder has seen: it subscribed
\* with the smaller priority (bus.emit, record/__init__.py).
CommandsAreNoted == \A n \in DOMAIN runs : runs[n].report[1] \in noted

\* Two commands under one cooldown that one user sends are at least an
\* interval apart, whichever commands they are and however they overlap
\* (ColdDown.check).
CooldownSpaces ==
    \A n, k \in DOMAIN runs :
        LET d(x) == Handlers[runs[x].handler].cd
            u(x) == Message(runs[x].report).user
        IN  (n < k /\ d(n) \in Cds /\ d(n) = d(k) /\ u(n) = u(k) /\ u(n) \notin Supers)
            => runs[k].at - runs[n].at >= Interval

\* A report runs one blocking command at most, and nothing after it: not when
\* it fails, and not when even its error cannot be sent (dispatch).
NothingAfterABlock ==
    \A n, k \in DOMAIN runs :
        (n < k /\ runs[n].report = runs[k].report)
        => ~Handlers[runs[n].handler].block

\* Every report that arrived is done in the end.
ReportsEnd == []<>(\A r \in Reports : pc[r] \in {"unread", "done"})
=============================================================================
