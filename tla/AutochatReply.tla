--------------------------- MODULE AutochatReply ----------------------------
(***************************************************************************)
(* chat() of the autochat service for one group: what its worker does with *)
(* each item that AutochatFeed hands to it, with the status and the        *)
(* memories it keeps in files (services/autochat/serve.py, memory.py).     *)
(*                                                                         *)
(* Items are numbered as they happen.  Willingness is counted in whole     *)
(* steps, Sure of them make a reply certain.  Every await may fail, and    *)
(* the service may be restarted in any of them.                            *)
(***************************************************************************)
EXTENDS Integers, Sequences, FiniteSets, SequencesExt, FiniteSetsExt

CONSTANTS
    Kinds,        \* what may happen in the group
    Longs,        \* whether messages may be long
    Plans,        \* what the model may answer: sequences of actions
    Sure, Limit,  \* willingness that is certain to reply, and its limit
    Gain,         \* increase per kind of item
    HistoryNum,   \* chat.history_msg_num
    Recall,       \* chat.mem.short_em_num
    Threshold,    \* weight that makes a memory long-term
    ForgetAfter,  \* age at which a short-term memory may be forgotten
    Cost,         \* willingness a reply costs, after it is halved
    KeepIds, KeepNotices, KeepSelf,
    MaxItems, MaxTime, MaxRestarts  \* bounds

ReplyAssumption ==
    /\ {Sure, Limit, HistoryNum, Recall, Threshold, ForgetAfter, Cost, KeepIds, KeepNotices, KeepSelf,
        MaxItems, MaxTime, MaxRestarts} \subseteq Nat
    /\ Kinds \subseteq {"msg", "command", "own", "poke", "event"} /\ Longs \subseteq BOOLEAN
    /\ Gain \in [{"msg", "poke"} -> Nat]

VARIABLES
    clock,
    items,     \* what happened: [kind, time, long]
    stored,    \* how many of them the bot has in its database
    next,      \* items the worker took from its queue
    pc,        \* "idle" or the await the worker is in
    will, checked, lastReply, selfIds,  \* GroupStatus
    notices,   \* group_notices
    selfInfo,  \* _self_infos has the group
    real,      \* real_msgs, newest first
    embedded,  \* the message whose embedding is asked for, 0 for none
    short,     \* short_ems
    plan,      \* the actions still to be executed
    noted,     \* send_msg_id_texts
    em,        \* event memories: [long, weight, born], by number
    sm,        \* ids of the self memories
    sent,      \* messages that reached the group, [at, heard]; places are ids
    before,    \* how many had when the worker took its item
    restarts

\* GroupStatus.
status == <<will, checked, lastReply, selfIds>>
known  == <<notices, selfInfo>>
read   == <<real, embedded, short>>
locals == <<read, plan, noted, before>>
\* EventMemory, and what is said.
mem    == <<em, sm>>
env    == <<clock, items, stored, restarts>>
vars   == <<env, next, pc, status, known, read, plan, noted, mem, sent, before>>

Init ==
    /\ clock = 1 /\ items = <<>> /\ stored = 0 /\ restarts = 0
    /\ next = 0 /\ pc = "idle"
    /\ will = 0 /\ checked = 0 /\ lastReply = 0 /\ selfIds = <<>>
    /\ notices = <<>> /\ selfInfo = FALSE
    /\ real = <<>> /\ embedded = 0 /\ short = {}
    /\ plan = <<>> /\ noted = <<>>
    /\ em = <<>> /\ sm = <<>>
    /\ sent = <<>> /\ before = 0

Item == items[next]
LastOf(seq, n) == IF Len(seq) > n THEN SubSeq(seq, Len(seq) - n + 1, Len(seq)) ELSE seq
Least(a, b)  == IF a < b THEN a ELSE b

-----------------------------------------------------------------------------
(* The group and the bot.                                                  *)

\* Something happens: a message, a command, a message of the bot itself, a poke
\* of the bot, or another event.
Happens(kind, long) ==
    /\ Len(items) < MaxItems
    /\ items' = Append(items, [kind |-> kind, time |-> clock, long |-> long])
    /\ UNCHANGED <<clock, stored, restarts, next, pc, status, known, read, plan, noted, mem,
                   sent, before>>

\* The bot writes its batch of messages into the database.
Store ==
    /\ stored < Len(items)
    /\ stored' = Len(items)
    /\ UNCHANGED <<clock, items, restarts, next, pc, status, known, read, plan, noted, mem,
                   sent, before>>

Tick ==
    /\ clock < MaxTime
    /\ clock' = clock + 1
    /\ UNCHANGED <<items, stored, restarts, next, pc, status, known, read, plan, noted, mem,
                   sent, before>>

-----------------------------------------------------------------------------
(* The worker.                                                             *)

\* chat returns: what it knew locally is gone.
Ends ==
    /\ pc' = "idle"
    /\ real' = <<>> /\ embedded' = 0 /\ short' = {} /\ plan' = <<>> /\ noted' = <<>>
    /\ before' = 0

\* The worker takes the next item and asks for its own name when it has none.
Take ==
    /\ pc = "idle" /\ next < Len(items)
    /\ next' = next + 1
    /\ before' = Len(sent)
    /\ pc' = IF selfInfo THEN "filter" ELSE "info"
    /\ UNCHANGED <<env, status, known, read, plan, noted, mem, sent>>

InfoAnswered ==
    /\ pc = "info"
    /\ selfInfo' = TRUE
    /\ pc' = "filter"
    /\ UNCHANGED <<env, next, status, notices, read, plan, noted, mem, sent, before>>

\* Messages of others and pokes of the bot are answered, unless they came while
\* the last reply was made.
Concerns == Item.kind \in {"msg", "poke"} /\ Item.time > lastReply

\* remember_notice
Remembered == IF Item.kind \in {"poke", "event"}
              THEN LastOf(Append(notices, next), KeepNotices) ELSE notices

Ignore ==
    /\ pc = "filter" /\ ~Concerns
    /\ notices' = Remembered
    /\ Ends
    /\ UNCHANGED <<env, next, status, selfInfo, mem, sent>>

\* The willingness after an item: it fades with time and grows with the item.
Willingness ==
    LET faded == IF checked = 0 THEN 0 ELSE Least(clock - checked, will)
    IN  Least(will - faded + Gain[Item.kind], Limit)

\* The item is weighed; the dice decide unless willingness is sure or none.
Weigh(reply) ==
    /\ pc = "filter" /\ Concerns
    /\ reply \in (IF Willingness >= Sure THEN {TRUE}
                  ELSE IF Willingness <= 0 THEN {FALSE} ELSE BOOLEAN)
    /\ notices' = Remembered
    /\ will' = Willingness
    /\ checked' = clock
    /\ IF reply THEN pc' = "history" /\ UNCHANGED locals ELSE Ends
    /\ UNCHANGED <<env, next, lastReply, selfIds, selfInfo, mem, sent>>

Messages == {n \in 1..stored : items[n].kind \in {"msg", "command", "own"}}

\* What the query may return: the latest messages, latest first.  Times are whole
\* seconds, and of the messages of one second the database gives any, in any order.
Answers ==
    LET latestFirst(rows) ==
            \A i, j \in DOMAIN rows : i < j =>
                rows[i] # rows[j] /\ items[rows[i]].time >= items[rows[j]].time
        latest(rows) == \A i \in DOMAIN rows, n \in Messages \ ToSet(rows) :
                            items[rows[i]].time >= items[n].time
    IN  {rows \in [1..Least(2 * HistoryNum, Cardinality(Messages)) -> Messages] :
            latestFirst(rows) /\ latest(rows)}

\* The messages that are shown, and at their end the message itself when the
\* answer lacks it.
Fetched(rows) ==
    LET shown == SelectSeq(rows, LAMBDA n : items[n].kind # "command")
    IN  IF Item.kind = "msg" /\ next \notin ToSet(shown) THEN Append(shown, next) ELSE shown

\* list.sort by the time, reversed: messages of one second stay in their order.
ByTime(seq) ==
    LET ahead(i, j) == \/ items[seq[i]].time > items[seq[j]].time
                       \/ items[seq[i]].time = items[seq[j]].time /\ i < j
        order == SortSeq([i \in DOMAIN seq |-> i], ahead)
    IN  [i \in DOMAIN seq |-> seq[order[i]]]

First(seq) == SubSeq(seq, 1, Least(HistoryNum, Len(seq)))

\* Faulty variant: the history is cut before it is sorted.
NewestCutFirst(rows) == ByTime(First(Fetched(rows)))

Newest(rows) == First(ByTime(Fetched(rows)))

HistoryAnswered ==
    /\ pc = "history"
    /\ real' \in {Newest(rows) : rows \in Answers}
    /\ pc' = "summary"
    /\ UNCHANGED <<env, next, status, known, embedded, short, plan, noted, mem, sent, before>>

\* The summary is there; the embedding of a long message is asked for with it.
SummaryAnswered ==
    /\ pc = "summary"
    /\ embedded' = LET long == SelectSeq(Reverse(real), LAMBDA n : items[n].long)
                   IN  IF long = <<>> THEN 0 ELSE Head(long)
    /\ pc' = "embedding"
    /\ UNCHANGED <<env, next, status, known, real, short, plan, noted, mem, sent, before>>

\* em_query for short-term memories: the nearest are as many as are asked for,
\* if there are as many, whichever embedding they are near to.
MayBeNearest ==
    LET shortTerm == {m \in DOMAIN em : ~em[m].long}
    IN  kSubset(Least(Recall, Cardinality(shortTerm)), shortTerm)

\* The memories that are near are recalled, and the model is asked.
EmbeddingAnswered(near) ==
    /\ pc = "embedding"
    /\ near \in MayBeNearest
    /\ short' = near
    /\ pc' = "asking"
    /\ UNCHANGED <<env, next, status, known, real, embedded, plan, noted, mem, sent, before>>

\* Stickers that are not found in time are left out.
Executable(answer, found) ==
    IF found THEN answer ELSE SelectSeq(answer, LAMBDA a : a # "sticker")

\* The model answers.
LlmAnswered(answer, found) ==
    /\ pc = "asking"
    /\ plan' = Executable(answer, found)
    /\ pc' = "acting"
    /\ UNCHANGED <<env, next, status, known, read, noted, mem, sent, before>>

-----------------------------------------------------------------------------
(* The actions of a reply.                                                 *)

\* Faulty variant: the time of the reply is kept when the whole reply is out.
NotedLater(id) ==
    /\ selfIds' = LastOf(Append(selfIds, id), KeepIds)
    /\ lastReply' = IF Len(plan) = 1 THEN clock ELSE lastReply

\* note_sent_msg: the id of a message that was sent, and the time.
Noted(id) ==
    /\ selfIds' = LastOf(Append(selfIds, id), KeepIds)
    /\ lastReply' = clock

Doing(kinds) == pc = "acting" /\ plan # <<>> /\ Head(plan) \in kinds

\* Faulty variant: what is going to be sent is noted for the memories first.
FailsNoted ==
    IF Head(plan) = "text" THEN Ends
    ELSE /\ plan' = IF Head(plan) = "tts" THEN <<"text">> \o Tail(plan) ELSE Tail(plan)
         /\ noted' = Append(noted, Len(sent) + 1)
         /\ UNCHANGED <<pc, read, before>>

\* A sticker that cannot be sent is skipped, a voice becomes a text, and a text
\* ends the reply.
Fails ==
    IF Head(plan) = "text" THEN Ends
    ELSE /\ plan' = IF Head(plan) = "tts" THEN <<"text">> \o Tail(plan) ELSE Tail(plan)
         /\ UNCHANGED <<pc, read, noted, before>>

\* A text, sticker or voice is sent.
Sends ==
    /\ Doing({"text", "sticker", "tts"})
    /\ sent' = Append(sent, [at |-> clock, heard |-> TRUE])
    /\ noted' = Append(noted, Len(sent) + 1)
    /\ Noted(Len(sent) + 1)
    /\ plan' = Tail(plan)
    /\ UNCHANGED <<env, next, pc, will, checked, known, read, mem, before>>

\* It is not, because autochat was turned off in the group, say; or it is and
\* the answer does not come.
SendFails(arrives) ==
    /\ Doing({"text", "sticker", "tts"})
    /\ Fails
    /\ sent' = IF arrives THEN Append(sent, [at |-> clock, heard |-> FALSE]) ELSE sent
    /\ UNCHANGED <<env, next, status, known, mem>>

\* Pokes and reactions leave no trace, and neither do those that fail.
Gestures ==
    /\ Doing({"poke", "react"})
    /\ plan' = Tail(plan)
    /\ UNCHANGED <<env, next, pc, status, known, read, noted, mem, sent, before>>

\* em_add, em_increase_weight: the memories with the new one.
Strengthened ==
    [m \in DOMAIN em \cup {next} |->
        IF m = next THEN [long |-> FALSE, weight |-> 0, born |-> clock]
        ELSE IF m \in short
        THEN [em[m] EXCEPT !.weight = @ + 1, !.long = @ \/ em[m].weight + 1 >= Threshold]
        ELSE em[m]]

\* em_forget: short-term memories that are old.
Forgettable(e) == {m \in DOMAIN e : ~e[m].long /\ e[m].born < clock - ForgetAfter}

\* sm_add for each message that was sent.
SelfMemories == LastOf(sm \o noted, KeepSelf)

\* Faulty variant: willingness may fall below zero.
TiredBelowZero == (will \div 2) - Cost

Tired == IF will \div 2 > Cost THEN (will \div 2) - Cost ELSE 0

\* The reply is out: willingness falls, and the memories are updated.
Settle(forgotten) ==
    /\ pc = "acting" /\ plan = <<>>
    /\ forgotten \subseteq Forgettable(Strengthened)
    /\ will' = Tired
    /\ em' = [m \in DOMAIN Strengthened \ forgotten |-> Strengthened[m]]
    /\ sm' = SelfMemories
    /\ Ends
    /\ UNCHANGED <<env, next, checked, lastReply, selfIds, known, sent>>

\* The store of the memories fails.
SettleFails ==
    /\ pc = "acting" /\ plan = <<>>
    /\ will' = Tired
    /\ Ends
    /\ UNCHANGED <<env, next, checked, lastReply, selfIds, known, mem, sent>>

AwaitFails ==
    /\ pc \in {"info", "history", "summary", "embedding", "asking"}
    /\ Ends
    /\ UNCHANGED <<env, next, status, known, mem, sent>>

\* The service is started again: the status and the memories are in files, the
\* items it was handed are gone.
Restart ==
    /\ restarts < MaxRestarts
    /\ restarts' = restarts + 1
    /\ next' = Len(items)
    /\ notices' = <<>> /\ selfInfo' = FALSE
    /\ Ends
    /\ UNCHANGED <<clock, items, stored, status, mem, sent>>

Worker ==
    \/ Take \/ InfoAnswered \/ Ignore
    \/ \E reply \in BOOLEAN : Weigh(reply)
    \/ HistoryAnswered \/ SummaryAnswered
    \/ \E near \in SUBSET DOMAIN em : EmbeddingAnswered(near)
    \/ \E answer \in Plans, found \in BOOLEAN : LlmAnswered(answer, found)
    \/ Sends \/ Gestures
    \/ \E arrives \in BOOLEAN : SendFails(arrives)
    \/ \E forgotten \in SUBSET (DOMAIN em \cup {next}) : Settle(forgotten)
    \/ SettleFails \/ AwaitFails

Next ==
    \/ \E kind \in Kinds, long \in Longs : Happens(kind, long)
    \/ Store \/ Tick \/ Restart \/ Worker

Spec == Init /\ [][Next]_vars

-----------------------------------------------------------------------------
Ids == 1..Len(sent)

\* The types of the state.
TypeOK ==
    /\ pc \in {"idle", "info", "filter", "history", "summary", "embedding", "asking", "acting"}
    /\ next \in 0..Len(items) /\ stored \in 0..Len(items)
    /\ will \in 0..Limit /\ {checked, lastReply} \subseteq 0..clock
    /\ ToSet(selfIds) \subseteq Ids /\ Len(selfIds) <= KeepIds
    /\ Len(notices) <= KeepNotices /\ Len(real) <= HistoryNum
    /\ DOMAIN em \subseteq 1..next /\ short \subseteq DOMAIN em
    /\ Len(sm) <= KeepSelf

\* What came while an earlier reply was made is not answered: an item that is
\* answered is younger than every message the service knew to be sent when it
\* took the item, over failed replies and restarts (the comment in chat).
StaleIsIgnored ==
    pc \notin {"idle", "info", "filter"} =>
        \A i \in 1..before : sent[i].heard => sent[i].at < Item.time

\* The service remembers having said only what it knows to be sent, each once
\* and in order (send_msg_id_texts, sm_add).
RemembersWhatItSaid ==
    /\ \A i \in DOMAIN sm : sm[i] \in Ids /\ sent[sm[i]].heard
    /\ \A i, j \in DOMAIN sm : i < j => sm[i] < sm[j]

\* The message that is answered is part of what the model reads, unless the
\* history is full of messages that are no older: it is appended when the database
\* lacks it, and no older message is kept in its place (the comment in chat).
\* Others of its own second may be.
AnsweredIsRead ==
    (pc \in {"summary", "embedding", "asking", "acting"} /\ Item.kind = "msg") =>
        \/ next \in ToSet(real)
        \/ Len(real) = HistoryNum /\ \A n \in ToSet(real) : items[n].time >= Item.time

\* A memory that was recalled often enough stays, and stays long-term
\* (em_increase_weight, em_forget).
LongTermStays ==
    [][\A m \in DOMAIN em : em[m].long => m \in DOMAIN em' /\ em'[m].long]_vars

=============================================================================
