--------------------------- MODULE AutochatFeed -----------------------------
(***************************************************************************)
(* How what happens in a group reaches the autochat service: the plugin    *)
(* (chat/autochat.py) puts messages and notices into the pool of its RPC   *)
(* client, the service (services/autochat) polls the pool over a           *)
(* connection it opens again when it is lost, and hands what it got to one *)
(* queue and one worker per group.                                         *)
(*                                                                         *)
(* What is pushed is numbered; a message is delivered once or, when the    *)
(* connection or the service fails, not at all.                            *)
(***************************************************************************)
EXTENDS Integers, Sequences, FiniteSets, SequencesExt

CONSTANTS
    Sessions, NoSession,  \* RPC connections
    Groups,
    Sigs, NoSig,          \* what identifies a notice; a message has NoSig
    GroupOf,              \* the group of a notice
    MaxLag,               \* bound: how old a notice is when it is reported
    MaxItems,             \* bound: messages and notices
    MaxFaults,            \* bound: faults
    MaxTime               \* bound: the clock

ASSUME FeedAssumption ==
    /\ NoSession \notin Sessions /\ NoSig \notin Sigs
    /\ GroupOf \in [Sigs -> Groups]
    /\ {MaxLag, MaxItems, MaxFaults, MaxTime} \subseteq Nat

VARIABLES
    clock,
    on,       \* groups where both white lists allow autochat
    recent,   \* _recent_notice_keys
    naming,   \* notices that wait for the names of their people
    items,    \* everything pushed: [group, sig, ts], ts 0 for messages
    link,     \* connections: "free", "up", "down"
    pool,     \* message_pool, by session
    closing,  \* refused sessions that are still to be closed
    client,   \* RpcSession.session of the service
    call,     \* get_new_msgs on its way: [on, got], or none
    queue,    \* group_queues
    busy,     \* what the worker of a group is chatting about, 0 for nothing
    handled,  \* what chat was called with, in order
    lost,     \* what a fault lost, or found no client
    faults

plugin  == <<clock, on, recent, naming>>
rpc     == <<link, closing, client>>
workers == <<queue, busy, handled>>
vars    == <<plugin, items, rpc, pool, call, workers, lost, faults>>

NoCall == [on |-> NoSession, got |-> <<>>]
Asked(s) == [on |-> s, got |-> <<0>>]     \* sent, not served yet
KEEP == 3                                 \* seconds a notice key is kept
NEAR == 2                                 \* seconds within which it is the same

Gap(a, b) == IF a < b THEN b - a ELSE a - b

Init ==
    /\ clock = 0 /\ on = Groups /\ recent = {} /\ naming = {} /\ items = <<>>
    /\ link = [s \in Sessions |-> "free"]
    /\ pool = <<>> /\ closing = {} /\ client = NoSession /\ call = NoCall
    /\ queue = <<>> /\ busy = [g \in Groups |-> 0] /\ handled = <<>>
    /\ lost = {} /\ faults = 0

-----------------------------------------------------------------------------
(* The plugin.                                                             *)

\* for cid in message_pool: append
Push(e) ==
    LET n == Len(items) + 1
    IN  /\ Len(items) < MaxItems
        /\ items' = Append(items, e)
        /\ pool' = [s \in DOMAIN pool |-> Append(pool[s], n)]
        /\ lost' = IF DOMAIN pool = {} THEN lost \cup {n} ELSE lost

\* record_new_message
NewMessage(g) ==
    /\ g \in on
    /\ Push([group |-> g, sig |-> NoSig, ts |-> 0])
    /\ UNCHANGED <<plugin, rpc, call, workers, faults>>

\* _notice_is_dup
IsDup(sig, ts) == \E k \in recent : k[2] = sig /\ Gap(k[1], ts) <= NEAR

\* Faulty variant: a notice is marked when its names are known.
NoticeUnmarked(sig, ts) ==
    /\ GroupOf[sig] \in on /\ ~IsDup(sig, ts)
    /\ Len(items) + Cardinality(naming) < MaxItems
    /\ naming' = naming \cup {<<ts, sig>>}
    /\ UNCHANGED <<clock, on, recent, items, rpc, pool, call, workers, lost, faults>>

\* record_group_notice, and the own poke of poke_group_member: the notice is
\* marked, then the names are awaited.
Notice(sig, ts) ==
    /\ GroupOf[sig] \in on
    /\ Len(items) + Cardinality(naming) < MaxItems
    /\ LET kept == {k \in recent : Gap(k[1], ts) <= KEEP}
       IN  IF IsDup(sig, ts)
           THEN recent' = kept /\ UNCHANGED naming
           ELSE /\ recent' = kept \cup {<<ts, sig>>}
                /\ naming' = naming \cup {<<ts, sig>>}
    /\ UNCHANGED <<clock, on, items, rpc, pool, call, workers, lost, faults>>

Named(e) ==
    /\ e \in naming
    /\ naming' = naming \ {e}
    /\ Push([group |-> GroupOf[e[2]], sig |-> e[2], ts |-> e[1]])
    /\ UNCHANGED <<clock, on, recent, rpc, call, workers, faults>>

Switch(g) ==
    /\ on' = IF g \in on THEN on \ {g} ELSE on \cup {g}
    /\ UNCHANGED <<clock, recent, naming, items, rpc, pool, call, workers, lost, faults>>

Tick ==
    /\ clock < MaxTime
    /\ clock' = clock + 1
    /\ UNCHANGED <<on, recent, naming, items, rpc, pool, call, workers, lost, faults>>

-----------------------------------------------------------------------------
(* The connection.                                                         *)

\* Faulty variant: on_connect goes on after it has refused a client.
ConnectBeside(s) ==
    /\ client = NoSession /\ link[s] = "free"
    /\ client' = s
    /\ link' = [link EXCEPT ![s] = "up"]
    /\ closing' = IF DOMAIN pool # {} THEN closing \cup {s} ELSE closing
    /\ pool' = [q \in DOMAIN pool \cup {s} |-> IF q = s THEN <<>> ELSE pool[q]]
    /\ UNCHANGED <<plugin, items, call, workers, lost, faults>>

\* RpcSession.connect of the service, and on_connect of the plugin.
Connect(s) ==
    /\ client = NoSession /\ link[s] = "free"
    /\ client' = s
    /\ link' = [link EXCEPT ![s] = "up"]
    /\ IF DOMAIN pool # {}
       THEN closing' = closing \cup {s} /\ UNCHANGED pool
       ELSE pool' = [q \in {s} |-> <<>>] /\ UNCHANGED closing
    /\ UNCHANGED <<plugin, items, call, workers, lost, faults>>

CloseRefused(s) ==
    /\ s \in closing
    /\ closing' = closing \ {s}
    /\ link' = [link EXCEPT ![s] = IF @ = "up" THEN "down" ELSE @]
    /\ UNCHANGED <<plugin, items, pool, client, call, workers, lost, faults>>

Fault == faults < MaxFaults /\ faults' = faults + 1

Breaks(s) ==
    /\ Fault
    /\ link[s] = "up"
    /\ link' = [link EXCEPT ![s] = "down"]
    /\ UNCHANGED <<plugin, items, pool, closing, client, call, workers, lost>>

\* Faulty variant: the pool of a lost client stays.
ServerLosesLeavingPool(s) ==
    /\ link[s] = "down" /\ client # s /\ s \notin closing
    /\ link' = [link EXCEPT ![s] = "free"]
    /\ UNCHANGED <<plugin, items, pool, closing, client, call, workers, lost, faults>>

\* connection_lost and on_disconnect of the plugin.  The name of the session
\* is used again when the service has done with it too.
ServerLoses(s) ==
    /\ link[s] = "down"
    /\ s \in DOMAIN pool \/ (client # s /\ s \notin closing)
    /\ link' = [link EXCEPT ![s] = IF client = s \/ s \in closing THEN @ ELSE "free"]
    /\ pool' = [q \in DOMAIN pool \ {s} |-> pool[q]]
    /\ lost' = lost \cup IF s \in DOMAIN pool THEN ToSet(pool[s]) ELSE {}
    /\ UNCHANGED <<plugin, items, closing, client, call, workers, faults>>

-----------------------------------------------------------------------------
(* The service.                                                            *)

\* main calls get_new_msgs; a call on a closed connection forgets the session.
Poll ==
    /\ client # NoSession /\ call = NoCall
    /\ IF link[client] = "up"
       THEN call' = Asked(client) /\ UNCHANGED client
       ELSE client' = NoSession /\ UNCHANGED call
    /\ UNCHANGED <<plugin, items, link, closing, pool, workers, lost, faults>>

\* Faulty variant: the pool is handed over and kept.
ServeKeeping(s) ==
    /\ call = Asked(s) /\ link[s] = "up"
    /\ call' = [call EXCEPT !.got = IF s \in DOMAIN pool THEN pool[s] ELSE <<>>]
    /\ UNCHANGED <<plugin, items, rpc, pool, workers, lost, faults>>

\* handle_get_new_msgs
Serve(s) ==
    /\ call = Asked(s) /\ link[s] = "up"
    /\ call' = [call EXCEPT !.got = IF s \in DOMAIN pool THEN pool[s] ELSE <<>>]
    /\ pool' = [q \in DOMAIN pool |-> IF q = s THEN <<>> ELSE pool[q]]
    /\ UNCHANGED <<plugin, items, rpc, workers, lost, faults>>

\* The members of S in seq, in the order of seq.
Those(seq, S) ==
    LET upTo[k \in 0 .. Len(seq)] ==
            IF k = 0 THEN <<>>
            ELSE IF seq[k] \in S THEN Append(upTo[k - 1], seq[k]) ELSE upTo[k - 1]
    IN  upTo[Len(seq)]

OfGroup(g, seq) == Those(seq, {n \in ToSet(seq) : items[n].group = g})

\* Faulty variant: every poll gives its groups new queues.
QueuedAnew(got) ==
    LET groups == {items[n].group : n \in ToSet(got)}
    IN  [g \in DOMAIN queue \cup groups |->
            IF g \in groups THEN OfGroup(g, got) ELSE queue[g]]

\* main puts what it got into the queues, with a worker for a new one.
Queued(got) ==
    LET groups == {items[n].group : n \in ToSet(got)}
    IN  [g \in DOMAIN queue \cup groups |->
            (IF g \in DOMAIN queue THEN queue[g] ELSE <<>>) \o OfGroup(g, got)]

Answered ==
    /\ call # NoCall /\ call # Asked(call.on) /\ link[call.on] = "up"
    /\ queue' = Queued(call.got)
    /\ call' = NoCall
    /\ UNCHANGED <<plugin, items, rpc, pool, busy, handled, lost, faults>>

\* The call times out, or its connection breaks; what was handed over is lost.
CallFails ==
    /\ call # NoCall
    /\ IF link[call.on] = "up" THEN Fault /\ UNCHANGED client
       ELSE client' = NoSession /\ UNCHANGED faults
    /\ call' = NoCall
    /\ lost' = lost \cup (ToSet(call.got) \ {0})
    /\ UNCHANGED <<plugin, items, link, closing, pool, workers>>

\* group_message_worker
Take(g) ==
    /\ g \in DOMAIN queue /\ busy[g] = 0 /\ queue[g] # <<>>
    /\ busy' = [busy EXCEPT ![g] = Head(queue[g])]
    /\ queue' = [queue EXCEPT ![g] = Tail(@)]
    /\ handled' = Append(handled, Head(queue[g]))
    /\ UNCHANGED <<plugin, items, rpc, pool, call, lost, faults>>

ChatEnds(g) ==
    /\ busy[g] # 0
    /\ busy' = [busy EXCEPT ![g] = 0]
    /\ UNCHANGED <<plugin, items, rpc, pool, call, queue, handled, lost, faults>>

\* Three idle hours.  A message put in the queue in the very turn of the loop
\* in which they end is not fetched any more.
Retire(g) ==
    /\ Fault
    /\ g \in DOMAIN queue /\ busy[g] = 0 /\ Len(queue[g]) <= 1
    /\ queue' = [h \in DOMAIN queue \ {g} |-> queue[h]]
    /\ lost' = lost \cup ToSet(queue[g])
    /\ UNCHANGED <<plugin, items, rpc, pool, call, busy, handled>>

\* The process of the service ends and is started again.
Restart ==
    /\ Fault
    /\ link' = [s \in Sessions |-> IF s = client THEN "down" ELSE link[s]]
    /\ client' = NoSession /\ call' = NoCall
    /\ queue' = <<>> /\ busy' = [g \in Groups |-> 0]
    /\ lost' = lost \cup (ToSet(call.got) \ {0})
                    \cup UNION {ToSet(queue[g]) : g \in DOMAIN queue}
    /\ UNCHANGED <<plugin, items, closing, pool, handled>>

Service == \/ \E s \in Sessions : Connect(s) \/ Serve(s)
           \/ Poll \/ Answered
           \/ \E g \in Groups : Take(g) \/ ChatEnds(g)

Server == \E s \in Sessions : CloseRefused(s) \/ ServerLoses(s)

Next ==
    \/ \E g \in Groups : NewMessage(g) \/ Switch(g) \/ Retire(g)
    \/ \E sig \in Sigs, ts \in (clock - MaxLag)..clock : Notice(sig, ts)
    \/ \E e \in naming : Named(e)
    \/ Tick
    \/ \E s \in Sessions : Breaks(s)
    \/ Service \/ Server
    \/ CallFails \/ Restart

Spec == Init /\ [][Next]_vars

\* The service polls and its workers run; a broken connection is noticed, and a
\* call on it fails; the members of a group have names.
Fairness ==
    /\ \A s \in Sessions : WF_vars(Connect(s)) /\ WF_vars(Serve(s))
    /\ WF_vars(Poll) /\ WF_vars(Answered)
    /\ \A g \in Groups : WF_vars(Take(g)) /\ WF_vars(ChatEnds(g))
    /\ \A s \in Sessions : WF_vars(CloseRefused(s)) /\ WF_vars(ServerLoses(s))
    /\ WF_vars(call # NoCall /\ link[call.on] # "up" /\ CallFails)
FairSpec == Spec /\ Fairness

-----------------------------------------------------------------------------
Numbers == 1..Len(items)

\* Where what was pushed is on its way to be handled.
Pooled == UNION {ToSet(pool[s]) : s \in DOMAIN pool}
Got == ToSet(call.got) \ {0}
Waiting == UNION {ToSet(queue[g]) : g \in DOMAIN queue}

\* The types of the state.
TypeOK ==
    /\ clock \in 0..MaxTime /\ on \subseteq Groups
    /\ \A k \in recent \cup naming : k[2] \in Sigs
    /\ \A n \in Numbers : items[n].group \in Groups /\ items[n].sig \in Sigs \cup {NoSig}
    /\ link \in [Sessions -> {"free", "up", "down"}]
    /\ DOMAIN pool \subseteq Sessions /\ closing \subseteq Sessions \ DOMAIN pool
    /\ client \in Sessions \cup {NoSession}
    /\ call.on \in Sessions \cup {NoSession}
    /\ DOMAIN queue \subseteq Groups
    /\ busy \in [Groups -> 0..MaxItems]
    /\ lost \subseteq Numbers /\ faults \in 0..MaxFaults

\* There is one client with a pool at most, also while an old connection is
\* broken and not yet noticed (on_connect, on_disconnect).
OnePool == Cardinality(DOMAIN pool) <= 1

\* Everything pushed is in the pool, on its way, in a queue or handled, unless
\* a fault lost it or no client was there: nothing is overwritten (handle_get_new_msgs, main).
NothingVanishes == Numbers = lost \cup Pooled \cup Got \cup Waiting \cup ToSet(handled)

\* chat sees what happened in a group in the order in which it was pushed, and
\* never twice, over all reconnections and restarts.
HandledInOrder ==
    \A i, j \in DOMAIN handled :
        i < j /\ items[handled[i]].group = items[handled[j]].group
        => handled[i] < handled[j]

\* A notice that is reported twice is pushed once, though its names are awaited
\* before it is pushed (_notice_is_dup).
NoticesApart ==
    \A i, j \in Numbers :
        i # j /\ items[i].sig = items[j].sig /\ items[i].sig # NoSig
        => Gap(items[i].ts, items[j].ts) > NEAR

\* One pool is kept however often the service reconnects, and each item is
\* handled once, in order, or lost to a fault.
FeedIsSound ==
    TypeOK /\ OnePool /\ NothingVanishes /\ HandledInOrder /\ NoticesApart

-----------------------------------------------------------------------------
(* What makes FeedIsSound inductive.                                       *)

Increasing(seq) == \A i, j \in DOMAIN seq : i < j => seq[i] < seq[j]
Before(S, T) == \A m \in S, n \in T : m < n

\* What TypeOK leaves out: what the sequences hold and where maps are defined.
Shapes ==
    /\ items \in Seq([group : Groups, sig : Sigs \cup {NoSig}, ts : Int])
    /\ Len(items) <= MaxItems
    /\ recent \cup naming \subseteq Int \X Sigs
    /\ pool \in [DOMAIN pool -> Seq(Numbers)]
    /\ call \in [on : Sessions \cup {NoSession}, got : {<<0>>} \cup Seq(Numbers)]
    /\ queue \in [DOMAIN queue -> Seq(Numbers)]
    /\ handled \in Seq(Numbers)

\* A session with a pool is not free to be used again, and it is the only one.
PoolIsUsed ==
    /\ \A s \in DOMAIN pool \cup closing : link[s] # "free"
    /\ \A s, t \in DOMAIN pool : s = t

\* What is further on its way was pushed earlier: the pool is behind the call,
\* the call behind the queues, and a queue behind what its group has handled.
KeepsOrder ==
    /\ \A s \in DOMAIN pool : Increasing(pool[s])
    /\ Increasing(call.got)
    /\ \A g \in DOMAIN queue :
          /\ Increasing(queue[g])
          /\ \A n \in ToSet(queue[g]) : items[n].group = g
          /\ \A m \in ToSet(handled), n \in ToSet(queue[g]) : items[m].group = g => m < n
    /\ Before(Got, Pooled)
    /\ Before(Waiting \cup ToSet(handled), Got \cup Pooled)

\* The notices marked so far that were taken for new ones.
Marked == naming \cup {<<items[i].ts, items[i].sig>> : i \in {n \in Numbers : items[n].sig # NoSig}}

\* A mark is kept until no report of the same notice can come any more.
MarksAreKept ==
    /\ \A k \in Marked : k \in recent \/ k[1] < clock - KEEP
    /\ \A k \in recent : k[1] <= clock
    /\ \A k, l \in Marked : k # l /\ k[2] = l[2] => Gap(k[1], l[1]) > NEAR
    /\ \A n \in Numbers : items[n].sig # NoSig => <<items[n].ts, items[n].sig>> \notin naming

OrderInv == TypeOK /\ Shapes /\ PoolIsUsed /\ NothingVanishes /\ KeepsOrder /\ HandledInOrder
NoticeInv == TypeOK /\ Shapes /\ MarksAreKept /\ NoticesApart

-----------------------------------------------------------------------------

\* When faults stop the service has a pool for good: a refused or broken
\* connection is given up and opened again.
ClientIsServed == <>[](client \in DOMAIN pool)

\* What is pushed is handled in the end, or lost to a fault.
PushedIsHandled == \A n \in 1..MaxItems : n \in Numbers ~> n \in ToSet(handled) \cup lost
=============================================================================
