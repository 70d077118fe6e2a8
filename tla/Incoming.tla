-------------------------------- MODULE Incoming --------------------------------
(***************************************************************************)
(* The pictures of an incoming message (get_image_datas_from_msg and       *)
(* aget_reply_msg of src/src/utils/handler.py): its own, those of the      *)
(* message it forwards, and, of the message it replies to, its own and     *)
(* those it forwards.  What a forward holds, and a replied message that    *)
(* came without its contents, are asked from OneBot; the latter is put     *)
(* into the event, where whoever asks next finds it.  Several handlers     *)
(* look for pictures in one event, each with its own limits.               *)
(***************************************************************************)
EXTENDS Naturals, Sequences

CONSTANTS
    Handlers,       \* those who look for pictures, one after another
    Pictures,       \* the pictures messages have
    Messages,       \* the messages that may come, [own, forwards, forwarded, json]
    Minima,         \* min_count: the fewest pictures a handler takes, 0 for none
    Maxima,         \* max_count: the most
    MaxFaults       \* bound: failed API calls

\* What the constants are taken to be.
IncomingAssumption ==
    /\ \A m \in Messages : {m.own, m.forwarded} \subseteq Seq(Pictures)
    /\ Minima \subseteq Nat /\ Maxima \subseteq Nat \ {0} /\ {} \notin {Minima, Maxima}
    /\ MaxFaults \in Nat

VARIABLES
    event,          \* the message that came, and whether the bot itself sent it
    replyTo,        \* the message it replies to
    carried,        \* whether the event holds its contents; "none" when there is none
    at,             \* at[h]: where the handler is
    wants,          \* wants[h]: its limits, and whether it takes replies
    found,          \* found[h]: the pictures so far
    fetched,        \* history: how often the replied message was given by OneBot
    faults

vars == <<event, replyTo, carried, at, wants, found, fetched, faults>>

Places == {"own", "forward", "reply", "replyOwn", "replyForward", "count"}
Wants == [least : Minima, most : Maxima, reply : BOOLEAN]

\* What the forward of a message holds, were it asked for.
Forwarded(m) == IF m.forwards THEN m.forwarded ELSE <<>>

\* The invariant on types: what each variable may hold.
TypeOK ==
    /\ event \in [message : Messages, fromSelf : BOOLEAN]
    /\ replyTo \in Messages
    /\ carried \in {"none", "no", "yes"}
    /\ at \in [Handlers -> {"waits", "found", "refused", "failed"} \cup Places]
    /\ wants \in [Handlers -> Wants]
    /\ fetched \in 0..(2 * MaxFaults + 2)
    /\ faults \in 0..MaxFaults

Init ==
    /\ event \in [message : Messages, fromSelf : BOOLEAN]
    /\ replyTo \in Messages
    /\ carried \in {"none", "no", "yes"}
    /\ at = [h \in Handlers |-> "waits"]
    /\ wants = [h \in Handlers |-> CHOOSE w \in Wants : TRUE]
    /\ found = [h \in Handlers |-> <<>>]
    /\ fetched = 0 /\ faults = 0

Goes(h, place) == at' = [at EXCEPT ![h] = place]
Adds(h, pictures) == found' = [found EXCEPT ![h] = @ \o pictures]

\* A handler starts when the one before it is done.  A forward the bot sent itself
\* arrives as a card, which cannot be read.
Start(h) ==
    /\ at[h] = "waits"
    /\ \A g \in Handlers : at[g] \notin Places
    /\ Goes(h, IF event.fromSelf /\ event.message.json THEN "refused" ELSE "own")
    /\ \E w \in Wants : wants' = [wants EXCEPT ![h] = w]
    /\ UNCHANGED <<event, replyTo, carried, found, fetched, faults>>

TakeOwn(h) ==
    /\ at[h] = "own"
    /\ Adds(h, event.message.own)
    /\ Goes(h, IF event.message.forwards THEN "forward" ELSE "reply")
    /\ UNCHANGED <<event, replyTo, carried, wants, fetched, faults>>

\* The answer of get_forward_msg, or its failure, which ends the search.
TakeForwarded(h, place, of, then) ==
    /\ at[h] = place
    /\ \/ Adds(h, Forwarded(of)) /\ Goes(h, then) /\ UNCHANGED faults
       \/ /\ faults < MaxFaults /\ faults' = faults + 1
          /\ Goes(h, "failed")
          /\ UNCHANGED found
    /\ UNCHANGED <<event, replyTo, carried, wants, fetched>>

TakeForward(h) == TakeForwarded(h, "forward", event.message, "reply")
TakeReplyForward(h) == TakeForwarded(h, "replyForward", replyTo, "count")

\* Faulty variant: the event is left without what was asked for.
FetchReplyAgain(h) ==
    /\ at[h] = "reply" /\ wants[h].reply /\ carried = "no"
    /\ Goes(h, "replyOwn")
    /\ fetched' = fetched + 1
    /\ UNCHANGED <<event, replyTo, carried, wants, found, faults>>

\* The replied message is asked for, and put into the event.
FetchReply(h) ==
    /\ at[h] = "reply" /\ wants[h].reply /\ carried = "no"
    /\ carried' = "yes"
    /\ Goes(h, "replyOwn")
    /\ fetched' = fetched + 1
    /\ UNCHANGED <<event, replyTo, wants, found, faults>>

\* It cannot be had, and the search goes on as though nothing were replied to.
MissReply(h) ==
    /\ at[h] = "reply" /\ wants[h].reply /\ carried = "no"
    /\ faults < MaxFaults /\ faults' = faults + 1
    /\ Goes(h, "count")
    /\ UNCHANGED <<event, replyTo, carried, wants, found, fetched>>

\* The event holds it already, or there is none, or the handler does not want it.
HaveReply(h) ==
    /\ at[h] = "reply"
    /\ \/ wants[h].reply /\ carried = "yes" /\ Goes(h, "replyOwn")
       \/ (~wants[h].reply \/ carried = "none") /\ Goes(h, "count")
    /\ UNCHANGED <<event, replyTo, carried, wants, found, fetched, faults>>

TakeReply(h) ==
    /\ at[h] = "replyOwn"
    /\ Adds(h, replyTo.own)
    /\ Goes(h, IF replyTo.forwards THEN "replyForward" ELSE "count")
    /\ UNCHANGED <<event, replyTo, carried, wants, fetched, faults>>

\* Too few or too many pictures are answered with a message, and the handler is over.
Count(h) ==
    /\ at[h] = "count"
    /\ Goes(h, IF Len(found[h]) \in wants[h].least..wants[h].most THEN "found" ELSE "refused")
    /\ UNCHANGED <<event, replyTo, carried, wants, found, fetched, faults>>

Next == \E h \in Handlers :
    \/ Start(h) \/ TakeOwn(h) \/ TakeForward(h)
    \/ FetchReply(h) \/ MissReply(h) \/ HaveReply(h)
    \/ TakeReply(h) \/ TakeReplyForward(h) \/ Count(h)

Spec == Init /\ [][Next]_vars

-------------------------------------------------------------------------------

\* All the pictures a handler is to find, in their order.
AllOf(h) ==
    event.message.own \o Forwarded(event.message) \o
    IF wants[h].reply /\ carried # "none"
    THEN replyTo.own \o Forwarded(replyTo)
    ELSE <<>>

\* When no call failed, every handler of an event finds all pictures of the message, of
\* its forward and of its reply, each once and in this order, and none of them is
\* refused unless there are too few or too many (handler.py:269-337).
EveryPictureIsFound == \A h \in Handlers : faults = 0 =>
    /\ at[h] = "found" => found[h] = AllOf(h)
    /\ at[h] = "refused" =>
          \/ event.fromSelf /\ event.message.json
          \/ Len(AllOf(h)) \notin wants[h].least..wants[h].most

\* OneBot gives the replied message once, however many handlers look into it, and never
\* when the event brought it (handler.py:224-243).
ReplyIsAskedOnce == fetched <= 1

===============================================================================
