---------------------------- MODULE FoldMessages ----------------------------
(***************************************************************************)
(* Long answers (src/src/utils/handler.py, FoldMsgPart and below).  An     *)
(* answer of a few lines is sent message by message; a longer one is       *)
(* folded into forwarded messages, several when the text is too long for   *)
(* one, and when forwarding fails it is sent in some simpler way.  A call   *)
(* that raises may have been carried out all the same, or still be, when   *)
(* it is its answer that did not come in time (call_api, bot.py).          *)
(*                                                                         *)
(* Contents are sequences of messages, a message is a sequence of parts, a *)
(* part is text or something else, such as a picture.  What stands in a    *)
(* part is a sequence of units, which are all different.                   *)
(***************************************************************************)
EXTENDS Integers, Sequences, SequencesExt

CONSTANTS
    Answers,        \* contents that may be sent
    Methods,        \* values of fallback_method
    Limit,          \* MAX_FOLD_MSG_LEN_CFG, in units
    MaxSegments,    \* MAX_FOLD_MSG_SEGMENT_COUNT_CFG
    Width,          \* units of a line
    Threshold,      \* DEFAULT_FOLD_THRESHOLD_CFG
    MaxRaises       \* bound: calls that raise

FoldAssumption ==
    /\ Methods \subseteq {"seperate", "join_newline", "join", "none"}
    /\ {Limit, MaxSegments, Width} \subseteq Nat \ {0} /\ {Threshold, MaxRaises} \subseteq Nat

VARIABLES
    contents,       \* the answer
    method,         \* what is done when it cannot be forwarded
    pc,             \* "idle", "plain", "fold", "fallback", "done" or "failed"
    left,           \* messages, or folds, still to be sent
    spare,          \* messages of the fold that is sent in the simpler way
    out,            \* what arrived: messages and folds, in order
    unanswered      \* the calls that raised: [msgs, arrived]

vars == <<contents, method, pc, left, spare, out, unanswered>>

Init ==
    /\ contents = <<>> /\ method \in Methods
    /\ pc = "idle" /\ left = <<>> /\ spare = <<>> /\ out = <<>>
    /\ unanswered = <<>>

-----------------------------------------------------------------------------
Part(text, units) == [text |-> text, units |-> units]
Notice == Part(FALSE, <<>>)     \* "[消息过长已自动分段]" and the like

TextLength(part) == IF part.text THEN Len(part.units) ELSE 0
Total(msg) == FoldLeft(LAMBDA n, part : n + TextLength(part), 0, msg)
Lines(part) == IF part.text THEN Len(part.units) \div Width + 1 ELSE 4
LineCount(msgs) ==
    FoldLeft(LAMBDA n, msg : FoldLeft(LAMBDA k, part : k + Lines(part), n, msg),
             Len(msgs) - 1, msgs)

Filled(msg) == SelectSeq(msg, LAMBDA part : part.units # <<>> \/ ~part.text)

\* The text part of a message at which room units run out, 0 for none.
Overflow(msg, room) ==
    LET over == {k \in DOMAIN msg : msg[k].text /\ Total(SubSeq(msg, 1, k)) > room}
    IN  IF over = {} THEN 0 ELSE CHOOSE k \in over : \A j \in over : k <= j

\* The message cut in its k-th part after room units: what stays, and what comes
\* in the next fold.
Kept(msg, k, room) ==
    LET at == room - Total(SubSeq(msg, 1, k - 1))
    IN  Append(SubSeq(msg, 1, k - 1), Part(TRUE, SubSeq(msg[k].units, 1, at)))
Rest(msg, k, room) ==
    LET at == room - Total(SubSeq(msg, 1, k - 1))
    IN  <<Part(TRUE, SubSeq(msg[k].units, at + 1, Len(msg[k].units)))>>

Messages == Seq(Seq([text : BOOLEAN, units : Seq(Nat)]))

\* apply_limit_to_parts: the folds of the answer, or <<"error">> after MaxSegments.
Folds(answer) ==
    LET \* msgs are left, fold number seq holds cur, which has len units.
        fill[msgs \in Messages, cur \in Messages, len \in Nat, seq \in 1 .. MaxSegments] ==
            LET next(rest, last) ==
                    IF seq + 1 > MaxSegments THEN <<last, "error">>
                    ELSE <<last>> \o fill[rest, <<<<Notice>>>>, 0, seq + 1]
                msg == Head(msgs)
                cut == Overflow(msg, Limit - len)
            IN  IF msgs = <<>> THEN <<cur>>
                ELSE IF Total(msg) > Limit /\ cut # 0
                THEN LET part == Filled(Kept(msg, cut, Limit - len))
                     IN  next(<<Rest(msg, cut, Limit - len)>> \o Tail(msgs),
                              (IF part = <<>> THEN cur ELSE Append(cur, part)) \o <<<<Notice>>>>)
                ELSE IF Total(msg) <= Limit /\ len + Total(msg) > Limit
                THEN next(msgs, Append(cur, <<Notice>>))
                ELSE fill[Tail(msgs), Append(cur, Filled(msg)), len + Total(msg), seq]
    IN  fill[answer, <<>>, 0, 1]

-----------------------------------------------------------------------------

\* send_fold_msg_adaptive: a short answer goes out as it is, a long one folded;
\* one that needs too many folds is not sent at all.
Begin(answer) ==
    /\ pc = "idle"
    /\ contents' = answer
    /\ LET folds == Folds(answer)
       IN  IF LineCount(answer) < Threshold
           THEN pc' = "plain" /\ left' = answer
           ELSE IF Last(folds) = "error" THEN pc' = "failed" /\ left' = <<>>
           ELSE pc' = "fold" /\ left' = folds
    /\ UNCHANGED <<method, spare, out, unanswered>>

Next1(to) == IF Len(left) = 1 THEN "done" ELSE to

SendPlain ==
    /\ pc = "plain"
    /\ out' = Append(out, <<Head(left)>>)
    /\ left' = Tail(left) /\ pc' = Next1("plain")
    /\ UNCHANGED <<contents, method, spare, unanswered>>

SendFold ==
    /\ pc = "fold"
    /\ out' = Append(out, Head(left))
    /\ left' = Tail(left) /\ pc' = Next1("fold")
    /\ UNCHANGED <<contents, method, spare, unanswered>>

\* The call raises: the client refused it, or has not answered yet.
Raises(msgs) ==
    /\ Len(unanswered) < MaxRaises
    /\ unanswered' = Append(unanswered, [msgs |-> msgs, arrived |-> FALSE])

\* Forwarding raises, whether or not the client carries it out: fold_msg_fallback
\* joins the messages of the fold, sends them one by one, or sends a word of regret.
FoldFails ==
    /\ pc = "fold"
    /\ spare' = CASE method = "seperate" -> Head(left)
                  [] method = "none" -> <<<<Notice>>>>
                  [] OTHER -> <<FlattenSeq(Head(left))>>
    /\ pc' = "fallback" /\ Raises(Head(left))
    /\ UNCHANGED <<contents, method, left, out>>

\* Faulty variant: the fold is tried again after its messages were sent.
FallbackThenFold ==
    /\ pc = "fallback"
    /\ out' = Append(out, <<Head(spare)>>)
    /\ spare' = Tail(spare)
    /\ IF Len(spare) = 1 THEN pc' = "fold" ELSE UNCHANGED pc
    /\ UNCHANGED <<contents, method, left, unanswered>>

Fallback ==
    /\ pc = "fallback"
    /\ out' = Append(out, <<Head(spare)>>)
    /\ spare' = Tail(spare)
    /\ IF Len(spare) = 1 THEN left' = Tail(left) /\ pc' = Next1("fold")
       ELSE UNCHANGED <<left, pc>>
    /\ UNCHANGED <<contents, method, unanswered>>

\* The sending of a message raises: the command fails with what it has sent.
SendFails ==
    /\ pc \in {"plain", "fallback"}
    /\ pc' = "failed"
    /\ Raises(<<Head(IF pc = "plain" THEN left ELSE spare)>>)
    /\ UNCHANGED <<contents, method, left, spare, out>>

\* The client carries out a call that nobody waits for any longer.
ArrivesLate(k) ==
    /\ ~unanswered[k].arrived
    /\ out' = Append(out, unanswered[k].msgs)
    /\ unanswered' = [unanswered EXCEPT ![k].arrived = TRUE]
    /\ UNCHANGED <<contents, method, pc, left, spare>>

Next ==
    \/ \E answer \in Answers : Begin(answer)
    \/ \E k \in DOMAIN unanswered : ArrivesLate(k)
    \/ SendPlain \/ SendFold \/ FoldFails \/ Fallback \/ SendFails

Spec == Init /\ [][Next]_vars

-----------------------------------------------------------------------------

\* The units of messages, and of folds, one after the other.
Units(msgs) == FlattenSeq([k \in DOMAIN msgs |->
                   FlattenSeq([j \in DOMAIN msgs[k] |-> msgs[k][j].units])])
Arrived == Units(FlattenSeq(out))

\* A message that is cut loses what follows the part it is cut in.
TextIsLast(msg) == \A k \in DOMAIN msg : msg[k].text => k = Len(msg)

\* The units that have arrived, each where it came first, and how often one came.
FirstArrivals ==
    FoldLeft(LAMBDA seen, u : IF u \in ToSet(seen) THEN seen ELSE Append(seen, u), <<>>, Arrived)
Times(u) == Len(SelectSeq(Arrived, LAMBDA v : v = u))
TimesLate(u) ==
    Len(SelectSeq(unanswered, LAMBDA call : call.arrived /\ u \in ToSet(Units(call.msgs))))

\* Nothing is left out or put before what precedes it, over folds, forwards that raise
\* and their replacements, and calls that are carried out late: what has come is the
\* beginning of the answer, and all of it at the end.  It comes again only by a call
\* that raised and was carried out all the same, which the code cannot tell from one
\* that was not (apply_limit_to_parts, send_fold_msg, fold_msg_fallback).
ArrivesInOrder ==
    (\A k \in DOMAIN contents : Total(contents[k]) > Limit => TextIsLast(contents[k]))
    /\ method # "none"
    => /\ IsPrefix(FirstArrivals, Units(contents))
       /\ pc = "done" => FirstArrivals = Units(contents)
       /\ \A u \in ToSet(Arrived) : Times(u) <= 1 + TimesLate(u) /\ Times(u) <= 2

\* No fold has more text than the protocol's limit allows, by which an answer
\* was cut ("折叠消息分段", handler.py:610).
FoldsFit == pc = "fold" => \A k \in DOMAIN left : Total(FlattenSeq(left[k])) <= Limit

\* A long answer is divided, not shortened ("[消息过长已自动分段]", handler.py:632):
\* when all has been sent, every unit came, unless the fallback was to send nothing.
DividedNotShortened ==
    method # "none" /\ pc = "done" => ToSet(Units(contents)) \subseteq ToSet(Arrived)

=============================================================================
