------------------------------- MODULE CqCodes --------------------------------
(***************************************************************************)
(* Messages as text and back: to_cq and parse_cq of core/message.py, and   *)
(* contents_to_parts of utils/handler.py, which cuts the same text for the *)
(* folds of FoldMessages.                                                  *)
(*                                                                         *)
(* A text is a sequence of marks: "&", "[", "]", ",", "=", the ends of the *)
(* escapes ("amp;", "#91;", "#93;", "#44;"), "CQ:", and anything else.  A  *)
(* segment is its type and its data; that of a text is under "text".       *)
(***************************************************************************)
EXTENDS Naturals, Sequences, SequencesExt, FiniteSetsExt

CONSTANTS
    Messages,       \* messages the bot has: sequences of segments
    Typed           \* texts that somebody wrote

VARIABLES
    message,        \* what the text was made of, NoMessage for a typed one
    input,          \* s, content
    pc,             \* "parse", "split" or "done"
    at,             \* i, cur: how much of the input was read
    buf,
    segs,           \* what parse_cq returns
    parts           \* what contents_to_parts returns: [type, content]

vars == <<message, input, pc, at, buf, segs, parts>>

NoMessage == <<[type |-> <<>>, data |-> <<>>]>>
TextType == <<"text">>
Segment(type, data) == [type |-> type, data |-> data]
Text(s) == Segment(TextType, [k \in {TextType} |-> s])

-------------------------------------------------------------------------------
(* to_cq                                                                   *)

\* str.replace: a mark by its escape, and an escape by its mark.
Escaped(s, mark, end) == FlattenSeq([i \in DOMAIN s |-> IF s[i] = mark THEN <<"&", end>> ELSE <<s[i]>>])
Restored(s, mark, end) ==
    LET starts(i) == i \in 1 .. Len(s) - 1 /\ s[i] = "&" /\ s[i + 1] = end
    IN  FlattenSeq([i \in DOMAIN s |->
            IF starts(i) THEN <<mark>> ELSE IF starts(i - 1) THEN <<>> ELSE <<s[i]>>])

EscapeText(s) == Escaped(Escaped(Escaped(s, "&", "amp;"), "[", "#91;"), "]", "#93;")
EscapeCq(s) == Escaped(EscapeText(s), ",", "#44;")

\* Faulty variant: the ampersand is restored first.
UnescapeTextOutermost(s) == Restored(Restored(Restored(s, "&", "amp;"), "[", "#91;"), "]", "#93;")

UnescapeText(s) == Restored(Restored(Restored(s, "[", "#91;"), "]", "#93;"), "&", "amp;")
UnescapeCq(s) == UnescapeText(Restored(s, ",", "#44;"))

\* Segment.to_cq
SegmentToCq(seg) ==
    LET keys == SetToSeq(DOMAIN seg.data)
        entry(k) == <<",">> \o k \o <<"=">> \o EscapeCq(seg.data[k])
    IN  IF seg.type = TextType THEN EscapeText(seg.data[TextType])
        ELSE <<"[", "CQ:">> \o seg.type \o FlattenSeq([i \in DOMAIN keys |-> entry(keys[i])]) \o <<"]">>

ToCq(msg) == FlattenSeq([i \in DOMAIN msg |-> SegmentToCq(msg[i])])

-------------------------------------------------------------------------------
(* parse_cq                                                                *)

Index(s, mark, from) ==
    LET places == {i \in from .. Len(s) : s[i] = mark}
    IN  IF places = {} THEN 0 ELSE Min(places)
Upto(s, n) == SubSeq(s, 1, n)
Beyond(s, n) == SubSeq(s, n + 1, Len(s))

\* str.split(",")
SplitAtCommas(s) ==
    FoldLeft(LAMBDA pieces, mark :
                 IF mark = "," THEN Append(pieces, <<>>)
                 ELSE [pieces EXCEPT ![Len(pieces)] = Append(@, mark)],
             << <<>> >>, s)

\* The data of a code: keys without a value have an empty one, later ones count.
ParseData(s) ==
    LET given == SelectSeq(SplitAtCommas(s), LAMBDA p : p # <<>>)
        eq(i) == Index(given[i], "=", 1)
        key(i) == IF eq(i) = 0 THEN given[i] ELSE Upto(given[i], eq(i) - 1)
        value(i) == IF eq(i) = 0 THEN <<>> ELSE UnescapeCq(Beyond(given[i], eq(i)))
    IN  [k \in {key(i) : i \in DOMAIN given} |-> value(Max({i \in DOMAIN given : key(i) = k}))]

\* What stands between "[CQ:" and "]".
ParseCode(inner) ==
    LET comma == Index(inner, ",", 1)
    IN  IF comma = 0 THEN Segment(inner, ParseData(<<>>))
        ELSE Segment(Upto(inner, comma - 1), ParseData(Beyond(inner, comma)))

CodeBegins(i) == i < Len(input) /\ input[i] = "[" /\ input[i + 1] = "CQ:"
CodeEnd(i) == Index(input, "]", i)

Flushed == IF buf = <<>> THEN segs ELSE Append(segs, Text(UnescapeText(buf)))

Init ==
    /\ \/ message \in Messages /\ input = ToCq(message)
       \/ message = NoMessage /\ input \in Typed
    /\ pc = "parse" /\ at = 0 /\ buf = <<>> /\ segs = <<>> /\ parts = <<>>

TakeCode ==
    LET end == CodeEnd(at + 1)
    IN  /\ pc = "parse" /\ CodeBegins(at + 1) /\ end # 0
        /\ segs' = Append(Flushed, ParseCode(SubSeq(input, at + 3, end - 1)))
        /\ buf' = <<>>
        /\ at' = end
        /\ UNCHANGED <<message, input, pc, parts>>

\* A code without an end is text.
TakeMark ==
    /\ pc = "parse" /\ at < Len(input)
    /\ ~(CodeBegins(at + 1) /\ CodeEnd(at + 1) # 0)
    /\ buf' = Append(buf, input[at + 1])
    /\ at' = at + 1
    /\ UNCHANGED <<message, input, pc, segs, parts>>

Parsed ==
    /\ pc = "parse" /\ at = Len(input)
    /\ segs' = Flushed
    /\ buf' = <<>> /\ at' = 0 /\ pc' = "split"
    /\ UNCHANGED <<message, input, parts>>

-------------------------------------------------------------------------------
(* contents_to_parts                                                       *)

Part(type, content) == [type |-> type, content |-> content]

\* Faulty variant: a comma after the code ends its type.
CutCodeAtComma(from, to) ==
    <<Part(LET comma == Index(input, ",", from)
           IN  SubSeq(input, from + 2, (IF comma = 0 THEN to ELSE comma) - 1),
           SubSeq(input, from, to))>>

\* The code, whose type ends at a comma.
CutCode(from, to) ==
    <<Part(LET comma == Index(input, ",", from)
           IN  SubSeq(input, from + 2, (IF comma = 0 \/ comma > to THEN to ELSE comma) - 1),
           SubSeq(input, from, to))>>

\* One round of the loop: the text before the next code, and the code.
Split ==
    LET codes == {i \in at + 1 .. Len(input) : CodeBegins(i)}
        start == Min(codes)
        before == IF at + 1 < start THEN <<Part(TextType, SubSeq(input, at + 1, start - 1))>> ELSE <<>>
        end == CodeEnd(start)
    IN  /\ pc = "split" /\ at < Len(input)
        /\ IF codes = {}
           THEN parts' = Append(parts, Part(TextType, Beyond(input, at))) /\ at' = Len(input)
           ELSE IF end = 0
           THEN parts' = parts \o before \o <<Part(TextType, Beyond(input, start - 1))>> /\ at' = Len(input)
           ELSE parts' = parts \o before \o CutCode(start, end) /\ at' = end
        /\ UNCHANGED <<message, input, pc, buf, segs>>

SplitDone ==
    /\ pc = "split" /\ at = Len(input)
    /\ pc' = "done"
    /\ UNCHANGED <<message, input, at, buf, segs, parts>>

Next == TakeCode \/ TakeMark \/ Parsed \/ Split \/ SplitDone

Spec == Init /\ [][Next]_vars

-------------------------------------------------------------------------------
\* A message without empty texts, and with texts that follow each other as one.
Merged(msg) ==
    FoldLeft(LAMBDA m, seg :
                 IF seg.type # TextType THEN Append(m, seg)
                 ELSE IF seg.data[TextType] = <<>> THEN m
                 ELSE IF m # <<>> /\ Last(m).type = TextType
                 THEN Append(Front(m), Text(Last(m).data[TextType] \o seg.data[TextType]))
                 ELSE Append(m, seg),
             <<>>, msg)

\* A message that was written as text is read as it was, whatever looks like a
\* code, a comma or an escape in its texts and its data (escape_cq, parse_cq).
ReadAsWritten == (pc = "split" /\ message # NoMessage) => segs = Merged(message)

\* What was read from a text that somebody typed would be read again from its
\* own text: a code that is cut off or has odd data gains and loses nothing.
ReadAgainAlike ==
    (pc = "split" /\ at = 0) =>
        \A i \in DOMAIN segs : segs[i].type # TextType =>
            ParseCode(SubSeq(SegmentToCq(segs[i]), 3, Len(SegmentToCq(segs[i])) - 1)) = segs[i]

\* The parts of a fold are the whole text, and are those that parse_cq sees, so
\* that a picture is never divided (contents_to_parts).
PartsAreTheText ==
    LET shown(p) == IF p.type = TextType THEN Text(p.content) ELSE Segment(p.type, <<>>)
        kinds(msg) == [i \in DOMAIN Merged(msg) |-> Merged(msg)[i].type]
    IN  pc = "done" =>
            /\ FlattenSeq([i \in DOMAIN parts |-> parts[i].content]) = input
            /\ kinds([i \in DOMAIN parts |-> shown(parts[i])]) = kinds(segs)
===============================================================================
