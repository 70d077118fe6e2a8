------------------------------ MODULE TextLines ------------------------------
(***************************************************************************)
(* The lines of a text box (src/src/draw/plot.py, TextBox): each line of   *)
(* the text is cut where the box ends, and goes on in the next line of the *)
(* box until the box has as many as it may.                                *)
(*                                                                         *)
(* A character is its width and whether it is in ASCII; the width of a     *)
(* text is the sum of them (kerning is left out).  A line of the box is    *)
(* the characters it shows of the text and whether the suffix follows.  A  *)
(* box without a width shows the lines of the text and is left out.        *)
(***************************************************************************)
EXTENDS Integers, Sequences, SequencesExt, FiniteSetsExt

CONSTANTS
    Texts,          \* texts: sequences of lines, which are sequences of characters
    Widths,         \* widths of boxes, without padding
    Counts,         \* line_count
    SuffixWidth,    \* the width of "..."
    MaxShown        \* bound: lines after which the loop is not followed further

TextAssumption == Widths \cup Counts \subseteq Nat \ {0} /\ {SuffixWidth, MaxShown} \subseteq Nat

VARIABLES
    text, width, count, wrap,
    shrink,         \* overflow = "shrink": a cut line ends in the suffix
    todo,           \* lines of the text not yet looked at
    line,           \* what is left of the line in work
    pc,             \* "next", "cut" or "done"
    shown           \* clipped_lines

vars == <<text, width, count, wrap, shrink, todo, line, pc, shown>>

Init ==
    /\ text \in Texts /\ width \in Widths /\ count \in Counts
    /\ wrap \in BOOLEAN /\ shrink \in BOOLEAN
    /\ todo = text /\ line = <<>> /\ pc = "next" /\ shown = <<>>

------------------------------------------------------------------------------
WidthOf(s) == FoldLeft(LAMBDA w, c : w + c.width, 0, s)
WeightOf(s) == FoldLeft(LAMBDA w, c : w + (IF c.ascii THEN 1 ELSE 2), 0, s)
Upto(s, n) == SubSeq(s, 1, n)
From(s, n) == SubSeq(s, n + 1, Len(s))

\* Where a text of full width is expected to reach a width, every character but
\* those in ASCII counting as two.
Estimate(s, target) ==
    LET reach == {n \in DOMAIN s : WidthOf(s) * WeightOf(Upto(s, n)) >= target * WeightOf(s)}
    IN  IF WidthOf(s) = 0 THEN 0 ELSE IF reach = {} THEN Len(s) ELSE Min(reach)

\* _get_clip_text_to_width_idx: how many characters fit beside a suffix, found from
\* the estimate on, to the right or to the left; all of them when all fit (None).
Cut(s, limit) ==
    LET guess == Estimate(s, limit)
        longer == {n \in guess .. Len(s) - 1 : WidthOf(Upto(s, n + 1)) > limit}
        shorter == {n \in 0 .. guess : WidthOf(Upto(s, n)) <= limit}
    IN  IF limit < 0 THEN 0
        ELSE IF WidthOf(s) <= limit THEN Len(s)
        ELSE IF WidthOf(Upto(s, guess)) < limit
        THEN IF longer = {} THEN Len(s) ELSE Min(longer)
        ELSE IF WidthOf(Upto(s, guess)) > limit THEN Max(shorter) ELSE guess

\* Faulty variant: one too wide passes.
FitsOneOver(s, limit) == limit >= 0 /\ WidthOf(s) <= limit + 1

Fits(s, limit) == limit >= 0 /\ WidthOf(s) <= limit

Show(s, suffix) == shown' = Append(shown, [of |-> s, suffix |-> suffix])

\* The next line of the text; without wrapping it becomes one line of the box.
NextLine ==
    /\ pc = "next" /\ todo # <<>>
    /\ todo' = Tail(todo)
    /\ IF wrap THEN line' = Head(todo) /\ pc' = "cut" /\ UNCHANGED shown
       ELSE /\ LET limit == width - (IF shrink THEN SuffixWidth ELSE 0)
                   all == Fits(Head(todo), limit)
               IN  Show(Upto(Head(todo), Cut(Head(todo), limit)), shrink /\ ~all)
            /\ UNCHANGED <<line, pc>>
    /\ UNCHANGED <<text, width, count, wrap, shrink>>

\* The rest of the line fits.
ShowRest ==
    /\ pc = "cut" /\ Fits(line, width)
    /\ Show(line, FALSE) /\ pc' = "next" /\ line' = <<>>
    /\ UNCHANGED <<text, width, count, wrap, shrink, todo>>

\* It does not: the last line the box may have ends in the suffix, any other goes on
\* in the next one.
CutLine ==
    /\ pc = "cut" /\ ~Fits(line, width) /\ Len(shown) < MaxShown
    /\ LET suffix == shrink /\ Len(shown) = count - 1
           n == Cut(line, width - (IF suffix THEN SuffixWidth ELSE 0))
       IN  /\ Show(Upto(line, n), suffix) /\ line' = From(line, n)
           /\ pc' = IF Len(shown) + 1 = count THEN "next" ELSE "cut"
    /\ UNCHANGED <<text, width, count, wrap, shrink, todo>>

Finish ==
    /\ pc = "next" /\ todo = <<>>
    /\ shown' = Upto(shown, Min({count, Len(shown)})) /\ pc' = "done"
    /\ UNCHANGED <<text, width, count, wrap, shrink, todo, line>>

Step == NextLine \/ ShowRest \/ CutLine \/ Finish
Next == Step

Spec == Init /\ [][Next]_vars

------------------------------------------------------------------------------
TypeOK ==
    /\ text \in Texts /\ width \in Widths /\ count \in Counts
    /\ pc \in {"next", "cut", "done"}
    /\ \A k \in DOMAIN shown : shown[k].suffix \in BOOLEAN

Roomy == \A s \in ToSet(text) : \A c \in ToSet(s) : c.width <= width

\* A line is never wider than the box, whatever was estimated, but for a suffix that
\* is wider itself.
LinesFit ==
    \A k \in DOMAIN shown :
        LET all == WidthOf(shown[k].of) + (IF shown[k].suffix THEN SuffixWidth ELSE 0)
        IN  all <= Max({width, SuffixWidth})

\* Wrapping skips nothing: what is shown are the characters of the text in order, and
\* where something is missing before the last line, a suffix says so.
NothingSkipped ==
    pc = "done" /\ wrap /\ Roomy =>
        LET flat == FlattenSeq([k \in DOMAIN shown |-> shown[k].of])
            cut == \E k \in DOMAIN shown : shown[k].suffix
        IN  /\ IsPrefix(flat, FlattenSeq(text))
            /\ Len(shown) < count => flat = FlattenSeq(text)
            /\ cut => shrink /\ Len(shown) = count /\ Last(shown).suffix

\* The loops end: a round takes a character, and a box narrower than a character stops
\* at its last line.  (A text of several lines in such a box is cut for ever once the
\* first line has filled it.)
LoopsEnd ==
    Roomy \/ (Len(text) = 1 /\ MaxShown > count) =>
        /\ Len(shown) < MaxShown
        /\ pc # "done" => ENABLED Step
=============================================================================
