------------------------------ MODULE SampleInputs ------------------------------
(***************************************************************************)
(* The inputs the instances of the MC modules work on: widgets of Layout,  *)
(* texts of TextLines, messages of CqCodes, requests of RipAssets, reports *)
(* of RecordStore, messages of Incoming, forwards of Captions, models of   *)
(* ChatModels, clips of Voices, commands and messages of Dispatch, answers *)
(* of FoldMessages.                                                        *)
(***************************************************************************)
EXTENDS Integers, Sequences, TLC

Of(S, from, to) == UNION {[1 .. k -> S] : k \in from .. to}

-------------------------------------------------------------------------------
\* Layout: splits, grids, flows and frames with up to five items.
Box(w, h) == [w |-> w, h |-> h, flex |-> FALSE]
Spacer == [w |-> 0, h |-> 0, flex |-> TRUE]
TwoBoxes == {Box(1, 3), Box(4, 2)}
NoSize == -1
Boxes(kinds, items, sizes, ratios, modes, rows, cols, aspects, flags, aligns, fits, outside) ==
    [kind : kinds, items : items, w : sizes, h : sizes, ratios : ratios, mode : modes,
     rows : rows, cols : cols, aspect : aspects, vertical : flags, keep : flags,
     ih : aligns, iv : {"mid"}, ch : {"far"}, cv : {"near"},
     hm : {1}, vm : {0}, hp : {1}, vp : {2}, hsep : {1}, vsep : {2},
     fitw : fits, fith : {FALSE}, outside : outside, off : {<<1, 0>>}, ox : {"mid"}, oy : {"far"}]
No == {FALSE}
Split == {"hsplit", "vsplit"}
Widgets ==
  { Boxes(Split \cup {"frame"}, Of(TwoBoxes, 0, 3), {NoSize, 9}, {<<>>}, {"fixed"}, {0}, {0}, {<<>>}, No, {"near", "far"}, BOOLEAN, BOOLEAN),
    Boxes(Split, Of(TwoBoxes, 3, 3), {17, 22}, {<<2, 1, 3>>, <<>>}, {"fixed", "expand"}, {0}, {0}, {<<>>}, No, {"far"}, No, No),
    Boxes(Split, Of({Box(1, 3), Box(61, 61)}, 2, 2), {NoSize}, {<<2, 7>>}, {"fixed"}, {0}, {0}, {<<>>}, No, {"near", "far"}, No, No),
    Boxes(Split, Of(TwoBoxes \cup {Spacer}, 1, 4), {15, 24}, {<<>>}, {"fixed"}, {0}, {0}, {<<>>}, No, {"near"}, No, No),
    Boxes({"grid"}, Of(TwoBoxes, 1, 5), {NoSize}, {<<>>}, {"fixed", "flex"}, {2, 3}, {0}, {<<>>}, BOOLEAN, {"far"}, No, No),
    Boxes({"grid"}, Of(TwoBoxes, 1, 5), {NoSize}, {<<>>}, {"fixed", "flex"}, {0}, {2, 3}, {<<>>}, BOOLEAN, {"mid"}, No, No),
    Boxes({"grid"}, Of(TwoBoxes, 3, 4), {20, 21}, {<<>>}, {"expand"}, {0}, {2, 3}, {<<>>}, BOOLEAN, {"far"}, No, No),
    Boxes({"flow"}, Of(TwoBoxes, 0, 4), {NoSize}, {<<>>}, {"fixed"}, {3}, {3}, {<<>>}, BOOLEAN, {"far"}, No, No),
    Boxes({"flow"}, Of(TwoBoxes, 0, 4), {NoSize}, {<<>>}, {"fixed"}, {0}, {0}, {<<1, 1>>, <<3, 1>>}, BOOLEAN, {"mid"}, No, No),
    Boxes({"flow"}, Of(TwoBoxes, 0, 4), {8, 13}, {<<>>}, {"fixed"}, {0}, {0}, {<<>>}, BOOLEAN, {"near", "mid"}, No, {TRUE})}

\* Of the products these widgets need: 61 / 7 * 7 is 60.99999999999999 as floats.
ShortProducts == {<<61, 7, 7>>}

-------------------------------------------------------------------------------
\* TextLines: one line of up to three characters, or two lines.
Char(a, n) == [ascii |-> a, width |-> n]
Chars == {Char(TRUE, 1), Char(TRUE, 2), Char(FALSE, 2)}
Texts == {<<s>> : s \in Of(Chars, 0, 3)} \cup {<<s, t>> : s \in Of(Chars, 1, 2), t \in Of(Chars, 2, 2)}

-------------------------------------------------------------------------------
\* CqCodes: messages of up to two segments, and texts of up to five marks.
Marks == Of({"&", "amp;", "#91;", "#44;", "[", "]", ",", "="}, 0, 2)
Code(type, data) == [type |-> type, data |-> data]
CqMessages ==
    Of({Code(<<"text">>, [k \in {<<"text">>} |-> s]) : s \in Marks}
       \cup {Code(<<"at">>, [k \in {<<"qq">>} |-> s]) : s \in Marks}
       \cup {Code(<<"face">>, <<>>), Code(<<"at">>, <<"qq">> :> <<"a">> @@ <<"name">> :> <<>>)}, 0, 2)
CqTyped == Of({"[", "CQ:", "]", ",", "=", "a"}, 0, 5)

-------------------------------------------------------------------------------
\* RipAssets: callers that take what is on the disk, in memory, at any age or not.
Request(kind, disk, mem, expires, allow) ==
    [kind |-> kind, disk |-> disk, memory |-> mem, expires |-> expires, allowError |-> allow]
Requests ==
    {Request("bytes", TRUE, FALSE, TRUE, TRUE), Request("path", TRUE, FALSE, FALSE, TRUE),
     Request("img", TRUE, TRUE, TRUE, FALSE), Request("json", FALSE, FALSE, FALSE, FALSE)}

\* RecordStore: two messages of groups, one of them reported twice, and a private one.
RecordReports == {[of |-> m, nr |-> 1] : m \in {"m1", "m2", "p"}} \cup {[of |-> "m1", nr |-> 2]}
RecordReportsFew == {[of |-> m, nr |-> 1] : m \in {"m1", "p"}}
RecordGroups == "m1" :> "g1" @@ "m2" :> "g2" @@ "p" :> "private"
RecordAsks == "q" :> "g3"

\* Incoming: messages with and without a picture, a forward of two, and a card.
PictureMessages ==
    {[own |-> o, forwards |-> f # <<>>, forwarded |-> f, json |-> FALSE] :
        o \in {<<>>, <<"p1">>}, f \in {<<>>, <<"p2", "p3">>}}
    \cup {[own |-> <<>>, forwards |-> FALSE, forwarded |-> <<>>, json |-> TRUE]}

\* Captions: forwards of one or two pictures.
Forwards == {<<p>> : p \in {"p1", "p2", "p3", "plain"}}
    \cup {<<p, q>> : p, q \in {"p1", "p2", "p3"}}

\* ChatModels: one model only writes, one draws and says so in its name.
Model(n, mm, image) == [name |-> n, mm |-> mm, image |-> image]
ChatsModels == {Model(<<"a">>, FALSE, FALSE), Model(<<"c", "image">>, TRUE, TRUE), Model(<<"c">>, TRUE, TRUE)}
ChatPreset ==
    [m \in {"text", "mm", "tool", "image"} |->
        IF m \in {"text", "tool"} THEN Model(<<"a">>, FALSE, FALSE) ELSE Model(<<"c", "image">>, TRUE, TRUE)]
ChatTyped == {m.name : m \in ChatsModels}
    \cup {<<k>> \o m.name : k \in {"image", "mm"}, m \in ChatsModels}

\* Voices: the text of each clip of the game's data.
TextOfClip == "k1" :> "t1" @@ "k2" :> "t2"

-------------------------------------------------------------------------------
\* Dispatch: its commands as they are registered, and what its messages may be.
Command(cmds, priority, super, listed, cd, toMe, kind) ==
    [cmds |-> cmds, priority |-> priority, block |-> cmds # {<<>>}, super |-> super,
     listed |-> listed, cd |-> cd, toMe |-> toMe, kind |-> kind]
DispatchCommands ==
    << Command({<<"list", "off">>}, 10, TRUE, FALSE, "none", FALSE, "off"),
       Command({<<"list", "on">>}, 10, TRUE, FALSE, "none", FALSE, "on"),
       Command({<<"see">>}, 0, FALSE, TRUE, "cd", FALSE, "plain"),
       Command({<<"see", "all">>, <<"all">>}, 0, FALSE, TRUE, "cd", FALSE, "plain"),
       Command({<<"status">>, <<"see">>}, 0, FALSE, FALSE, "cd", TRUE, "plain"),
       Command({<<>>}, 0, FALSE, FALSE, "none", FALSE, "plain") >>
Message(who, where, segs, sent) ==
    [user |-> who, group |-> where, segs |-> segs, sent |-> sent]
DispatchReports == {<<"m1", 1>>, <<"m1", 2>>, <<"m2", 1>>}
DispatchMessages ==
    "m1" :> { Message("user", "group", <<"see">>, FALSE),
              Message("super", "private", <<"list", "off">>, FALSE) } @@
    "m2" :> { Message("user", "group", <<"@me", "see", "all">>, FALSE),
              Message("super", "group", <<"list", "on">>, FALSE),
              Message("user", "group", <<"reply", "blank", "status">>, FALSE),
              Message("bot", "group", <<"see">>, TRUE) }

\* FoldMessages: answers of one to three messages, texts of up to four units with and
\* without pictures.
Words(n, at) == [text |-> TRUE, units |-> [k \in 1..n |-> at + k]]
Photo(at) == [text |-> FALSE, units |-> <<at>>]
LongMessages(at) ==
    {<<Words(n, at)>> : n \in 1..4} \cup {<<Photo(at), Words(n, at)>> : n \in {2, 4}}
    \cup {<<Words(n, at), Photo(at + 9)>> : n \in {2, 4}}
    \cup {<<Words(2, at), Photo(at + 8), Words(3, at + 10)>>}
FewMessages(at) == {<<Words(1, at)>>, <<Photo(at), Words(4, at)>>, <<Words(2, at), Photo(at + 9)>>}
LongAnswers == {<<m>> : m \in LongMessages(100)} \cup
    {<<m, n>> : m \in LongMessages(100), n \in LongMessages(200)} \cup
    {<<m, n, o>> : m \in FewMessages(100), n \in FewMessages(200), o \in FewMessages(300)}

===============================================================================
