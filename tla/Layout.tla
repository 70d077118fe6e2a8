------------------------------- MODULE Layout -------------------------------
(***************************************************************************)
(* The layout of pictures (src/src/draw/plot.py): a container measures its *)
(* items, arranges them side by side, one below the other, in a grid, in   *)
(* rows that are filled, or on top of each other, and draws each into a    *)
(* region of the painter (src/src/draw/painter.py), which it restores.     *)
(*                                                                         *)
(* An item is any widget: its size is what it measures itself, and, as is  *)
(* shown here of a container without an offset, it draws inside the region *)
(* it is given.  Columns are rows with the axes exchanged.  A unit is a    *)
(* fraction here; its products that come out too small as floats are       *)
(* those of Short.                                                         *)
(***************************************************************************)
EXTENDS Integers, Sequences, FiniteSets, FiniteSetsExt, SequencesExt

CONSTANTS
    Widgets,        \* containers that may be drawn
    Short           \* <<a, b, r>> for which int((a / b) * r) is less than a * r \div b

Unset == -1         \* None

VARIABLES
    widget,         \* the container
    step,           \* "measure", "enter", "items", "done" or "refused"
    region,         \* Painter.offset and Painter.size
    outer,          \* Painter.region_stack
    at,             \* cur_x, cur_y
    cells, rects    \* what was drawn: the cell of each item and the item

vars == <<widget, step, region, outer, at, cells, rects>>

\* A painter begins with the whole picture as its region.
Whole(size) == [x |-> 0, y |-> 0, w |-> size[1], h |-> size[2]]

Init ==
    /\ widget \in UNION Widgets /\ step = "measure"
    /\ region = Whole(<<0, 0>>) /\ outer = <<>>
    /\ at = <<0, 0>> /\ cells = <<>> /\ rects = <<>>

------------------------------------------------------------------------------
Sum(s) == FoldLeft(+, 0, s)
Largest(s) == Max(ToSet(s) \cup {0})
Swap(p) == <<p[2], p[1]>>
Count(wd) == Len(wd.items)
Widths(items) == [k \in DOMAIN items |-> items[k].w]
Heights(items) == [k \in DOMAIN items |-> items[k].h]

\* Where something smaller by room begins.
Place(align, room) ==
    CASE align = "near" -> 0 [] align = "mid" -> room \div 2 [] align = "far" -> room

\* The container with the axes exchanged.
Flip(wd) ==
    [wd EXCEPT !.items = [k \in DOMAIN @ |-> [w |-> @[k].h, h |-> @[k].w, flex |-> @[k].flex]],
               !.w = wd.h, !.h = wd.w, !.hp = wd.vp, !.vp = wd.hp, !.ih = wd.iv, !.iv = wd.ih,
               !.hsep = wd.vsep, !.vsep = wd.hsep, !.rows = wd.cols, !.cols = wd.rows]

\* A flow in columns is computed as one in rows, whose sizes and places are swapped.
AsRows(wd) == IF wd.vertical THEN Flip(wd) ELSE wd
Turned(wd, p) == IF wd.vertical THEN Swap(p) ELSE p

\* HSplit: flexible spacers share what is left of a given width ...
Shared(wd) ==
    LET flex == {k \in 1 .. Count(wd) : wd.items[k].flex}
        left == Max({0, wd.w - wd.hp * 2 - wd.hsep * (Count(wd) - 1)
                           - Sum(Widths(SelectSeq(wd.items, LAMBDA i : ~i.flex)))})
        share == left \div Cardinality(flex)
        extra == left - share * Cardinality(flex)
        before(k) == Cardinality({j \in flex : j < k})
    IN  [k \in 1 .. Count(wd) |->
            IF k \notin flex THEN wd.items[k].w
            ELSE share + (IF before(k) < extra THEN 1 ELSE 0)]

\* int(unit * r), of floats: one less than it should be, for some whole products.
Product(unit, r) ==
    (unit[1] * r) \div unit[2] - (IF <<unit[1], unit[2], r>> \in Short THEN 1 ELSE 0)

\* ... and otherwise widths are in the ratio given, or that of the items: they fill
\* the width, or are as small as lets every item in.
InRatio(wd) ==
    LET own    == Widths(wd.items)
        ratios == IF wd.ratios = <<>> THEN own ELSE wd.ratios
        some   == {k \in DOMAIN ratios : ratios[k] > 0}
        widest == CHOOSE k \in some : \A j \in some : own[k] * ratios[j] >= own[j] * ratios[k]
        unit   == IF wd.mode = "expand"
                  THEN <<wd.w - wd.hsep * (Len(ratios) - 1) - wd.hp * 2, Sum(ratios)>>
                  ELSE IF some = {} THEN <<0, 1>> ELSE <<own[widest], ratios[widest]>>
    IN  [k \in DOMAIN ratios |-> Product(unit, ratios[k])]

RowCells(wd) ==
    LET widths == IF wd.w # Unset /\ \E k \in DOMAIN wd.items : wd.items[k].flex
                  THEN Shared(wd) ELSE InRatio(wd)
    IN  [k \in DOMAIN widths |-> <<widths[k], Largest(Heights(wd.items))>>]
RowSize(wd) ==
    LET cs == RowCells(wd)
    IN  IF wd.items = <<>> THEN <<0, 0>>
        ELSE <<Sum([k \in DOMAIN cs |-> cs[k][1]]) + wd.hsep * (Len(cs) - 1), cs[1][2]>>

\* Grid: rows and columns, and the row and column of the k-th item.
RowCount(wd) == IF wd.rows > 0 THEN wd.rows ELSE (Count(wd) + wd.cols - 1) \div wd.cols
ColCount(wd) == IF wd.cols > 0 THEN wd.cols ELSE (Count(wd) + wd.rows - 1) \div wd.rows
RowOf(wd, k) == IF wd.vertical THEN ((k - 1) % RowCount(wd)) + 1 ELSE ((k - 1) \div ColCount(wd)) + 1
ColOf(wd, k) == IF wd.vertical THEN ((k - 1) \div RowCount(wd)) + 1 ELSE ((k - 1) % ColCount(wd)) + 1
GridWidths(wd) ==
    [j \in 1 .. ColCount(wd) |->
        CASE wd.mode = "expand" -> (wd.w - wd.hsep * (ColCount(wd) - 1) - wd.hp * 2) \div ColCount(wd)
          [] wd.mode = "fixed" -> Largest(Widths(wd.items))
          [] wd.mode = "flex" -> Max({0} \cup {wd.items[k].w : k \in {k \in 1 .. Count(wd) : ColOf(wd, k) = j}})]
GridHeights(wd) ==
    [i \in 1 .. RowCount(wd) |->
        CASE wd.mode = "expand" -> (wd.h - wd.vsep * (RowCount(wd) - 1) - wd.vp * 2) \div RowCount(wd)
          [] wd.mode = "fixed" -> Largest(Heights(wd.items))
          [] wd.mode = "flex" -> Max({0} \cup {wd.items[k].h : k \in {k \in 1 .. Count(wd) : RowOf(wd, k) = i}})]
GridSize(wd) ==
    <<Sum(GridWidths(wd)) + wd.hsep * (ColCount(wd) - 1),
      Sum(GridHeights(wd)) + wd.vsep * (RowCount(wd) - 1)>>

\* Flow: rows of indexes of items.  Of count rows each but the last ends with the
\* item that brings it to its share of the width of all.
RowsByCount(wd, count) ==
    LET share == Sum(Widths(wd.items)) \div count
        grown(rows, k) == [rows EXCEPT ![Len(rows)] = Append(@, k)]
        full(row) == Sum([j \in DOMAIN row |-> wd.items[row[j]].w]) >= share
        add(rows, k) == LET now == grown(rows, k)
                        IN  IF full(Last(now)) /\ Len(now) < count THEN Append(now, <<>>) ELSE now
        filled(rows) == rows \o [i \in 1 .. count - Len(rows) |-> <<>>]
    IN  filled(FoldLeft(add, <<<<>>>>, [k \in 1 .. Count(wd) |-> k]))

\* A row takes what still fits into the width, and at least one item.
RowsByWidth(wd) ==
    LET wide(row) == Sum([j \in DOMAIN row |-> wd.items[row[j]].w]) + Len(row) * wd.hsep
        add(rows, k) ==
            IF Last(rows) = <<>> \/ wide(Last(rows)) + wd.items[k].w + wd.hp * 2 <= wd.w
            THEN [rows EXCEPT ![Len(rows)] = Append(@, k)] ELSE Append(rows, <<k>>)
    IN  FoldLeft(add, <<<<>>>>, [k \in 1 .. Count(wd) |-> k])

WidthOf(wd, row) ==
    Sum([j \in DOMAIN row |-> wd.items[row[j]].w]) + wd.hsep * Max({0, Len(row) - 1})
HeightOf(wd, row) == Largest([j \in DOMAIN row |-> wd.items[row[j]].h])
SizeOf(wd, rows) ==
    IF rows = <<>> THEN <<0, 0>>
    ELSE <<Largest([i \in DOMAIN rows |-> WidthOf(wd, rows[i])]),
           Sum([i \in DOMAIN rows |-> HeightOf(wd, rows[i])]) + wd.vsep * (Len(rows) - 1)>>

\* The first of some sizes whose width is to its height most nearly as asked for.
Nearest(sizes, aspect) ==
    LET off(r) == Max({sizes[r][1] * aspect[2] - aspect[1] * sizes[r][2],
                       aspect[1] * sizes[r][2] - sizes[r][1] * aspect[2]})
    IN  Min({r \in DOMAIN sizes : \A q \in DOMAIN sizes :
                off(r) * sizes[q][2] <= off(q) * sizes[r][2]})
RowsByAspect(wd) ==
    LET size(r) == SizeOf(wd, SelectSeq(RowsByCount(wd, r), LAMBDA row : wd.keep \/ row # <<>>))
    IN  RowsByCount(wd, Nearest([r \in 1 .. Count(wd) |-> Turned(wd, size(r))], wd.aspect))

Rows(wd) ==
    LET rows == CASE wd.items = <<>> -> [i \in 1 .. wd.rows |-> <<>>]
                  [] wd.rows > 0 -> RowsByCount(wd, wd.rows)
                  [] wd.aspect # <<>> -> RowsByAspect(wd)
                  [] OTHER -> RowsByWidth(wd)
    IN  SelectSeq(rows, LAMBDA row : wd.keep \/ row # <<>>)

\* Where the k-th item of a flow in these rows is drawn.
FlowAt(wd, rows, k) ==
    LET i == CHOOSE n \in DOMAIN rows : k \in ToSet(rows[n])
        before == SelectSeq(rows[i], LAMBDA j : j < k)
        above == SubSeq(rows, 1, i - 1)
    IN  <<Sum([j \in DOMAIN before |-> wd.items[before[j]].w + wd.hsep])
             + Place(wd.ih, SizeOf(wd, rows)[1] - WidthOf(wd, rows[i])),
          Sum([n \in DOMAIN above |-> HeightOf(wd, above[n]) + wd.vsep])
             + Place(wd.iv, HeightOf(wd, rows[i]) - wd.items[k].h)>>

------------------------------------------------------------------------------
ContentSize(wd) ==
    CASE wd.kind = "frame" -> <<Largest(Widths(wd.items)), Largest(Heights(wd.items))>>
      [] wd.kind = "hsplit" -> RowSize(wd)
      [] wd.kind = "vsplit" -> Swap(RowSize(Flip(wd)))
      [] wd.kind = "grid" -> GridSize(wd)
      [] wd.kind = "flow" -> Turned(wd, SizeOf(AsRows(wd), Rows(AsRows(wd))))

\* The room for the content c: what is given, or what the content takes.
Limits(wd, c) ==
    <<IF wd.w = Unset THEN c[1] ELSE wd.w - wd.hp * 2, IF wd.h = Unset THEN c[2] ELSE wd.h - wd.vp * 2>>
TooLarge(wd, c) == \E d \in 1 .. 2 : c[d] > Limits(wd, c)[d]
SelfSize(wd, c) ==
    LET inner(d, fit) == IF fit THEN Min({c[d], Limits(wd, c)[d]}) ELSE Limits(wd, c)[d]
    IN  <<inner(1, wd.fitw) + (wd.hm + wd.hp) * 2, inner(2, wd.fith) + (wd.vm + wd.vp) * 2>>
ContentPos(wd, c) ==
    <<Place(wd.ch, SelfSize(wd, c)[1] - (wd.hm + wd.hp) * 2 - c[1]),
      Place(wd.cv, SelfSize(wd, c)[2] - (wd.vm + wd.vp) * 2 - c[2])>>

CellSize(wd, k) ==
    CASE wd.kind = "frame" -> ContentSize(wd)
      [] wd.kind = "hsplit" -> RowCells(wd)[k]
      [] wd.kind = "vsplit" -> Swap(RowCells(Flip(wd))[k])
      [] wd.kind = "grid" -> <<GridWidths(wd)[ColOf(wd, k)], GridHeights(wd)[RowOf(wd, k)]>>
      [] wd.kind = "flow" -> <<wd.items[k].w, wd.items[k].h>>
CellAt(wd, k) ==
    IF wd.kind = "flow"
    THEN Turned(wd, FlowAt(AsRows(wd), Rows(AsRows(wd)), k))
    ELSE at

\* Faulty variant: a line of the grid ends one item late.
AdvanceLate(wd, k, cell) ==
    CASE wd.kind = "hsplit" -> <<at[1] + cell.w + wd.hsep, 0>>
      [] wd.kind = "vsplit" -> <<0, at[2] + cell.h + wd.vsep>>
      [] wd.kind = "grid" ->
           IF ~wd.vertical
           THEN IF ColOf(wd, k) # ColCount(wd) \/ k = ColCount(wd)
                THEN <<at[1] + cell.w + wd.hsep, at[2]>>
                ELSE <<0, at[2] + cell.h + wd.vsep>>
           ELSE IF RowOf(wd, k) # RowCount(wd) THEN <<at[1], at[2] + cell.h + wd.vsep>>
                ELSE <<at[1] + cell.w + wd.hsep, 0>>
      [] OTHER -> at

\* Where the cell of the item after k begins.
Advance(wd, k, cell) ==
    CASE wd.kind = "hsplit" -> <<at[1] + cell.w + wd.hsep, 0>>
      [] wd.kind = "vsplit" -> <<0, at[2] + cell.h + wd.vsep>>
      [] wd.kind = "grid" ->
           IF ~wd.vertical
           THEN IF ColOf(wd, k) # ColCount(wd) THEN <<at[1] + cell.w + wd.hsep, at[2]>>
                ELSE <<0, at[2] + cell.h + wd.vsep>>
           ELSE IF RowOf(wd, k) # RowCount(wd) THEN <<at[1], at[2] + cell.h + wd.vsep>>
                ELSE <<at[1] + cell.w + wd.hsep, 0>>
      [] OTHER -> at

------------------------------------------------------------------------------
\* The regions of the painter: moved, with another size or the same, and shrunk.
Moved(r, by) == [r EXCEPT !.x = @ + by[1], !.y = @ + by[2]]
Sized(r, size) == [r EXCEPT !.w = size[1], !.h = size[2]]
Shrunk(r, by) == [x |-> r.x + by[1], y |-> r.y + by[2], w |-> r.w - by[1] * 2, h |-> r.h - by[2] * 2]

\* An item of the size given in its cell, at the side or in the middle as aligned.
ItemIn(wd, cell, item) ==
    LET align == IF wd.kind = "frame" THEN <<wd.ch, wd.cv>> ELSE <<wd.ih, wd.iv>>
    IN  Sized(Moved(cell, <<Place(align[1], cell.w - item[1]),
                            Place(align[2], cell.h - item[2])>>), item)

\* get_img: a canvas whose content does not fit is refused, or drawn outside when
\* that is allowed.
Measure ==
    /\ step = "measure"
    /\ IF TooLarge(widget, ContentSize(widget)) /\ ~widget.outside
       THEN step' = "refused" /\ UNCHANGED region
       ELSE step' = "enter" /\ region' = Whole(SelfSize(widget, ContentSize(widget)))
    /\ UNCHANGED <<widget, outer, at, cells, rects>>

\* draw: the region moves by the offset from the anchor, loses margin and padding,
\* and moves to the content; a region that is not of the measured size is a fault.
Enter ==
    /\ step = "enter"
    /\ LET moved == Moved(region, <<widget.off[1] - Place(widget.ox, region.w),
                                    widget.off[2] - Place(widget.oy, region.h)>>)
           inMargin == Shrunk(moved, <<widget.hm, widget.vm>>)
           inPadding == Shrunk(inMargin, <<widget.hp, widget.vp>>)
       IN  /\ outer' = outer \o <<region, moved, inMargin, inPadding>>
           /\ region' = Moved(inPadding, ContentPos(widget, ContentSize(widget)))
    /\ step' = "items"
    /\ UNCHANGED <<widget, at, cells, rects>>

\* _draw_content: the next item in its cell, in regions restored at once.
DrawItem ==
    /\ step = "items" /\ Len(rects) < Count(widget)
    /\ LET k == Len(rects) + 1
           cell == cells'[k]
       IN  /\ cells' = Append(cells, Sized(Moved(region, CellAt(widget, k)), CellSize(widget, k)))
           /\ rects' = Append(rects, ItemIn(widget, cell, <<widget.items[k].w, widget.items[k].h>>))
           /\ at' = Advance(widget, k, cell)
    /\ UNCHANGED <<widget, step, region, outer>>

Leave ==
    /\ step = "items" /\ Len(rects) = Count(widget)
    /\ region' = outer[Len(outer) - 3] /\ outer' = SubSeq(outer, 1, Len(outer) - 4)
    /\ step' = "done"
    /\ UNCHANGED <<widget, at, cells, rects>>

Next == Measure \/ Enter \/ DrawItem \/ Leave

Spec == Init /\ [][Next]_vars

------------------------------------------------------------------------------
TypeOK ==
    /\ step \in {"measure", "enter", "items", "done", "refused"}
    /\ Len(cells) = Len(rects) /\ Len(rects) <= Count(widget)
    /\ \A r \in ToSet(cells \o rects \o outer) \cup {region} :
          {r.x, r.y} \subseteq Int /\ {r.w, r.h} \subseteq Int

Inside(r, s) == r.x >= s.x /\ r.y >= s.y /\ r.x + r.w <= s.x + s.w /\ r.y + r.h <= s.y + s.h
Apart(r, s, across, down) ==
    \/ r.x + r.w + across <= s.x \/ s.x + s.w + across <= r.x
    \/ r.y + r.h + down <= s.y \/ s.y + s.h + down <= r.y

\* The content as it was measured, at the place it is drawn.
Content == Sized(region, ContentSize(widget))

\* What was measured holds what is drawn: every cell is in the content, the content in
\* the container inside its margin and padding, unless it may be drawn outside.
DrawnWhereMeasured ==
    step = "items" =>
        /\ \A k \in DOMAIN cells : Inside(cells[k], Content)
        /\ ~widget.outside => Inside(Content, Last(outer))

\* Items are in the order and at the distance asked for: no two cells are nearer than
\* the separation, in whichever direction, and the next is not before the last.
CellsKeepApart ==
    widget.kind # "frame" =>
        \A j, k \in DOMAIN cells : j < k => Apart(cells[j], cells[k], widget.hsep, widget.vsep)

\* Unless an item may be larger than its share of a given size, it is in its cell; of
\* a split by given ratios, whose cells may come out a pixel short, it sticks out by
\* at most that pixel.
ItemsInCells ==
    LET over == IF widget.ratios = <<>> THEN 0 ELSE 1
    IN  widget.mode # "expand" =>
            \A k \in DOMAIN rects : Inside(rects[k], Shrunk(cells[k], <<-over, -over>>))

\* The painter ends with the region it began with (draw's assertion on the size).
RegionsAreRestored ==
    /\ step = "done" => outer = <<>> /\ region = Whole(SelfSize(widget, ContentSize(widget)))
    /\ step = "enter" => region = Whole(SelfSize(widget, ContentSize(widget)))

\* The rows of a flow, also of one in columns, are filled one after the other, hold
\* every item once, and keep to the width unless a single item does not.
FlowIsFilled ==
    widget.kind = "flow" =>
        LET wd == AsRows(widget)
            rows == Rows(wd)
        IN  /\ FlattenSeq(rows) = [k \in 1 .. Count(wd) |-> k]
            /\ wd.rows = 0 /\ wd.aspect = <<>> =>
                 \A i \in DOMAIN rows : Len(rows[i]) > 1 => WidthOf(wd, rows[i]) + wd.hp * 2 <= wd.w
=============================================================================
