------------------------------- MODULE LogCopy -------------------------------
(***************************************************************************)
(* Copying log text with the mouse (ui/layout/log.rs, log/navigation.rs,   *)
(* tui_client/handler/mouse.rs).  A press in the log pane starts a         *)
(* selection in the rows as they are then; they stay drawn while the       *)
(* button is held, although lines go on arriving.  Releasing it copies the *)
(* text between the two points to the clipboard.  Which text that is and   *)
(* which characters are drawn as selected is worked out separately, in     *)
(* columns of characters of different widths.                              *)
(***************************************************************************)
EXTENDS Integers, Sequences, SequencesExt, FiniteSetsExt

CONSTANTS
    Texts,          \* what a line may be: sequences of kinds of characters
    Areas,          \* sizes of the log pane: [w, h]
    MaxLogLines,    \* lines the log keeps
    MaxArrivals     \* lines that arrive in a behaviour

VARIABLES
    logs,           \* Model::logs: [id, text]
    arrived,        \* lines that arrived so far
    area,           \* the inside of the log pane
    selection,      \* log_selection, NoSelection when nothing is dragged
    clipboard       \* the text copied last

vars == <<logs, arrived, area, selection, clipboard>>

\* Narrow, wide, combining, and a space.
Width == [n |-> 1, w |-> 2, z |-> 0, s |-> 1]

NewLine == [id |-> 0, at |-> 0]

-----------------------------------------------------------------------------
(* Rows.  A character is known by its line and its place in it.            *)

\* wrap_log_line_with_offsets: the white space at a break is dropped.
Wrapped(text, width) ==
    LET Place(acc, i) ==
            LET c == text[i]
                full == acc.used > 0 /\ acc.used + Width[c] > width
                fresh == Len(acc.rows) > 1 /\ Last(acc.rows) = <<>> IN
            CASE fresh /\ c = "s" -> acc
              [] full /\ c = "s"  -> [rows |-> Append(acc.rows, <<>>), used |-> 0]
              [] full             -> [rows |-> Append(acc.rows, <<i>>), used |-> Width[c]]
              [] OTHER            -> [rows |-> Append(Front(acc.rows), Append(Last(acc.rows), i)),
                                      used |-> acc.used + Width[c]] IN
    FoldLeft(Place, [rows |-> <<<<>>>>, used |-> 0], [i \in DOMAIN text |-> i]).rows

Row(line, places, last) ==
    [id |-> line.id, hard |-> last,
     chars |-> [i \in DOMAIN places |-> [at |-> places[i], width |-> Width[line.text[places[i]]]]]]

LineRows(line, width) ==
    LET rows == Wrapped(line.text, width) IN
    [i \in DOMAIN rows |-> Row(line, rows[i], i = Len(rows))]

\* The rows that are drawn: a window on all of them.
Viewport(first) ==
    LET all == FlattenSeq([i \in DOMAIN logs |-> LineRows(logs[i], area.w)]) IN
    [area |-> area, rows |-> SubSeq(all, first + 1, Min({first + area.h, Len(all)}))]

TotalRows == Len(Viewport(0).rows)

RowWidth(row) == FoldLeft(LAMBDA n, c : n + c.width, 0, row.chars)

\* The column a character of a row begins in.
Column(row, i) == FoldLeft(LAMBDA n, c : n + c.width, 0, SubSeq(row.chars, 1, i - 1))

\* A character without a width counts as one column.
EndColumn(row, i) == Column(row, i) + Max({row.chars[i].width, 1}) - 1

-----------------------------------------------------------------------------
(* The selection.  Points count rows and columns from 0.                   *)

NoSelection == [viewport |-> [area |-> [w |-> 0, h |-> 0], rows |-> <<>>],
                anchor |-> <<0, 0>>, focus |-> <<0, 0>>]

ClampedPoint(viewport, column, row) ==
    LET r == Min({row, Len(viewport.rows) - 1}) IN
    <<r, Min({column, Max({0, RowWidth(viewport.rows[r + 1]) - 1})})>>

IsEmpty(s) == s.anchor = s.focus

Precedes(p, q) == p[1] < q[1] \/ (p[1] = q[1] /\ p[2] <= q[2])

Bounds(s) == IF Precedes(s.anchor, s.focus) THEN <<s.anchor, s.focus>>
             ELSE <<s.focus, s.anchor>>

\* Seeded fault: a character belongs to the text when it begins in its columns.
TextBetweenColumns_Begins(row, from, to) ==
    LET inside(i) == Column(row, i) >= from /\ Column(row, i) <= to
        places == SelectSeq([i \in DOMAIN row.chars |-> i], inside) IN
    [n \in DOMAIN places |-> [id |-> row.id, at |-> row.chars[places[n]].at]]

TextBetweenColumns(row, from, to) ==
    LET inside(i) == EndColumn(row, i) >= from /\ Column(row, i) <= to
        places == SelectSeq([i \in DOMAIN row.chars |-> i], inside) IN
    [n \in DOMAIN places |-> [id |-> row.id, at |-> row.chars[places[n]].at]]

\* LogSelection::text: soft breaks are joined.
SelectedText(s) ==
    LET from == Bounds(s)[1]
        to == Bounds(s)[2]
        Taken(r) ==
            LET row == s.viewport.rows[r + 1] IN
            TextBetweenColumns(row, IF r = from[1] THEN from[2] ELSE 0,
                               IF r = to[1] THEN to[2] ELSE RowWidth(row))
            \o (IF r < to[1] /\ row.hard THEN <<NewLine>> ELSE <<>>) IN
    IF IsEmpty(s) THEN <<>>
    ELSE FlattenSeq([n \in 1..(to[1] - from[1] + 1) |-> Taken(from[1] + n - 1)])

-----------------------------------------------------------------------------
(* What is drawn.                                                          *)

\* Seeded fault: the rows are built anew while a selection is dragged.
DrawnViewport_Live == Viewport(Max({0, TotalRows - area.h}))

\* The rows of the selection, as long as the pane has their size.
DrawnViewport ==
    IF selection # NoSelection /\ selection.viewport.area = area THEN selection.viewport
    ELSE Viewport(Max({0, TotalRows - area.h}))

\* LogSelection::contains
Highlighted(s, r, row, i) ==
    LET from == Bounds(s)[1]
        to == Bounds(s)[2] IN
    /\ ~IsEmpty(s)
    /\ r > from[1] \/ (r = from[1] /\ EndColumn(row, i) >= from[2])
    /\ r < to[1] \/ (r = to[1] /\ Column(row, i) <= to[2])

HighlightedText ==
    LET rows == DrawnViewport.rows
        Drawn(n) == LET row == rows[n]
                        places == SelectSeq([i \in DOMAIN row.chars |-> i],
                                            LAMBDA i : Highlighted(selection, n - 1, row, i)) IN
                    [k \in DOMAIN places |-> [id |-> row.id, at |-> row.chars[places[k]].at]] IN
    FlattenSeq([n \in DOMAIN rows |-> Drawn(n)])

-----------------------------------------------------------------------------
(* Events.                                                                 *)

\* A tick of the client: the oldest line makes room for a new one.
Arrive(text) ==
    /\ arrived < MaxArrivals /\ clipboard = <<>>
    /\ arrived' = arrived + 1
    /\ LET line == [id |-> arrived + 1, text |-> text] IN
       logs' = Append(IF Len(logs) = MaxLogLines THEN Tail(logs) ELSE logs, line)
    /\ UNCHANGED <<area, selection, clipboard>>

\* A press on a row; the pane may be scrolled (module LogView).  Behaviours end
\* with the first text that is copied.
Press(first, column, row) ==
    LET viewport == Viewport(first)
        point == ClampedPoint(viewport, column, row) IN
    /\ clipboard = <<>>
    /\ first <= Max({0, TotalRows - area.h})
    /\ row < Len(viewport.rows) /\ column < area.w
    /\ selection' = [viewport |-> viewport, anchor |-> point, focus |-> point]
    /\ UNCHANGED <<logs, arrived, area, clipboard>>

\* The pointer moves, also out of the pane.
Drag(column, row) ==
    /\ selection # NoSelection
    /\ selection' = [selection EXCEPT !.focus = ClampedPoint(selection.viewport, column, row)]
    /\ UNCHANGED <<logs, arrived, area, clipboard>>

\* write_clipboard_text: a tool that fails leaves the clipboard as it is.
WriteClipboard(text, ok) == IF ok THEN text ELSE clipboard

\* A single click copies nothing; the clipboard tool may fail.
Release(column, row, ok) ==
    LET s == [selection EXCEPT !.focus = ClampedPoint(selection.viewport, column, row)] IN
    /\ selection # NoSelection
    /\ clipboard' = IF IsEmpty(s) THEN clipboard ELSE WriteClipboard(SelectedText(s), ok)
    /\ selection' = NoSelection
    /\ UNCHANGED <<logs, arrived, area>>

\* A resize, the editor and a snapshot with an overlay end the selection.
Resize(a) ==
    /\ area' = a /\ selection' = NoSelection
    /\ UNCHANGED <<logs, arrived, clipboard>>

-----------------------------------------------------------------------------
Columns == 0..Max({a.w : a \in Areas})
Rows == 0..Max({a.h : a \in Areas})

Init ==
    /\ logs = <<>> /\ arrived = 0
    /\ area \in Areas
    /\ selection = NoSelection /\ clipboard = <<>>

Next ==
    \/ \E text \in Texts : Arrive(text)
    \/ \E c \in Columns, r \in Rows :
         \/ \E first \in 0..TotalRows : Press(first, c, r)
         \/ Drag(c, r)
         \/ \E ok \in BOOLEAN : Release(c, r, ok)
    \/ \E a \in Areas : Resize(a)

Spec == Init /\ [][Next]_vars

-----------------------------------------------------------------------------
(* Properties.                                                             *)

\* What a release would copy is what is drawn as selected, character by
\* character, with a new line where the next log line begins and nowhere else:
\* dragged either way, over wide and combining characters and wrapped lines,
\* out of the pane, and while lines arrive and the oldest are dropped.
CopyIsWhatIsHighlighted ==
    LET text == SelectedText(selection)
        IsChar(c) == c # NewLine IN
    selection # NoSelection =>
        /\ SelectSeq(text, IsChar) = HighlightedText
        /\ \A i \in 1..(Len(text) - 1) :
              /\ IsChar(text[i]) /\ IsChar(text[i + 1]) => text[i].id = text[i + 1].id
              /\ i > 1 /\ ~IsChar(text[i]) /\ IsChar(text[i - 1]) =>
                     ~(IsChar(text[i + 1]) /\ text[i + 1].id = text[i - 1].id)
=============================================================================
