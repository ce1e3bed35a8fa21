----------------------------- MODULE ListScroll -----------------------------
(***************************************************************************)
(* The wheel (app/scroll.rs): a list of rows, some of which belong to an   *)
(* item (0 is a row of no item), a window of `visible` rows that skips the *)
(* first `start`, and the selected item.  Every notch moves the window by  *)
(* one row and takes the selection along when it would leave the window;   *)
(* at an end of the list it moves the selection instead.                   *)
(***************************************************************************)
EXTENDS Integers, Sequences, SequencesExt, FiniteSetsExt

NoItem == 0

LastStart(rows, visible) == Max({0, Len(rows) - visible})

ItemRows(rows, item) == {i \in DOMAIN rows : rows[i] = item}

\* The rows of the window that belong to an item.
InWindow(rows, visible, start) ==
    {i \in (start + 1)..(start + visible) : i \in DOMAIN rows /\ rows[i] # NoItem}

\* The window cannot move: the selection goes to the next item.
SelectNext(rows, pos, down) ==
    LET beyond == {i \in DOMAIN rows : rows[i] # NoItem /\
                       IF down THEN rows[i] > pos.selected ELSE rows[i] < pos.selected} IN
    IF beyond = {} THEN pos
    ELSE [pos EXCEPT !.selected = rows[IF down THEN Min(beyond) ELSE Max(beyond)]]

\* Seeded fault: the selection stays behind when the window moves away.
MoveWindow_Alone(rows, visible, pos, down) ==
    [pos EXCEPT !.start = IF down THEN @ + 1 ELSE @ - 1]

MoveWindow(rows, visible, pos, down) ==
    LET start == IF down THEN pos.start + 1 ELSE pos.start - 1
        mine == ItemRows(rows, pos.selected)
        left == IF down THEN \A i \in mine : i < start + 1
                        ELSE \A i \in mine : i > start + visible
        shown == InWindow(rows, visible, start) IN
    [start |-> start,
     selected |-> IF left /\ shown # {}
                    THEN rows[IF down THEN Min(shown) ELSE Max(shown)]
                    ELSE pos.selected]

Notch(rows, visible, pos, down) ==
    IF (down /\ pos.start = LastStart(rows, visible)) \/ (~down /\ pos.start = 0)
        THEN SelectNext(rows, pos, down)
        ELSE MoveWindow(rows, visible, pos, down)

Notches(n) == [i \in 1..n |-> i]

Scroll(rows, visible, pos, delta) ==
    IF visible = 0 \/ \A i \in DOMAIN rows : rows[i] = NoItem THEN pos
    ELSE FoldLeft(LAMBDA p, i : Notch(rows, visible, p, delta > 0),
                  [pos EXCEPT !.start = Min({@, LastStart(rows, visible)})],
                  Notches(Min({IF delta > 0 THEN delta ELSE -delta,
                               Len(rows) + visible})))
=============================================================================
