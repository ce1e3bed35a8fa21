------------------------------ MODULE LogView ------------------------------
(***************************************************************************)
(* The log pane of the client: a buffer of the last MaxLogLines records,   *)
(* each wrapped to the width of the pane, a cursor, a visual selection and *)
(* a scroll position (ui/layout/log.rs, ui/layout/log/navigation.rs,       *)
(* tui_client/handler/key/log_pane.rs).  Records arrive while the user     *)
(* reads: a full buffer drops its oldest record, and every index into the  *)
(* buffer has to follow.                                                   *)
(*                                                                         *)
(* Records are numbered from 1 in the buffer, 0 standing for none; a       *)
(* record's identity counts modulo 2 * MaxLogLines, and every second one   *)
(* needs two rows in a narrow pane.                                        *)
(***************************************************************************)
EXTENDS ListScroll

CONSTANTS MaxLogLines,  \* how many records the buffer keeps
          Heights       \* the heights the pane may have

VARIABLES
    logs,  \* the records of the buffer
    nav,   \* cursor, anchor, scrollTop, free (a record and a row of it), active
    pane   \* the height of the pane, and whether it is narrow

vars == <<logs, nav, pane>>

None == 0
NoAnchor == [record |-> None, offset |-> 0]
Cleared(n) ==
    [n EXCEPT !.cursor = None, !.anchor = None, !.scrollTop = None,
              !.active = n.active /\ n.free # NoAnchor]

NavType ==
    [cursor : 0..MaxLogLines, anchor : 0..MaxLogLines, scrollTop : 0..MaxLogLines,
     free : [record : 0..MaxLogLines, offset : 0..1], active : BOOLEAN]
-----------------------------------------------------------------------------
\* wrap_log_line_with_offsets: the rows of a record in this pane.
RowsOf(record) == IF pane.narrow /\ record % 2 = 1 THEN 2 ELSE 1

\* build_all_log_rows: each row says of which record it is.
AllRows == FlattenSeq([i \in DOMAIN logs |-> [r \in 1..RowsOf(logs[i]) |-> i]])

\* A row's position counts from 0, as the rows that the window skips.
FirstRow(rows, record) == Min(ItemRows(rows, record)) - 1
LastRow(rows, record) == Max(ItemRows(rows, record)) - 1

AnchorAt(rows, start) ==
    IF start >= Len(rows) THEN NoAnchor
    ELSE [record |-> rows[start + 1],
          offset |-> start - FirstRow(rows, rows[start + 1])]

Resolve(rows, anchor) ==
    FirstRow(rows, anchor.record)
        + Min({anchor.offset,
               LastRow(rows, anchor.record) - FirstRow(rows, anchor.record)})

\* The pinned start of the window; the newest records when nothing pins it.
PinnedStart(rows, n) ==
    IF n.free # NoAnchor /\ n.free.record <= Len(logs) THEN Resolve(rows, n.free)
    ELSE IF n.free = NoAnchor /\ n.cursor # None /\ Max({1, n.scrollTop}) <= Len(logs)
        THEN FirstRow(rows, Max({1, n.scrollTop}))
    ELSE LastStart(rows, pane.height)

\* The record of the cursor is brought into the window.
Follow(rows, n, start) ==
    LET keep == pane.height
        first == FirstRow(rows, n.cursor)
        last == LastRow(rows, n.cursor)
        starts == {i \in Max({0, last + 1 - keep})..first :
                        i = 0 \/ rows[i] # rows[i + 1]} IN
    IF n.free # NoAnchor
        THEN IF last < start THEN last
             ELSE IF first >= start + keep THEN Max({0, first + 1 - keep}) ELSE start
    ELSE IF first < start THEN first
    ELSE IF last >= start + keep
        THEN IF starts = {} THEN first ELSE Min(starts)
    ELSE start

\* Seeded fault: the window does not follow the cursor.
ViewportStart_Pinned(n) ==
    Min({PinnedStart(AllRows, n), LastStart(AllRows, pane.height)})

ViewportStart(n) ==
    LET rows == AllRows
        pinned == PinnedStart(rows, n)
        start == IF n.cursor \in DOMAIN logs THEN Follow(rows, n, pinned) ELSE pinned IN
    Min({start, LastStart(rows, pane.height)})

\* The records that the window shows.
Shown(n) == {AllRows[i] : i \in InWindow(AllRows, pane.height, ViewportStart(n))}
-----------------------------------------------------------------------------
Init ==
    /\ logs = <<>>
    /\ nav = [cursor |-> None, anchor |-> None, scrollTop |-> None,
              free |-> NoAnchor, active |-> FALSE]
    /\ pane \in [height : Heights, narrow : BOOLEAN]

AfterOldestEvicted(anchor) ==
    IF anchor = NoAnchor THEN NoAnchor
    ELSE IF anchor.record > 1 THEN [anchor EXCEPT !.record = @ - 1]
    ELSE [record |-> 1, offset |-> 0]

\* Seeded fault: the cursor keeps its place in the buffer.
OldestLogEvicted_Kept(n) ==
    [n EXCEPT !.free = AfterOldestEvicted(@)]

OldestLogEvicted(n) ==
    LET moved == [n EXCEPT !.free = AfterOldestEvicted(@)] IN
    IF n.cursor = 1 THEN Cleared(moved)
    ELSE [moved EXCEPT !.cursor = IF @ = None THEN None ELSE @ - 1,
                       !.anchor = IF @ = None THEN None ELSE @ - 1,
                       !.scrollTop = IF @ \in {None, 1} THEN 1 ELSE @ - 1]

NextRecord == IF logs = <<>> THEN 0 ELSE (Last(logs) + 1) % (2 * MaxLogLines)

\* A record arrives, on a tick.
NewLine ==
    LET full == Len(logs) = MaxLogLines IN
    /\ logs' = Append(IF full THEN Tail(logs) ELSE logs, NextRecord)
    /\ nav' = IF full THEN OldestLogEvicted(nav) ELSE nav
    /\ UNCHANGED pane

ExpireIfIdle ==
    /\ nav.active
    /\ nav' = [Cleared(nav) EXCEPT !.free = NoAnchor, !.active = FALSE]
    /\ UNCHANGED <<logs, pane>>

SelectEdge(n, fromTop) ==
    IF Shown(n) = {} THEN n
    ELSE [n EXCEPT !.cursor = IF fromTop THEN Min(Shown(n)) ELSE Max(Shown(n)),
                   !.scrollTop = Min(Shown(n)), !.free = NoAnchor, !.active = TRUE]

\* set_scroll_top_from, then move_by.
MoveBy(n, delta) ==
    IF logs = <<>> THEN Cleared(n)
    ELSE [n EXCEPT !.scrollTop = Min(Shown(n)), !.free = NoAnchor,
                   !.cursor = Max({1, Min({@ + delta, Len(logs)})}), !.active = TRUE]

MoveCursor ==
    /\ \E delta \in {-1, 1} :
        nav' = IF nav.cursor = None THEN SelectEdge(nav, delta > 0)
                                    ELSE MoveBy(nav, delta)
    /\ UNCHANGED <<logs, pane>>

SelectBufferEdge ==
    /\ logs # <<>>
    /\ \E c \in {1, Len(logs)} :
        nav' = [nav EXCEPT !.cursor = c, !.scrollTop = c, !.free = NoAnchor,
                           !.active = TRUE]
    /\ UNCHANGED <<logs, pane>>

EnterVisual ==
    /\ LET n == IF nav.cursor = None THEN SelectEdge(nav, TRUE) ELSE nav IN
        nav' = IF n.cursor = None THEN n
               ELSE [n EXCEPT !.anchor = n.cursor, !.active = TRUE]
    /\ UNCHANGED <<logs, pane>>

\* The selection is copied, or left with Esc.
LeaveVisual ==
    /\ nav.anchor # None
    /\ nav' = [nav EXCEPT !.anchor = None]
    /\ UNCHANGED <<logs, pane>>

WheelScrollTo(n, start, selected) ==
    [n EXCEPT !.anchor = None, !.cursor = selected, !.free = AnchorAt(AllRows, start),
              !.scrollTop = AllRows[start + 1], !.active = TRUE]

Wheel ==
    /\ logs # <<>>
    /\ \E delta \in {-2, -1, 1, 2} :
        LET rows == AllRows
            start == ViewportStart(nav)
            initial == Min({IF delta > 0 THEN start + 1 ELSE start + pane.height, Len(rows)})
            selected == IF nav.cursor # None THEN nav.cursor ELSE rows[initial]
            pos == Scroll(rows, pane.height, [start |-> start, selected |-> selected], delta)
        IN nav' = WheelScrollTo(nav, pos.start, pos.selected)
    /\ UNCHANGED <<logs, pane>>

Click ==
    /\ \E record \in Shown(nav) : nav' = WheelScrollTo(nav, ViewportStart(nav), record)
    /\ UNCHANGED <<logs, pane>>

Resize ==
    /\ pane' \in [height : Heights, narrow : BOOLEAN]
    /\ UNCHANGED <<logs, nav>>

Next ==
    \/ NewLine \/ ExpireIfIdle \/ MoveCursor \/ SelectBufferEdge \/ EnterVisual
    \/ LeaveVisual \/ Wheel \/ Click \/ Resize

Spec == Init /\ [][Next]_vars
-----------------------------------------------------------------------------
TypeOK ==
    /\ logs \in UNION {[1..n -> 0..(2 * MaxLogLines - 1)] : n \in 0..MaxLogLines}
    /\ nav \in NavType
    /\ nav.cursor <= Len(logs) /\ nav.anchor <= Len(logs)

(***************************************************************************)
(* The record under the cursor is on the screen, whatever was resized,     *)
(* scrolled or dropped before (log_viewport_start).                        *)
(***************************************************************************)
CursorIsShown == nav.cursor # None => nav.cursor \in Shown(nav)

(***************************************************************************)
(* A record that arrives leaves the cursor and the end of the visual       *)
(* selection on the records they were on, or drops them with their record  *)
(* (oldest_log_evicted): `y` copies what was selected.                     *)
(***************************************************************************)
ArrivalKeepsTheCursor ==
    NewLine =>
     /\ nav.cursor # None /\ nav'.cursor = None =>
             logs[nav.cursor] \notin Range(logs')
     /\ nav'.cursor # None => logs'[nav'.cursor] = logs[nav.cursor]
     /\ nav'.anchor # None => logs'[nav'.anchor] = logs[nav.anchor]
=============================================================================
