------------------------------- MODULE Screen -------------------------------
(***************************************************************************)
(* What the TUI draws and what the mouse hits (ui/layout.rs, its panes,    *)
(* sources and overlay modules, tui_client/handler/mouse.rs).              *)
(*                                                                         *)
(* Two computations have to agree.  draw_sources lays the profile list out *)
(* line by line, every line as wide as its columns, and the paragraph      *)
(* wraps a line that is too wide; source_hit_test, which a click and the   *)
(* pointer shape use, counts one line per row of app/scroll.rs and never   *)
(* looks at a width.  In the same way wheel_window, from which a wheel     *)
(* event is computed, has to agree with the window each overlay draws.     *)
(*                                                                         *)
(* Texts are modelled by their width in columns, a list by the widths of   *)
(* its addresses and headers.  Items and lines are numbered from 1; NoItem *)
(* is a line of no item.  A wheel event is one step here: its request and  *)
(* its answer are those of module Session.                                 *)
(***************************************************************************)
EXTENDS ListScroll

CONSTANT
    Scopes        \* what varies in a behaviour, one of these records:
                  \*   areas      terminal sizes, [w |-> columns, h |-> rows]
                  \*   lists      contents of the profile list
                  \*   overlays   overlays that are opened over it
                  \*   steps      rows a wheel event moves (WHEEL_STEPS)
                  \*   lines      screen lines of the pane that are pressed

VARIABLES
    scope,        \* the record of Scopes this behaviour is about
    view,         \* what the client draws from: see Views
    tracked,      \* ClickTracker: the profile of the last single press
    connect       \* the profile of the ConnectProfile the last press sent

vars == <<scope, view, tracked, connect>>

NoScroll == -1
NoProfile == <<0, 0>>

-----------------------------------------------------------------------------
(* The panes.                                                              *)

TerminalSizeSupported(v) == v.area.w >= 70 /\ v.area.h >= 15

LogsVisible(v) == v.area.w >= 90

\* The traffic panel takes three rows, the status bar one.
MainHeight(v) == v.area.h - 4

PaneWidth(v) == IF LogsVisible(v) THEN v.area.w \div 2 ELSE v.area.w

\* Inside the borders and one column of padding on either side.
InnerWidth(v) == PaneWidth(v) - 4

InnerHeight(v) == MainHeight(v) - 2

\* The paragraph has the borders and no padding.
ParagraphWidth(v) == PaneWidth(v) - 2

-----------------------------------------------------------------------------
(* The profile list: standalone profiles, then every subscription with its *)
(* header.  A row is <<group, position>>, group 0 the standalone ones and  *)
(* position 0 a header.                                                    *)

GroupRows(g, n, header) == [i \in 1..(n + header) |-> <<g, i - header>>]

Rows(v) == FoldLeft(LAMBDA acc, g : acc \o GroupRows(g, v.list.subs[g], 1),
                    GroupRows(0, v.list.standalone, 0),
                    [g \in DOMAIN v.list.subs |-> g])

\* app/scroll/lists.rs: a blank line wherever the group changes.
SourceRows(v) ==
    LET rows == Rows(v)
        Append1(acc, i) ==
            IF acc # <<>> /\ rows[i][1] # rows[i - 1][1]
              THEN acc \o <<NoItem, i>> ELSE Append(acc, i) IN
    FoldLeft(Append1, <<>>, [i \in DOMAIN rows |-> i])

\* The window follows the selection and otherwise stays where it was.
SourcesWindowStart(v) ==
    LET rows == SourceRows(v)
        visible == InnerHeight(v)
        start == Min({v.sourcesScroll, LastStart(rows, visible)})
        mine == ItemRows(rows, v.selected) IN
    IF mine = {} THEN start
    ELSE LET line == Min(mine) - 1 IN
         CASE line < start             -> line
           [] line >= start + visible  -> line + 1 - visible
           [] OTHER                    -> start

-----------------------------------------------------------------------------
(* Drawing the list.                                                       *)

Trunc(x) == Max({0, x})

\* The width of a text, of characters `cell` wide, cut to a column: a column of
\* up to three is all dots, and whole characters are left of a longer text.
Truncated(width, max, cell) ==
    CASE max <= 3     -> max
      [] width <= max -> width
      [] OTHER        -> cell * ((max - 3) \div cell) + 3

Padded(width, target) == Max({width, target})

LatencyWidth(v) == IF v.list.latency THEN 7 ELSE 0

\* The prefix, the protocol and two gaps, and the latency when it is shown.
Remaining(v) == Trunc(InnerWidth(v) - (2 + 6 + 2 + LatencyWidth(v)))

\* Seeded fault: the address column leaves no room for the shortest name.
AddrWidth_Greedy(v) == Min({Max({v.list.addr, 11}), 40})

\* The widest address, within bounds that leave eight columns for the name.
AddrWidth(v) == Min({Max({v.list.addr, 11}), 21, Trunc(Remaining(v) - 8)})

NameWidth(v) == Max({Trunc(Remaining(v) - AddrWidth(v)), 8})

\* A profile's columns; a selected line is filled up to the pane.  Every other
\* address is a short one.
AddrOf(v, item) == IF Rows(v)[item][2] % 2 = 1 THEN v.list.addr ELSE Min({v.list.addr, 9})

ProfileLineWidth(v, item) ==
    LET padded == item = v.selected \/ v.list.latency
        text == Truncated(AddrOf(v, item), AddrWidth(v), 1)
        addr == IF padded THEN Padded(text, AddrWidth(v)) ELSE text
        used == 2 + NameWidth(v) + 1 + 6 + 1 + addr + LatencyWidth(v)
        trailing == IF item = v.selected THEN Trunc(InnerWidth(v) - used) ELSE 0 IN
    1 + used + trailing + 1

\* A header is cut to the pane, and filled up when it is selected.
HeaderLineWidth(v, item) ==
    LET text == Truncated(v.list.name, InnerWidth(v), v.list.cell) IN
    1 + (IF item = v.selected THEN Padded(text, InnerWidth(v)) ELSE text) + 1

LineWidth(v, item) ==
    CASE item = NoItem           -> 0
      [] Rows(v)[item][2] = 0    -> HeaderLineWidth(v, item)
      [] OTHER                   -> ProfileLineWidth(v, item)

\* draw_sources: the standalone profiles, then for every subscription a
\* blank line if something is above it, its header and its profiles.  A hint
\* stands in for an empty list.
DrawnLines(v) ==
    LET rows == Rows(v)
        Of(g) == SelectSeq([i \in DOMAIN rows |-> i], LAMBDA i : rows[i][1] = g)
        AddGroup(acc, g) == acc \o (IF acc = <<>> THEN <<>> ELSE <<NoItem>>) \o Of(g) IN
    IF rows = <<>> THEN <<NoItem>>
    ELSE FoldLeft(AddGroup, Of(0), [g \in DOMAIN v.list.subs |-> g])

\* A line that does not fit wraps: the screen lines one line takes.
Wrapped(v, item) ==
    [i \in 1..Max({1, (LineWidth(v, item) - 1) \div ParagraphWidth(v) + 1}) |-> item]

\* The screen lines of the pane, scrolled to the window.
DrawnSources(v) ==
    LET lines == FoldLeft(LAMBDA acc, item : acc \o Wrapped(v, item), <<>>, DrawnLines(v))
        start == SourcesWindowStart(v) IN
    SubSeq(lines, start + 1, Min({start + InnerHeight(v), Len(lines)}))

DrawnAt(v, line) ==
    IF line \in DOMAIN DrawnSources(v) THEN DrawnSources(v)[line] ELSE NoItem

\* The row a click on a screen line of the pane's content is taken for.
SourceHitTest(v, line) ==
    IF v.overlay.kind # "none" \/ ~TerminalSizeSupported(v) \/ line \notin 1..InnerHeight(v)
      THEN NoItem
    ELSE LET at == line + SourcesWindowStart(v) IN
         IF at \in DOMAIN SourceRows(v) THEN SourceRows(v)[at] ELSE NoItem

-----------------------------------------------------------------------------
(* Overlays.                                                               *)

GroupSize == [navigation |-> 4, sources |-> 10, logs |-> 5, connection |-> 4,
              settings |-> 5, routing |-> 4, dialogs |-> 4, general |-> 3]

BaseOrder == <<"sources", "logs", "connection", "settings", "dialogs", "general">>

RelevantGroups(context) ==
    CASE context = "sources"       -> <<"sources">>
      [] context = "logs"          -> <<"logs">>
      [] context = "routing page"  -> <<"routing", "dialogs", "settings">>
      [] context = "settings page" -> <<"dialogs", "settings">>
      [] context = "dialog"        -> <<"dialogs">>
      [] OTHER                     -> <<>>

\* A separator between groups, a heading, the commands: items are commands.
AppendGroup(acc, group) ==
    LET heading == acc \o (IF acc = <<>> THEN <<NoItem>> ELSE <<NoItem, NoItem>>) IN
    heading \o [i \in 1..GroupSize[group] |-> Len(heading) + i]

HelpRows(context) ==
    LET relevant == RelevantGroups(context) IN
    FoldLeft(AppendGroup, <<>>,
             <<"navigation">> \o relevant \o
             SelectSeq(BaseOrder, LAMBDA g : g \notin Range(relevant)))

Commands(rows) == {i \in DOMAIN rows : rows[i] # NoItem}
FirstCommand(rows) == Min(Commands(rows))
LastCommand(rows) == Max(Commands(rows))

\* The routing page: the mode, a blank line, a heading, the rules and final.
RuleRows(n) == [i \in 1..(n + 1) |-> i + 1]

RoutingPageLines(n) == <<1, NoItem, NoItem>> \o RuleRows(n)

OverlayRows(o) ==
    CASE o.kind = "help"    -> HelpRows(o.context)
      [] o.kind = "routing" -> RoutingPageLines(o.n)
      [] OTHER              -> [i \in 1..o.n |-> i]

OverlayMaxHeight(v) == Min({28, v.area.h - 1})

SelectionVisible(v, total) == Min({total, Trunc(OverlayMaxHeight(v) - 6)})

\* The rows of a help popup: its height without the borders and the footer.
HelpVisible(v, total) == Min({total + 4, OverlayMaxHeight(v)}) - 4

\* Rows of the list an overlay shows at a time.
Visible(v) ==
    LET total == Len(OverlayRows(v.overlay)) IN
    CASE v.overlay.kind = "help"              -> HelpVisible(v, total)
      [] v.overlay.kind \in {"list", "routing"} -> SelectionVisible(v, total)
      [] OTHER                                -> total

\* The popup is as high as its lines (heading, footer and two blank ones, and
\* the borders), cut to the screen; the list gets what is left.
PopupHeight(v, lines) == Min({lines + 2, OverlayMaxHeight(v)})

DrawnRows(v) == IF v.overlay.kind = "help" THEN HelpVisible(v, Len(OverlayRows(v.overlay)))
                ELSE Min({Visible(v), Trunc(PopupHeight(v, Visible(v) + 4) - 6)})

\* Seeded fault: the selection one below the window counts as inside it.
SelectionWindowStart_Late(total, visible, line, scroll) ==
    LET max == Trunc(total - visible)
        start == Min({scroll, max}) IN
    CASE scroll = NoScroll      -> Min({Trunc(line - visible \div 2), max})
      [] line < start           -> line
      [] line > start + visible -> Min({Trunc(line + 1 - visible), max})
      [] OTHER                  -> start

\* Lines count from 0.  Until a wheel event the selection is centred.
SelectionWindowStart(total, visible, line, scroll) ==
    LET max == Trunc(total - visible)
        start == Min({scroll, max}) IN
    CASE scroll = NoScroll       -> Min({Trunc(line - visible \div 2), max})
      [] line < start            -> line
      [] line >= start + visible -> Min({Trunc(line + 1 - visible), max})
      [] OTHER                   -> start

LineOf(rows, item) ==
    LET mine == ItemRows(rows, item) IN IF mine = {} THEN 0 ELSE Min(mine) - 1

\* Help shows its first heading whenever its first command is selected.
HelpWindowStart(rows, visible, item, scroll) ==
    IF item = FirstCommand(rows) /\ item - 1 < visible THEN 0
    ELSE SelectionWindowStart(Len(rows), visible, item - 1, scroll)

OverlayWindowStart(v) ==
    LET rows == OverlayRows(v.overlay) IN
    IF v.overlay.kind = "help"
      THEN HelpWindowStart(rows, Visible(v), v.cursor, v.overlayScroll)
      ELSE SelectionWindowStart(Len(rows), Visible(v), LineOf(rows, v.cursor),
                                v.overlayScroll)

-----------------------------------------------------------------------------
(* Steps.                                                                  *)

\* draw: the window that is drawn is the one the next event starts from.
Synced(v) ==
    [v EXCEPT
        !.sourcesScroll = IF TerminalSizeSupported(v) THEN SourcesWindowStart(v) ELSE @,
        !.overlayScroll = IF @ # NoScroll /\ v.overlay.kind # "none"
                              /\ TerminalSizeSupported(v)
                            THEN OverlayWindowStart(v) ELSE @]

None == [kind |-> "none", context |-> "", n |-> 0]

\* A new daemon snapshot with other profiles.  Which row it selects is module
\* Sources' SelectionIn; here it is any row.
Reload == \E l \in scope.lists :
    LET next == [view EXCEPT !.list = l] IN
    /\ l # view.list
    /\ \E i \in 1..Max({1, Len(Rows(next))}) :
           view' = Synced([next EXCEPT !.selected = i])
    /\ UNCHANGED <<scope, tracked, connect>>

Resize == \E a \in scope.areas :
    /\ view' = Synced([view EXCEPT !.area = a])
    /\ UNCHANGED <<scope, tracked, connect>>

\* Opening an overlay selects its first item (help: its first command), the
\* list of modes the mode in force.
OpenOverlay == \E o \in scope.overlays :
    /\ view.overlay.kind = "none"
    /\ \E i \in IF o.kind = "list" THEN 1..o.n ELSE {FirstCommand(OverlayRows(o))} :
           view' = Synced([view EXCEPT !.overlay = o, !.overlayScroll = NoScroll,
                                       !.cursor = i])
    /\ UNCHANGED <<scope, tracked, connect>>

CloseOverlay ==
    /\ view.overlay.kind # "none"
    /\ view' = Synced([view EXCEPT !.overlay = None, !.overlayScroll = NoScroll,
                                   !.cursor = 0])
    /\ UNCHANGED <<scope, tracked, connect>>

\* j, k, gg and G in the list on top; help moves from command to command.
Moved(rows, item) ==
    LET later == {i \in Commands(rows) : rows[i] > item}
        earlier == {i \in Commands(rows) : rows[i] < item} IN
    {rows[IF later = {} THEN LastCommand(rows) ELSE Min(later)],
     rows[IF earlier = {} THEN FirstCommand(rows) ELSE Max(earlier)],
     rows[FirstCommand(rows)], rows[LastCommand(rows)]}

MoveKey ==
    /\ IF view.overlay.kind = "none"
         THEN /\ Rows(view) # <<>>
              /\ \E i \in Moved([j \in DOMAIN Rows(view) |-> j], view.selected) :
                     view' = Synced([view EXCEPT !.selected = i])
         ELSE \E i \in Moved(OverlayRows(view.overlay), view.cursor) :
                  view' = Synced([view EXCEPT !.cursor = i])
    /\ UNCHANGED <<scope, tracked, connect>>

\* A wheel event over the list on top: the window of wheel_window is scrolled
\* by the daemon and the answer becomes the client's scroll position.
WheelWindow(v) ==
    IF v.overlay.kind = "none"
      THEN [rows |-> SourceRows(v), visible |-> InnerHeight(v),
            at |-> [start |-> SourcesWindowStart(v), selected |-> v.selected]]
      ELSE [rows |-> OverlayRows(v.overlay), visible |-> Visible(v),
            at |-> [start |-> OverlayWindowStart(v), selected |-> v.cursor]]

\* The support prompt, whose rows are all shown, is the client's own.
ScrolledTo(v, to) ==
    CASE v.overlay.kind = "none" ->
           [v EXCEPT !.sourcesScroll = to.start, !.selected = to.selected]
      [] v.overlay.kind = "support" -> [v EXCEPT !.cursor = to.selected]
      [] OTHER -> [v EXCEPT !.overlayScroll = to.start, !.cursor = to.selected]

\* The views after an event.
Scrolled(v, delta) ==
    {ScrolledTo(v, Scroll(window.rows, window.visible, window.at, delta)) :
        window \in {WheelWindow(v)}}

Wheel(delta) ==
    /\ TerminalSizeSupported(view)
    /\ \E v \in Scrolled(view, delta) : view' = Synced(v)
    /\ UNCHANGED <<scope, tracked, connect>>

\* A press on a screen line of the profile pane: it selects the row, and a
\* second press on the same profile in time connects it.  One anywhere else, on
\* an overlay or in the log pane, hits nothing.
Press(line, inTime) ==
    LET hit == SourceHitTest(view, line) IN
    /\ IF hit = NoItem \/ Rows(view)[hit][2] = 0
         THEN tracked' = NoProfile /\ connect' = NoProfile
         ELSE LET profile == Rows(view)[hit]
                  double == tracked = profile /\ inTime IN
              /\ tracked' = IF double THEN NoProfile ELSE profile
              /\ connect' = IF double THEN profile ELSE NoProfile
    /\ UNCHANGED scope
    /\ view' = IF hit = NoItem THEN Synced(view)
               ELSE Synced([view EXCEPT !.selected = hit])

Init ==
    /\ scope \in Scopes
    /\ view \in {Synced([area |-> a, list |-> l, overlay |-> None, selected |-> 1,
                         cursor |-> 0, sourcesScroll |-> 0,
                         overlayScroll |-> NoScroll]) : a \in scope.areas, l \in scope.lists}
    /\ tracked = NoProfile /\ connect = NoProfile

Next ==
    \/ Reload \/ Resize \/ OpenOverlay \/ CloseOverlay \/ MoveKey
    \/ \E s \in scope.steps : Wheel(s) \/ Wheel(-s)
    \/ \E line \in scope.lines, inTime \in BOOLEAN : Press(line, inTime)

Spec == Init /\ [][Next]_vars

-----------------------------------------------------------------------------
(* Properties.                                                             *)

\* The row a click is taken for is the row drawn under the pointer, on every
\* line of the pane, for every width, name and address, wherever the list is
\* scrolled (source_hit_test against draw_sources).
ClickHitsWhatIsDrawn ==
    view.overlay.kind = "none" /\ TerminalSizeSupported(view) =>
        \A line \in 1..InnerHeight(view) :
            SourceHitTest(view, line) = DrawnAt(view, line)

\* The selected item of the list on top is on the screen, whatever moved it:
\* a key, the wheel, a resize or a snapshot with other rows.
SelectionIsDrawn ==
    TerminalSizeSupported(view) =>
        IF view.overlay.kind = "none"
          THEN Rows(view) # <<>> => view.selected \in Range(DrawnSources(view))
          ELSE LET start == OverlayWindowStart(view) IN
               view.cursor \in
                   {OverlayRows(view.overlay)[i] :
                        i \in (start + 1)..(start + DrawnRows(view))}

\* An event of the wheel shows something else: it moves the window or the
\* selection, unless both are at the end it turns to.  Wheel events that come
\* slowly are one row each.
AtEnd(window, delta) ==
    LET items == Range(window.rows) \ {NoItem} IN
    \/ items = {}
    \/ /\ window.at.start = IF delta > 0 THEN LastStart(window.rows, window.visible) ELSE 0
       /\ window.at.selected = IF delta > 0 THEN Max(items) ELSE Min(items)

WheelMoves(v, delta) ==
    \A before \in {WheelWindow(v)}, scrolled \in Scrolled(v, delta) :
        \/ AtEnd(before, delta)
        \/ \E drawn \in {Synced(scrolled)} : WheelWindow(drawn).at # before.at

WheelAlwaysMoves ==
    TerminalSizeSupported(view) =>
        \A s \in scope.steps : WheelMoves(view, s) /\ WheelMoves(view, -s)

\* The same for every list but the help's, whose window is put back to the top
\* while its first command is selected (HelpWindowStart).
WheelMovesLists == view.overlay.kind # "help" => WheelAlwaysMoves
=============================================================================
