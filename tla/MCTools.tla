------------------------------ MODULE MCTools -------------------------------
(***************************************************************************)
(* The terminal, the screen, the logs and the setup of the machine, each   *)
(* on its own: a behaviour is one of the component that `part` names.  The *)
(* components share the variables v1 to v11; the ones a component does not *)
(* need keep Unused.                                                       *)
(***************************************************************************)
EXTENDS Integers, Sequences

VARIABLES part, v1, v2, v3, v4, v5, v6, v7, v8, v9, v10, v11

vars == <<part, v1, v2, v3, v4, v5, v6, v7, v8, v9, v10, v11>>

Unused == "unused"

Input == INSTANCE TerminalInput WITH
    MaxUnits <- 2, wire <- v1, pending <- v2, enabled <- v3, paused <- v4, reader <- v5,
    main <- v6, got <- v7, whole <- v8

-----------------------------------------------------------------------------
(* The screen: terminals around the sizes where the layout changes, lists  *)
(* of every shape, overlays with lists shorter and longer than the screen. *)

Area(w, h) == [w |-> w, h |-> h]
List(standalone, subs, addr, name, cell, latency) ==
    [standalone |-> standalone, subs |-> subs, addr |-> addr, name |-> name, cell |-> cell,
     latency |-> latency]
Overlay(kind, context, n) == [kind |-> kind, context |-> context, n |-> n]
Scope(areas, lists, overlays, steps, lines) ==
    [areas |-> areas, lists |-> lists, overlays |-> overlays, steps |-> steps, lines |-> lines]

Scopes ==
    {Scope({Area(60, 15), Area(70, 15), Area(89, 16), Area(90, 15)},
           {List(0, <<>>, 0, 0, 1, FALSE), List(3, <<>>, 9, 0, 1, TRUE), List(12, <<>>, 40, 0, 1, FALSE),
            List(2, <<4, 0, 5>>, 40, 50, 2, TRUE), List(0, <<0, 6, 3>>, 15, 99, 1, FALSE)},
           {}, {1, 3}, {}),
     Scope({Area(70, 15), Area(90, 18)}, {List(1, <<>>, 9, 0, 1, TRUE)},
           {Overlay("help", context, 0) : context \in
               {"sources", "logs", "dialog", "settings page", "routing page", "onboarding"}}
           \cup {Overlay("list", "", 2), Overlay("list", "", 12), Overlay("routing", "", 9),
                 Overlay("plain", "", 4), Overlay("support", "", 3)},
           {1, 2, 7}, {1}),
     Scope({Area(70, 15)},
           {List(1, <<2>>, 40, 5, 1, FALSE), List(2, <<2>>, 9, 50, 1, TRUE),
            List(0, <<1, 10>>, 21, 98, 2, FALSE)}, {}, {7}, 1..5)}

Screen == INSTANCE Screen WITH scope <- v1, view <- v2, tracked <- v3, connect <- v4

-----------------------------------------------------------------------------
(* The logs: buffers and files of a few lines, of plain (n), wide (w),     *)
(* combining (z) characters and spaces (s).                                *)

LogView == INSTANCE LogView WITH
    MaxLogLines <- 4, Heights <- {1, 2, 3}, logs <- v1, nav <- v2, pane <- v3

LogFiles == INSTANCE LogFiles WITH
    Retention <- 1, HistoryLimit <- 2, MaxLines <- 3, MaxTrims <- 1,
    files <- v1, rest <- v2, lines <- v3, trims <- v4, zone <- v5, offsets <- v6, pos <- v7,
    opened <- v8, intact <- v9, reader <- v10, shown <- v11

LogCopy == INSTANCE LogCopy WITH
    Texts <- {<<"n", "w", "s", "n">>, <<"w", "z", "n", "s", "s", "w">>, <<"n", "n", "s">>},
    Areas <- {Area(2, 2), Area(3, 2)}, MaxLogLines <- 2, MaxArrivals <- 3,
    logs <- v1, arrived <- v2, area <- v3, selection <- v4, clipboard <- v5

-----------------------------------------------------------------------------
(* The setup of the machine.                                               *)

Integrations == INSTANCE Integrations WITH Gids <- {1, 2}, sys <- v1, job <- v2

Doctor == INSTANCE Doctor WITH
    Versions <- {<<1, 13, 9>>, <<1, 14, 0>>, <<2, 0, 0>>}, Repository <- <<2, 0, 0>>,
    env <- v1, fixes <- v2

Init ==
    \/ part = "input" /\ Input!Init /\ v9 = Unused /\ v10 = Unused /\ v11 = Unused
    \/ part = "logfiles" /\ LogFiles!Init
    \/ /\ \/ part = "screen" /\ Screen!Init /\ v5 = Unused
          \/ part = "logview" /\ LogView!Init /\ v4 = Unused /\ v5 = Unused
          \/ part = "logcopy" /\ LogCopy!Init
          \/ /\ \/ part = "integrations" /\ Integrations!Init
                \/ part = "doctor" /\ Doctor!Init
             /\ v3 = Unused /\ v4 = Unused /\ v5 = Unused
       /\ v6 = Unused /\ v7 = Unused /\ v8 = Unused
       /\ v9 = Unused /\ v10 = Unused /\ v11 = Unused

Next ==
    /\ UNCHANGED part
    /\ \/ part = "input" /\ Input!Next /\ UNCHANGED <<v9, v10, v11>>
       \/ part = "logfiles" /\ LogFiles!Next
       \/ part = "screen" /\ Screen!Next /\ UNCHANGED <<v5, v6, v7, v8, v9, v10, v11>>
       \/ part = "logview" /\ LogView!Next /\ UNCHANGED <<v4, v5, v6, v7, v8, v9, v10, v11>>
       \/ part = "logcopy" /\ LogCopy!Next /\ UNCHANGED <<v6, v7, v8, v9, v10, v11>>
       \/ part = "integrations" /\ Integrations!Next
          /\ UNCHANGED <<v3, v4, v5, v6, v7, v8, v9, v10, v11>>
       \/ part = "doctor" /\ Doctor!Next
          /\ UNCHANGED <<v3, v4, v5, v6, v7, v8, v9, v10, v11>>

Spec == Init /\ [][Next]_vars

-----------------------------------------------------------------------------
(* Properties: those of the components.                                    *)

\* The keys, pastes and mouse events the main loop gets are the ones that
\* were typed, however reads and editor sessions cut the bytes.
DecodedAsTyped == part = "input" => Input!DecodedAsTyped

\* A press is taken for the row drawn under it, the selected row is on the
\* screen, and the wheel moves every list that is longer than its window.
ScreenIsConsistent ==
    part = "screen" =>
        Screen!ClickHitsWhatIsDrawn /\ Screen!SelectionIsDrawn /\ Screen!WheelMovesLists

\* The cursor of the log pane is on the screen, the tailer shows every line
\* once, and the pane copies what it highlights.
LogsAreFaithful ==
    /\ part = "logview" => LogView!CursorIsShown
    /\ part = "logfiles" => LogFiles!NewLinesShownOnce
    /\ part = "logcopy" => LogCopy!CopyIsWhatIsHighlighted

\* The cursor of the log pane stays on its record when lines arrive and the
\* oldest are dropped.
CursorKeepsItsRecord == [][part = "logview" => LogView!ArrivalKeepsTheCursor]_vars

\* What the tour and kvn doctor say of the machine is true, the fixes they
\* propose lead to a machine without faults, and a refresh of the files
\* takes no permission away.
SetupConverges ==
    /\ part = "integrations" =>
           Integrations!SetupStateIsTrue /\ Integrations!RemedyConverges
               /\ Integrations!RefreshKeepsAccess
    /\ part = "doctor" => Doctor!DoctorConverges
=============================================================================
