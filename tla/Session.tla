------------------------------ MODULE Session ------------------------------
(***************************************************************************)
(* The conversation between the daemon and its clients: commands come in   *)
(* over the clients' sockets, the daemon handles them one by one and       *)
(* broadcasts snapshots (daemon.rs, ipc.rs, app/update/key/ipc.rs), which  *)
(* each TUI applies to its own focus, scrolling and toasts                 *)
(* (tui_client/handler.rs), and from which a command of the command line   *)
(* takes its result (cli.rs).  A client that is too slow is dropped, the   *)
(* daemon may be restarted, and the TUIs attach again.                     *)
(***************************************************************************)
EXTENDS Naturals, Sequences, SequencesExt, FiniteSets

CONSTANTS Tuis,        \* the open TUIs
          EventCapacity, \* STATUS_EVENT_CAPACITY
          MaxToasts,   \* MAX_TOASTS
          Bounds       \* how often each thing happens, of which Init picks one:
                       \* TUIs that open, statuses the daemon sets on its own,
                       \* requests of users, focus requests that expire, clients
                       \* dropped, restarts and commands

Cli == "cli"
Clients == Tuis \cup {Cli}
Keys == {"connection", "client"}
NoId == 0
None == [id |-> NoId, of |-> "none"]
Gone == [gone |-> TRUE]   \* the end of a socket

VARIABLES
    daemon,   \* the model of the daemon, and the clients it broadcasts to
    inbox,    \* commands the daemon has not handled
    wire,     \* what each client has not read
    tui,      \* each TUI
    cli,      \* a command of the command line
    left,     \* what may still happen, of a member of Bounds
    ids,      \* request ids so far
    outcome,  \* whether the command of the command line failed, once handled
    drawn     \* revisions of this daemon that some TUI has drawn

vars == <<daemon, inbox, wire, tui, cli, left, ids, outcome, drawn>>

NewDaemon ==
    [up |-> TRUE, focus |-> "sources", overlay |-> "none", rev |-> 0, status |-> "none",
     events |-> {}, sent |-> 0, clients |-> {}]
NewTui ==
    [at |-> "off", focus |-> "sources", pending |-> None, base |-> "sources", overlay |-> "none",
     seen |-> 0, toasts |-> <<>>, queue |-> <<>>, scroll |-> None, unreported |-> FALSE,
     logs |-> TRUE, since |-> 0, shown |-> {}]

Init ==
    /\ daemon = NewDaemon /\ inbox = <<>> /\ wire = [c \in Clients |-> <<>>]
    /\ tui = [t \in Tuis |-> NewTui]
    /\ cli = [at |-> "off", id |-> NoId, error |-> FALSE]
    /\ left \in Bounds /\ ids = 0
    /\ outcome = "none" /\ drawn = {}
-----------------------------------------------------------------------------
(* The toasts a TUI shows (tui_client/handler/toast.rs): a stack with the  *)
(* newest first, at most one toast for each key, that makes room by        *)
(* dropping its oldest message that is not an error.                       *)

\* A status event of the daemon, and the toast that shows it.
Toast(key, error, rev) == [key |-> key, error |-> error, rev |-> rev]

\* ToastState::drop_oldest
DropOldest(toasts) ==
    LET infos == {i \in DOMAIN toasts : ~toasts[i].error}
        oldest == IF infos = {} THEN Len(toasts) ELSE CHOOSE i \in infos : \A j \in infos : j <= i
    IN  RemoveAt(toasts, oldest)

\* ToastState::show
Show(toasts, toast) ==
    IF \E i \in DOMAIN toasts : toasts[i].key = toast.key
    THEN [i \in DOMAIN toasts |-> IF toasts[i].key = toast.key THEN toast ELSE toasts[i]]
    ELSE <<toast>> \o (IF Len(toasts) = MaxToasts THEN DropOldest(toasts) ELSE toasts)

\* The events of a snapshot that a client has not shown (ToastState::observe).
\* Events are in the order of their revisions.
Unseen(events, seen, revision) == {e \in events : revision # seen /\ e.rev > seen}

\* ToastState::observe: the stack, and the newest event if it is an error.
Observed(toasts, unseen) ==
    FoldLeft(Show, toasts, SetToSortSeq(unseen, LAMBDA e, f : e.rev < f.rev))
ErrorsToClear(unseen) ==
    {e.rev : e \in {e \in unseen : e.error /\ \A f \in unseen : f.rev <= e.rev}}

-----------------------------------------------------------------------------
(* The daemon.                                                             *)

\* Model::set_status
SetStatus(d, key, error) ==
    LET others == {e \in d.events : e.key # key}
        room == IF Cardinality(others) = EventCapacity
                THEN {e \in others : \E f \in others : f.rev < e.rev} ELSE others
    IN  [d EXCEPT !.rev = @ + 1, !.status = IF error THEN "error" ELSE "info",
                  !.events = room \cup {Toast(key, error, d.rev + 1)}]

\* Seeded fault: a client clears whatever error is set.
ClearErrorStatus_Any(d, rev) == IF d.status = "error" THEN [d EXCEPT !.status = "none"] ELSE d

\* Model::clear_error_status
ClearErrorStatus(d, rev) ==
    IF d.rev = rev /\ d.status = "error" THEN [d EXCEPT !.status = "none"] ELSE d

\* build_snapshot
Snapshot(d, re, scrolled) ==
    [re |-> re, focus |-> d.focus, overlay |-> d.overlay, rev |-> d.rev, events |-> d.events,
     error |-> d.status = "error", scrolled |-> scrolled]

\* IpcServer::broadcast: a client that does not read in time is dropped.
Broadcast(d, re, scrolled, bound) ==
    \E slow \in SUBSET {t \in d.clients \cap Tuis : wire[t] # <<>>} :
        /\ Cardinality(slow) <= bound.drops
        /\ left' = [bound EXCEPT !.drops = @ - Cardinality(slow)]
        /\ daemon' = [d EXCEPT !.clients = @ \ slow, !.sent = d.rev]
        /\ wire' = [c \in Clients |->
                      IF c \notin d.clients THEN wire[c]
                      ELSE Append(wire[c], IF c \in slow THEN Gone ELSE Snapshot(d, re, scrolled))]

\* handle_ipc_command: every command ends in a broadcast.
Handled(d, cmd) ==
    CASE cmd.cmd = "focus" -> [d EXCEPT !.focus = cmd.of]
      [] cmd.cmd = "key" -> [d EXCEPT !.overlay = cmd.of]
      [] cmd.cmd = "clear" -> ClearErrorStatus(d, cmd.of)
      [] cmd.cmd = "error" -> SetStatus(d, "client", TRUE)
      [] cmd.cmd = "failing" -> SetStatus(d, "connection", TRUE)
      [] cmd.cmd = "connect" -> SetStatus(d, "connection", FALSE)
      [] OTHER -> d
HandleCommand ==
    /\ daemon.up /\ inbox # <<>>
    /\ LET cmd == Head(inbox)
           scrolled == cmd.cmd = "scroll" /\ cmd.of = daemon.overlay
       IN  /\ Broadcast(Handled(daemon, cmd), cmd.id, scrolled, left)
           /\ outcome' = IF cmd.cmd \in {"connect", "failing"} THEN cmd.cmd ELSE outcome
    /\ inbox' = Tail(inbox)
    /\ UNCHANGED <<tui, cli, ids, drawn>>

\* A status of the daemon's own; not every handler asks for a broadcast.
OwnStatus ==
    /\ daemon.up /\ left.statuses > 0
    /\ \E key \in Keys, error \in BOOLEAN :
        LET d == SetStatus(daemon, key, error)
            after == [left EXCEPT !.statuses = @ - 1]
        IN  \/ Broadcast(d, NoId, FALSE, after)
            \/ daemon' = d /\ left' = after /\ UNCHANGED wire
    /\ UNCHANGED <<inbox, tui, cli, ids, outcome, drawn>>

Restart ==
    /\ left.restarts > 0
    /\ left' = [left EXCEPT !.restarts = @ - IF daemon.up THEN 0 ELSE 1]
    /\ daemon' = [NewDaemon EXCEPT !.up = ~daemon.up]
    /\ wire' = [c \in Clients |-> IF c \in daemon.clients THEN Append(wire[c], Gone) ELSE wire[c]]
    /\ inbox' = <<>> /\ drawn' = {}
    /\ UNCHANGED <<tui, cli, ids, outcome>>
-----------------------------------------------------------------------------
(* A TUI.                                                                  *)

Linked(c) == daemon.up /\ c \in daemon.clients
Command(cmd, id, of) == [cmd |-> cmd, id |-> id, of |-> of]
NextId == ids + 1

\* IpcClient::connect and Attach; Reattached by the reader's end.
Connect(c) ==
    /\ daemon.up
    /\ daemon' = [daemon EXCEPT !.clients = @ \cup {c}]
    /\ wire' = [wire EXCEPT ![c] = <<>>]
    /\ inbox' = Append(inbox, Command("attach", NoId, "none"))
Open(t) ==
    /\ tui[t].at = "off" /\ left.tuis > 0
    /\ left' = [left EXCEPT !.tuis = @ - 1]
    /\ Connect(t)
    /\ tui' = [tui EXCEPT ![t] = [NewTui EXCEPT !.at = "attaching"]]
    /\ UNCHANGED <<cli, ids, outcome, drawn>>

\* DaemonDisconnected: reattach, or exit when no daemon comes up in time.
Reattach(t) ==
    /\ tui[t].at # "off" /\ wire[t] # <<>> /\ Head(wire[t]) = Gone
    /\ \/ /\ Connect(t)
          /\ tui' = [tui EXCEPT ![t].at = "attaching"]
       \/ /\ ~daemon.up
          /\ tui' = [tui EXCEPT ![t] = NewTui] /\ wire' = [wire EXCEPT ![t] = <<>>]
          /\ UNCHANGED <<daemon, inbox>>
    /\ UNCHANGED <<cli, left, ids, outcome, drawn>>

\* reconcile_pane_focus
ReconcilePaneFocus(u, s) ==
    LET open == u.pending # None /\ u.pending.id # s.re IN
    [u EXCEPT !.pending = IF open THEN @ ELSE None,
              !.focus = IF open THEN u.pending.of ELSE s.focus]

\* ScrollQueue::cancel, and what a change of the list does.
Cancelled(u) == [u EXCEPT !.queue = <<>>, !.scroll = None]

\* apply_snapshot; another list cancels the scrolling.
ApplySnapshot(u, s) ==
    LET v == [u EXCEPT !.overlay = s.overlay, !.base = s.focus] IN
    IF u.overlay = s.overlay THEN v ELSE Cancelled(v)

\* ScrollQueue::acknowledge
Acknowledge(u, s) ==
    IF u.scroll # None /\ u.scroll.id = s.re THEN [u EXCEPT !.scroll = None] ELSE u

\* send_next drops wheel events of another list, and asks for one at a time.
SendNext(u, id) ==
    LET due == SelectSeq(u.queue, LAMBDA of : of = u.overlay) IN
    IF u.scroll # None \/ due = <<>> THEN u
    ELSE [u EXCEPT !.queue = Tail(due), !.scroll = [id |-> id, of |-> u.overlay]]

\* focus_pane
FocusPane(u, id, focus) ==
    IF u.focus = focus THEN u
    ELSE [u EXCEPT !.focus = focus, !.pending = [id |-> id, of |-> focus]]
FocusSourcesWhenLogsHidden(u, id) == IF u.logs THEN u ELSE FocusPane(u, id, "sources")

\* The requests that a step from u to v has sent.
Requests(u, v) ==
    (IF v.scroll \in {None, u.scroll} THEN <<>>
     ELSE <<Command("scroll", v.scroll.id, v.scroll.of)>>)
    \o (IF v.pending \in {None, u.pending} THEN <<>>
        ELSE <<Command("focus", v.pending.id, v.pending.of)>>)

\* ToastState::observe for a snapshot; what it shows is drawn in the same step.
ObserveStatus(u, s) ==
    LET unseen == Unseen(s.events, u.seen, s.rev) IN
    [u EXCEPT !.seen = s.rev, !.toasts = Observed(@, unseen)]
Drawn(u, s, v) == [v EXCEPT !.shown = @ \cup {e.rev : e \in Unseen(s.events, u.seen, s.rev)}]

\* Seeded fault: a request of the lost connection is still waited for.
Rejoined_Waiting(u, s) ==
    [Cancelled(u) EXCEPT !.at = "on", !.seen = s.rev, !.toasts = <<>>, !.since = s.rev,
                         !.shown = {}, !.unreported = FALSE]

\* reconnect: a new connection has no requests, and shows no earlier statuses.
Rejoined(u, s) ==
    [Cancelled(u) EXCEPT !.at = "on", !.pending = None, !.seen = s.rev, !.toasts = <<>>,
                         !.since = s.rev, !.shown = {}, !.unreported = FALSE]

\* The first snapshot of a connection.
FirstSnapshot(t) ==
    /\ tui[t].at = "attaching" /\ wire[t] # <<>> /\ Head(wire[t]) # Gone
    /\ LET s == Head(wire[t])
           u == Rejoined(tui[t], s)
           v == FocusSourcesWhenLogsHidden(ApplySnapshot(ReconcilePaneFocus(u, s), s), NextId)
           report == IF tui[t].unreported THEN <<Command("error", NoId, "none")>> ELSE <<>>
           sent == Requests(u, v) \o report
       IN  /\ tui' = [tui EXCEPT ![t] = IF Linked(t) THEN v
                                        ELSE [u EXCEPT !.unreported = tui[t].unreported]]
           /\ inbox' = IF Linked(t) THEN inbox \o sent ELSE inbox
           /\ ids' = ids + Len(Requests(u, v))
    /\ wire' = [wire EXCEPT ![t] = Tail(@)]
    /\ UNCHANGED <<daemon, cli, left, outcome, drawn>>

\* apply_state_update, the draw after it, and ClearErrorStatus.  A request that
\* fails because the daemon is gone leaves the rest of the step out.
ApplyStateUpdate(t) ==
    /\ tui[t].at = "on" /\ wire[t] # <<>> /\ Head(wire[t]) # Gone
    /\ LET s == Head(wire[t])
           u == Acknowledge(ApplySnapshot(ObserveStatus(ReconcilePaneFocus(tui[t], s), s), s), s)
           v == FocusSourcesWhenLogsHidden(SendNext(u, NextId), NextId + 1)
           errors == ErrorsToClear(Unseen(s.events, tui[t].seen, s.rev))
           clear == IF errors = {} THEN <<>>
                    ELSE <<Command("clear", NoId, CHOOSE rev \in errors : TRUE)>>
           requests == Requests(u, v)
           sent == requests \o clear
       IN  /\ tui' = [tui EXCEPT ![t] = IF Linked(t) \/ requests = <<>>
                                        THEN Drawn(tui[t], s, v) ELSE u]
           /\ inbox' = IF Linked(t) THEN inbox \o sent ELSE inbox
           /\ drawn' = IF Linked(t) THEN drawn \cup tui'[t].shown ELSE drawn
           /\ ids' = ids + IF requests = <<>> THEN 0 ELSE 2
    /\ wire' = [wire EXCEPT ![t] = Tail(@)]
    /\ UNCHANGED <<daemon, cli, left, outcome>>

\* A step of the user at a TUI, and what it sends; nothing is sent to a daemon
\* that is gone, and a focus that was not sent is not taken.
UserStep(t, v, requests) ==
    /\ tui[t].at = "on" /\ left.sends > 0
    /\ left' = [left EXCEPT !.sends = @ - 1] /\ ids' = ids + Len(requests)
    /\ tui' = [tui EXCEPT ![t] = IF Linked(t) \/ requests = <<>> THEN v ELSE tui[t]]
    /\ inbox' = IF Linked(t) THEN inbox \o requests ELSE inbox
    /\ UNCHANGED <<daemon, wire, cli, outcome, drawn>>

\* focus_shortcut, or the pointer enters a pane (hover_focus)
Focus(t) ==
    \E focus \in {"sources", "logs"} :
        LET v == FocusPane(tui[t], NextId, focus) IN
        /\ v # tui[t] /\ (focus = "logs" => tui[t].logs)
        /\ UserStep(t, v, Requests(tui[t], v))

\* enqueue: a wheel event over the list that is open
Wheel(t) ==
    LET v == SendNext([tui[t] EXCEPT !.queue = Append(@, tui[t].overlay)], NextId) IN
    UserStep(t, v, Requests(tui[t], v))

\* A key opens or closes a dialog; it cancels the scrolling first.
Key(t) ==
    \E overlay \in {"none", "menu"} :
        UserStep(t, Cancelled(tui[t]), <<Command("key", NoId, overlay)>>)

\* resize: the logs are hidden in a narrow terminal.
Resize(t) ==
    LET u == [Cancelled(tui[t]) EXCEPT !.logs = ~@]
        v == FocusSourcesWhenLogsHidden(u, NextId)
    IN  UserStep(t, v, Requests(u, v))

\* report_error keeps the message when the daemon is gone.
ReportError(t) ==
    UserStep(t, IF Linked(t) THEN tui[t] ELSE [tui[t] EXCEPT !.unreported = TRUE],
             IF Linked(t) THEN <<Command("error", NoId, "none")>> ELSE <<>>)

\* ScrollQueue::expire and expire_pane_focus: a request was not answered in time.
ExpireScroll(t) ==
    /\ tui[t].scroll # None
    /\ tui' = [tui EXCEPT ![t] = [Cancelled(tui[t]) EXCEPT
                  !.toasts = Show(@, Toast("scroll", FALSE, 0))]]
    /\ UNCHANGED <<inbox, left, ids>>
ExpirePaneFocus(t) ==
    /\ tui[t].pending # None /\ left.expiries > 0
    /\ left' = [left EXCEPT !.expiries = @ - 1]
    /\ LET u == [tui[t] EXCEPT !.pending = None, !.focus = tui[t].base]
           v == FocusSourcesWhenLogsHidden(u, NextId)
       IN  /\ tui' = [tui EXCEPT ![t] = IF Linked(t) THEN v ELSE u]
           /\ inbox' = IF Linked(t) THEN inbox \o Requests(u, v) ELSE inbox
           /\ ids' = ids + Len(Requests(u, v))

\* ToastState::expire: how long a toast lives depends on what it shows.
ExpireToasts(t) ==
    /\ tui[t].toasts # <<>>
    /\ \E i \in DOMAIN tui[t].toasts : tui' = [tui EXCEPT ![t].toasts = RemoveAt(@, i)]
    /\ UNCHANGED <<inbox, left, ids>>
Tick(t) ==
    /\ tui[t].at = "on"
    /\ ExpireScroll(t) \/ ExpirePaneFocus(t) \/ ExpireToasts(t)
    /\ UNCHANGED <<daemon, wire, cli, outcome, drawn>>
-----------------------------------------------------------------------------
(* A command of the command line.                                          *)

RunCli ==
    /\ cli.at = "off" /\ left.commands > 0
    /\ left' = [left EXCEPT !.commands = @ - 1]
    /\ Connect(Cli)
    /\ cli' = [cli EXCEPT !.at = "attaching"]
    /\ UNCHANGED <<tui, ids, outcome, drawn>>

\* fetch_snapshot reads one snapshot, send_command sends the request.
SendCommand ==
    /\ cli.at = "attaching" /\ wire[Cli] # <<>> /\ Head(wire[Cli]) # Gone /\ Linked(Cli)
    /\ cli' = [cli EXCEPT !.at = "waiting", !.id = NextId]
    /\ ids' = ids + 1
    /\ \E cmd \in {"connect", "failing"} : inbox' = Append(inbox, Command(cmd, NextId, "none"))
    /\ wire' = [wire EXCEPT ![Cli] = Tail(@)]
    /\ UNCHANGED <<daemon, tui, left, outcome, drawn>>

\* Seeded fault: the next snapshot is taken for the answer.
Answers_Any(s) == TRUE

\* read_response: the snapshot is the answer to the request.
Answers(s) == s.re = cli.id

\* read_response, print_command_result
ReadResponse ==
    /\ cli.at = "waiting" /\ wire[Cli] # <<>>
    /\ LET s == Head(wire[Cli]) IN
        cli' = CASE s = Gone -> [cli EXCEPT !.at = "failed"]
                 [] s # Gone /\ Answers(s) -> [cli EXCEPT !.at = "done", !.error = s.error]
                 [] OTHER -> cli
    /\ wire' = [wire EXCEPT ![Cli] = Tail(@)]
    /\ UNCHANGED <<daemon, inbox, tui, left, ids, outcome, drawn>>
CliTimeout ==
    /\ cli.at \in {"attaching", "waiting"}
    /\ cli' = [cli EXCEPT !.at = "failed"]
    /\ UNCHANGED <<daemon, inbox, wire, tui, left, ids, outcome, drawn>>
-----------------------------------------------------------------------------
Next ==
    \/ HandleCommand \/ OwnStatus \/ Restart
    \/ \E t \in Tuis : \/ Open(t) \/ Reattach(t) \/ FirstSnapshot(t) \/ ApplyStateUpdate(t)
                       \/ Focus(t) \/ Wheel(t) \/ Key(t) \/ Resize(t) \/ ReportError(t) \/ Tick(t)
    \/ RunCli \/ SendCommand \/ ReadResponse \/ CliTimeout

Spec == Init /\ [][Next]_vars
-----------------------------------------------------------------------------
\* Nothing is under way between the daemon and a TUI that is attached.
Quiet(t) == tui[t].at = "on" /\ Linked(t) /\ wire[t] = <<>> /\ inbox = <<>>

(***************************************************************************)
(* Once everything sent has arrived, every TUI has the focus and the       *)
(* dialog of the daemon, whoever changed them, waits for no answer and has *)
(* drawn every status of the snapshots since it attached, also after it    *)
(* was dropped or the daemon restarted                                     *)
(* (reconcile_pane_focus, apply_state_update, reconnect).                  *)
(***************************************************************************)
TuisAgree ==
    \A t \in Tuis :
        Quiet(t) => /\ tui[t].overlay = daemon.overlay /\ tui[t].focus = daemon.focus
                    /\ tui[t].pending = None
                    /\ daemon.sent = daemon.rev =>
                        \A e \in daemon.events :
                            e.rev > tui[t].since => e.rev \in tui[t].shown

(***************************************************************************)
(* An error status is cleared only after a TUI has drawn it                *)
(* (ClientLoop::dispatch, Model::clear_error_status).                      *)
(***************************************************************************)
ErrorIsDrawnBeforeCleared ==
    daemon.status = "error" /\ daemon'.status = "none" /\ daemon'.up /\ daemon.up
     => daemon.rev \in drawn

(***************************************************************************)
(* A command of the command line reports its own outcome, whatever other   *)
(* snapshots it reads (read_response, print_command_result).               *)
(***************************************************************************)
CommandReportsItsOutcome == cli.at = "done" => outcome = IF cli.error THEN "failing" ELSE "connect"
=============================================================================
