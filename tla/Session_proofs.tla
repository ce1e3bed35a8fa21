--------------------------- MODULE Session_proofs ---------------------------
(***************************************************************************)
(* The clients of a daemon agree with it once everything sent has arrived, *)
(* an error is cleared only after it was drawn, and a command reports its  *)
(* own outcome, for any number of TUIs, statuses, drops and restarts.      *)
(*                                                                         *)
(* What a client has not read ends with the daemon's current state, each   *)
(* snapshot follows on the one before it, and a focus that waits for its   *)
(* answer has a request or an answer under way.                            *)
(***************************************************************************)
EXTENDS Session, TLAPS

\* The command line is not one of the TUIs.
ConstantsOK == Cli \notin Tuis

Panes == {"sources", "logs"}
Overlays == {"none", "menu"}
Event == [key : Keys, error : BOOLEAN, rev : Nat]
Daemon == [up : BOOLEAN, focus : Panes, overlay : Overlays, rev : Nat,
           status : {"none", "info", "error"}, events : SUBSET Event, sent : Nat,
           clients : SUBSET Clients]
SnapshotType == [re : Nat, focus : Panes, overlay : Overlays, rev : Nat,
                 events : SUBSET Event, error : BOOLEAN, scrolled : BOOLEAN]
Message == SnapshotType \cup {Gone}
TuiCommand == [cmd : {"clear", "error", "scroll"}, id : Nat, of : Nat \cup Overlays]
                \cup [cmd : {"focus"}, id : Nat, of : Panes]
                \cup [cmd : {"key"}, id : Nat, of : Overlays]
OtherCommand == [cmd : {"attach", "connect", "failing"}, id : Nat, of : {"none"}]
Request == TuiCommand \cup OtherCommand

\* A TUI; nothing depends on its toasts and its wheel.
TuiShape(u) ==
    /\ DOMAIN u = {"at", "focus", "pending", "base", "overlay", "seen", "toasts", "queue", "scroll",
                   "unreported", "logs", "since", "shown"}
    /\ u.at \in {"off", "attaching", "on"} /\ u.focus \in Panes /\ u.base \in Panes
    /\ u.overlay \in Overlays /\ u.seen \in Nat /\ u.since \in Nat
    /\ u.pending \in {None} \cup [id : Nat \ {0}, of : Panes]
    /\ u.scroll \in {None} \cup [id : Nat \ {0}, of : Overlays]

TypeOK ==
    /\ daemon \in Daemon /\ inbox \in Seq(Request) /\ wire \in [Clients -> Seq(Message)]
    /\ DOMAIN tui = Tuis /\ \A t \in Tuis : TuiShape(tui[t])
    /\ cli \in [at : {"off", "attaching", "waiting", "done", "failed"}, id : Nat, error : BOOLEAN]
    /\ ids \in Nat /\ outcome \in {"none", "connect", "failing"}

\* The parts of a TUI that only a snapshot changes.
Same(u, v) ==
    /\ v.at = u.at /\ v.base = u.base /\ v.overlay = u.overlay
    /\ v.seen = u.seen /\ v.since = u.since /\ v.shown = u.shown

\* A clear names an error that some TUI has drawn.
ClearInv == \A i \in 1..Len(inbox) : inbox[i].cmd = "clear" => inbox[i].of \in drawn

\* Request ids are given once, so the answer with the id of the command is the
\* answer to it; it is handled at most once.
OfCommand(m) == m.cmd \in {"connect", "failing"}
CliInv ==
    /\ cli.id <= ids
    /\ cli.at \in {"off", "attaching"} => cli.id = 0
    /\ cli.at \in {"waiting", "done"} => cli.id > 0
    /\ cli.id = 0 => outcome = "none"
    /\ \A i \in 1..Len(inbox) :
         /\ inbox[i].id <= ids
         /\ OfCommand(inbox[i]) => inbox[i].id = cli.id /\ cli.id > 0 /\ outcome = "none"
         /\ inbox[i].id = cli.id /\ cli.id > 0 => OfCommand(inbox[i])
    /\ \A i, j \in 1..Len(inbox) : OfCommand(inbox[i]) /\ OfCommand(inbox[j]) => i = j
    /\ \A i \in 1..Len(wire[Cli]) :
         wire[Cli][i] # Gone =>
            /\ wire[Cli][i].re <= ids
            /\ wire[Cli][i].re = cli.id /\ cli.id > 0 =>
                 outcome = IF wire[Cli][i].error THEN "failing" ELSE "connect"
    /\ CommandReportsItsOutcome

\* s was made after r: it has no event of r's time that r lacked.
Follows(r, s) == r.rev <= s.rev /\ \A e \in s.events : e.rev <= r.rev => e \in r.events

\* What a linked TUI has not read are snapshots in their order, up to the
\* daemon's last.
Latest(s) == s.focus = daemon.focus /\ s.overlay = daemon.overlay /\ s.rev = daemon.sent
WireInv(t) ==
    Linked(t) =>
        /\ \A i \in 1..Len(wire[t]) : wire[t][i] \in SnapshotType /\ Follows(wire[t][i], daemon)
        /\ \A i, j \in 1..Len(wire[t]) : i <= j => Follows(wire[t][i], wire[t][j])
        /\ wire[t] # <<>> => Latest(wire[t][Len(wire[t])])

\* A focus that waits for its answer has the request or the answer under way.
Awaited(t) ==
    \/ \E i \in 1..Len(inbox) : inbox[i] = Command("focus", tui[t].pending.id, tui[t].pending.of)
    \/ \E i \in 1..Len(wire[t]) : wire[t][i].re = tui[t].pending.id

\* Of the events in s the TUI has drawn those between its attach and the last
\* snapshot it applied.
Shown(u, s) == \A e \in s.events : e.rev <= u.seen /\ e.rev > u.since => e.rev \in u.shown

AgreeInv(t) ==
    Linked(t) /\ tui[t].at = "on" =>
        /\ tui[t].seen <= daemon.rev
        /\ wire[t] = <<>> => /\ tui[t].base = daemon.focus /\ tui[t].overlay = daemon.overlay
                             /\ tui[t].seen = daemon.sent
        /\ tui[t].pending = None => tui[t].focus = tui[t].base
        /\ tui[t].pending # None => Awaited(t)
        /\ Shown(tui[t], daemon)
        /\ \A i \in 1..Len(wire[t]) : Shown(tui[t], wire[t][i])

Inv ==
    /\ TypeOK /\ ClearInv /\ CliInv
    /\ \A e \in daemon.events : e.rev <= daemon.rev
    /\ \A t \in Tuis : WireInv(t) /\ AgreeInv(t)

-----------------------------------------------------------------------------
(* What the operators of a TUI do.                                         *)

\* A TUI that has asked for a pane shows it; one that has it asks for nothing.
LEMMA FocusPaneFacts ==
    ASSUME NEW u, TuiShape(u), NEW id \in Nat \ {0}, NEW f \in Panes
    PROVE  LET v == FocusPane(u, id, f) IN
           /\ TuiShape(v) /\ Same(u, v) /\ v.scroll = u.scroll
           /\ \/ v = u
              \/ v.focus = f /\ v.pending = [id |-> id, of |-> f]
BY DEF FocusPane, TuiShape, Same

\* A TUI whose logs are hidden asks for the sources, unless it shows them.
LEMMA FocusSourcesFacts ==
    ASSUME NEW u, TuiShape(u), NEW id \in Nat \ {0}
    PROVE  LET v == FocusSourcesWhenLogsHidden(u, id) IN
           /\ TuiShape(v) /\ Same(u, v) /\ v.scroll = u.scroll
           /\ \/ v = u
              \/ v.focus = "sources" /\ v.pending = [id |-> id, of |-> "sources"]
<1>1. CASE u.logs
  BY <1>1 DEF FocusSourcesWhenLogsHidden, Same
<1>2. CASE ~u.logs
  <2>1. FocusSourcesWhenLogsHidden(u, id) = FocusPane(u, id, "sources") /\ "sources" \in Panes
    BY <1>2 DEF FocusSourcesWhenLogsHidden, Panes
  <2> QED
    BY <2>1, FocusPaneFacts
<1> QED
  BY <1>1, <1>2

\* Cancelling the scrolling touches nothing that came from the daemon.
LEMMA CancelledFacts ==
    ASSUME NEW u, TuiShape(u)
    PROVE  LET v == Cancelled(u) IN
           /\ TuiShape(v) /\ Same(u, v) /\ v.pending = u.pending /\ v.focus = u.focus
           /\ v.scroll = None
BY DEF Cancelled, TuiShape, Same

\* The next wheel event is sent with the id that was reserved for it.
LEMMA SendNextFacts ==
    ASSUME NEW u, TuiShape(u), NEW id \in Nat \ {0}
    PROVE  LET v == SendNext(u, id) IN
           /\ TuiShape(v) /\ Same(u, v) /\ v.pending = u.pending /\ v.focus = u.focus
           /\ v.scroll = u.scroll \/ v.scroll.id = id
BY DEF SendNext, TuiShape, Same

\* A snapshot gives the TUI the daemon's focus, or leaves it the one it waits for.
LEMMA ReconcileFacts ==
    ASSUME NEW u, TuiShape(u), NEW s \in SnapshotType
    PROVE  LET v == ReconcilePaneFocus(u, s) IN
           /\ TuiShape(v) /\ Same(u, v) /\ v.scroll = u.scroll
           /\ v.pending = None => v.focus = s.focus
           /\ v.pending # None => v.pending = u.pending /\ u.pending.id # s.re
BY DEF ReconcilePaneFocus, TuiShape, Same, SnapshotType

\* The dialog and the base of the focus are those of the snapshot.
LEMMA ApplySnapshotFacts ==
    ASSUME NEW u, TuiShape(u), NEW s \in SnapshotType
    PROVE  LET v == ApplySnapshot(u, s) IN
           /\ TuiShape(v) /\ v.overlay = s.overlay /\ v.base = s.focus
           /\ v.at = u.at /\ v.seen = u.seen /\ v.since = u.since /\ v.shown = u.shown
           /\ v.pending = u.pending /\ v.focus = u.focus
           /\ v.scroll \in {None, u.scroll}
BY DEF ApplySnapshot, Cancelled, TuiShape, SnapshotType

\* An acknowledged wheel event leaves the focus alone.
LEMMA AcknowledgeFacts ==
    ASSUME NEW u, TuiShape(u), NEW s \in SnapshotType
    PROVE  LET v == Acknowledge(u, s) IN
           /\ TuiShape(v) /\ Same(u, v) /\ v.pending = u.pending /\ v.focus = u.focus
BY DEF Acknowledge, TuiShape, Same

\* The revision of the snapshot is the one seen last.
LEMMA ObserveFacts ==
    ASSUME NEW u, TuiShape(u), NEW s \in SnapshotType
    PROVE  LET v == ObserveStatus(u, s) IN
           /\ TuiShape(v) /\ v.seen = s.rev
           /\ v.at = u.at /\ v.base = u.base /\ v.overlay = u.overlay
           /\ v.since = u.since /\ v.shown = u.shown
           /\ v.pending = u.pending /\ v.focus = u.focus
BY DEF ObserveStatus, TuiShape, SnapshotType

\* A TUI that rejoins waits for nothing and has drawn nothing since.
LEMMA RejoinedFacts ==
    ASSUME NEW u, TuiShape(u), NEW s \in SnapshotType
    PROVE  LET v == Rejoined(u, s) IN
           /\ TuiShape(v) /\ v.at = "on" /\ v.pending = None /\ v.scroll = None
           /\ v.seen = s.rev /\ v.since = s.rev /\ v.shown = {}
BY DEF Rejoined, Cancelled, TuiShape, SnapshotType

\* What a step has sent: at most a request of each kind, with the ids it waits for.
LEMMA RequestsFacts ==
    ASSUME NEW u, NEW v, TuiShape(u), TuiShape(v)
    PROVE  LET sent == Requests(u, v) IN
           /\ sent \in Seq(TuiCommand)
           /\ \A i \in 1..Len(sent) :
                \/ sent[i].cmd = "scroll" /\ sent[i].id = v.scroll.id /\ v.scroll \notin {None, u.scroll}
                \/ sent[i].cmd = "focus" /\ sent[i].id = v.pending.id /\ v.pending \notin {None, u.pending}
           /\ v.pending \notin {None, u.pending} =>
                \E i \in 1..Len(sent) : sent[i] = Command("focus", v.pending.id, v.pending.of)
<1> DEFINE a == IF v.scroll \in {None, u.scroll} THEN <<>>
                ELSE <<Command("scroll", v.scroll.id, v.scroll.of)>>
           b == IF v.pending \in {None, u.pending} THEN <<>>
                ELSE <<Command("focus", v.pending.id, v.pending.of)>>
<1>1. Requests(u, v) = a \o b
  BY DEF Requests
<1>2. a \in Seq(TuiCommand)
  <2>1. v.scroll # None => Command("scroll", v.scroll.id, v.scroll.of) \in TuiCommand
    BY DEF TuiShape, TuiCommand, Command
  <2> HIDE DEF TuiCommand
  <2> QED
    BY <2>1
<1>3. b \in Seq(TuiCommand)
  <2>1. v.pending # None => Command("focus", v.pending.id, v.pending.of) \in TuiCommand
    BY DEF TuiShape, TuiCommand, Command
  <2> HIDE DEF TuiCommand
  <2> QED
    BY <2>1
<1>4. \/ v.scroll \in {None, u.scroll} /\ a = <<>> /\ Len(a) = 0
      \/ /\ v.scroll \notin {None, u.scroll} /\ Len(a) = 1
         /\ a[1].cmd = "scroll" /\ a[1].id = v.scroll.id
  BY DEF Command
<1>5. \/ v.pending \in {None, u.pending} /\ b = <<>> /\ Len(b) = 0
      \/ /\ v.pending \notin {None, u.pending} /\ Len(b) = 1
         /\ b[1] = Command("focus", v.pending.id, v.pending.of)
         /\ b[1].cmd = "focus" /\ b[1].id = v.pending.id
  BY DEF Command
<1> HIDE DEF a, b
<1>6. a \o b \in Seq(TuiCommand) /\ Len(a \o b) = Len(a) + Len(b)
  BY <1>2, <1>3
<1>7. \A i \in 1..Len(a \o b) : (a \o b)[i] = IF i <= Len(a) THEN a[i] ELSE b[i - Len(a)]
  BY <1>2, <1>3, <1>6
<1>8. Len(a) \in {0, 1} /\ Len(b) \in {0, 1}
  BY <1>4, <1>5
<1> QED
  BY <1>1, <1>4, <1>5, <1>6, <1>7, <1>8

-----------------------------------------------------------------------------
(* Steps of a TUI.                                                         *)

\* The elements of a concatenation, and of what is left without the first.
LEMMA Concat ==
    ASSUME NEW S, NEW a \in Seq(S), NEW b \in Seq(S)
    PROVE  /\ a \o b \in Seq(S) /\ Len(a \o b) = Len(a) + Len(b) /\ Len(a) \in Nat /\ Len(b) \in Nat
           /\ \A i \in 1..Len(a) : i \in 1..Len(a \o b) /\ (a \o b)[i] = a[i]
           /\ \A i \in 1..Len(b) : i + Len(a) \in 1..Len(a \o b) /\ (a \o b)[i + Len(a)] = b[i]
           /\ \A i \in 1..Len(a \o b) :
                \/ i \in 1..Len(a) /\ (a \o b)[i] = a[i]
                \/ i - Len(a) \in 1..Len(b) /\ (a \o b)[i] = b[i - Len(a)]
<1>1. a \o b \in Seq(S) /\ Len(a \o b) = Len(a) + Len(b) /\ Len(a) \in Nat /\ Len(b) \in Nat
  OBVIOUS
<1>2. \A i \in 1..(Len(a) + Len(b)) : (a \o b)[i] = IF i <= Len(a) THEN a[i] ELSE b[i - Len(a)]
  OBVIOUS
<1> QED
  BY <1>1, <1>2

\* The elements of a sequence without its first.
LEMMA TailFacts ==
    ASSUME NEW S, NEW s \in Seq(S), s # <<>>
    PROVE  /\ Head(s) = s[1] /\ 1 \in 1..Len(s) /\ Head(s) \in S
           /\ Tail(s) \in Seq(S) /\ Len(Tail(s)) = Len(s) - 1 /\ Len(s) \in Nat
           /\ \A i \in 1..Len(Tail(s)) : i + 1 \in 1..Len(s) /\ Tail(s)[i] = s[i + 1]
           /\ \A i \in 1..Len(s) : i = 1 \/ (i - 1 \in 1..Len(Tail(s)) /\ Tail(s)[i - 1] = s[i])
OBVIOUS

\* After a step of TUI t to v that sends `sent`, it waits for no answer and has
\* the daemon's focus, or the answer it waits for was asked for.
PendingOK(t, v, sent) ==
    /\ v.pending = None =>
         \/ v.focus = v.base
         \/ tui[t].pending = None /\ v.focus = tui[t].focus /\ v.base = tui[t].base
    /\ v.pending # None =>
         \/ v.pending = tui[t].pending
         \/ \E i \in 1..Len(sent) : sent[i] = Command("focus", v.pending.id, v.pending.of)

\* TUI t becomes v and sends `sent`, with fresh ids.
TuiStep(t, v, sent) ==
    /\ UNCHANGED <<daemon, cli, outcome>> /\ tui' = [tui EXCEPT ![t] = v] /\ TuiShape(v)
    /\ sent \in Seq(TuiCommand) /\ inbox' = inbox \o sent
    /\ ids' \in Nat /\ ids <= ids'
    /\ \A i \in 1..Len(sent) : sent[i].id = 0 \/ (ids < sent[i].id /\ sent[i].id <= ids')
    /\ drawn \subseteq drawn'
    /\ \A i \in 1..Len(sent) : sent[i].cmd = "clear" => sent[i].of \in drawn'
    /\ Linked(t) => PendingOK(t, v, sent)

\* Nothing else is sent to a daemon that is gone.
LEMMA NothingSent == TypeOK => inbox \o <<>> = inbox /\ <<>> \in Seq(TuiCommand) /\ Len(<<>>) = 0
BY DEF TypeOK

\* A step of the user sends its requests, or nothing to a daemon that is gone.
LEMMA UserStepFacts ==
    ASSUME TypeOK, NEW t \in Tuis, NEW v, NEW requests \in Seq(TuiCommand),
           UserStep(t, v, requests), TuiShape(v), Same(tui[t], v), PendingOK(t, v, requests),
           \A i \in 1..Len(requests) :
              /\ requests[i].id \in {0, NextId}
              /\ requests[i].cmd # "clear"
    PROVE  \E w, sent : TuiStep(t, w, sent) /\ Same(tui[t], w) /\ UNCHANGED wire
<1> DEFINE w == IF Linked(t) \/ requests = <<>> THEN v ELSE tui[t]
           sent == IF Linked(t) THEN requests ELSE <<>>
<1>1. TuiShape(w) /\ Same(tui[t], w) /\ tui' = [tui EXCEPT ![t] = w]
  BY DEF TypeOK, UserStep, Same
<1>2. sent \in Seq(TuiCommand) /\ inbox' = inbox \o sent
  BY NothingSent DEF UserStep
<1>3. ids' = ids + Len(requests) /\ Len(requests) \in Nat /\ ids \in Nat
  BY DEF TypeOK, UserStep
<1>4. \A i \in 1..Len(sent) : sent[i].id = 0 \/ (ids < sent[i].id /\ sent[i].id <= ids')
  BY <1>3, NothingSent DEF NextId
<1>5. Linked(t) => PendingOK(t, w, sent)
  OBVIOUS
<1>6. UNCHANGED <<daemon, cli, outcome, drawn, wire>>
  BY DEF UserStep
<1>7. \A i \in 1..Len(sent) : sent[i].cmd # "clear"
  BY NothingSent
<1> HIDE DEF w, sent
<1>8. TuiStep(t, w, sent)
  BY <1>1, <1>2, <1>3, <1>4, <1>5, <1>6, <1>7 DEF TuiStep
<1> QED
  BY <1>1, <1>6, <1>8

\* What a user or the clock does at a TUI leaves what came from the daemon.
LEMMA UserSteps ==
    ASSUME TypeOK, NEW t \in Tuis,
           Focus(t) \/ Wheel(t) \/ Key(t) \/ Resize(t) \/ ReportError(t) \/ Tick(t)
    PROVE  \E w, sent : TuiStep(t, w, sent) /\ Same(tui[t], w) /\ UNCHANGED wire
<1> DEFINE u == tui[t]
<1>1. TuiShape(u) /\ ids \in Nat /\ NextId \in Nat \ {0} /\ NextId = ids + 1 /\ Len(<<>>) = 0
  BY DEF TypeOK, NextId
<1>2. CASE Focus(t)
  <2>1. PICK f \in Panes : LET v == FocusPane(u, NextId, f) IN UserStep(t, v, Requests(u, v))
    BY <1>2 DEF Focus, Panes
  <2> DEFINE v == FocusPane(u, NextId, f)
  <2>2. /\ TuiShape(v) /\ Same(u, v) /\ v.scroll = u.scroll
        /\ v = u \/ v.pending = [id |-> NextId, of |-> f]
    BY <1>1, FocusPaneFacts
  <2> HIDE DEF v
  <2>3. UserStep(t, v, Requests(u, v))
    BY <2>1 DEF v
  <2>4. PendingOK(t, v, Requests(u, v))
    <3>1. CASE v = u
      BY <3>1 DEF PendingOK
    <3>2. CASE v.pending = [id |-> NextId, of |-> f]
      <4>1. v.pending # None
        BY <1>1, <3>2 DEF None, NoId
      <4> QED
        BY <1>1, <2>2, <4>1, RequestsFacts DEF PendingOK
    <3> QED
      BY <2>2, <3>1, <3>2
  <2>5. \A i \in 1..Len(Requests(u, v)) :
          Requests(u, v)[i].id \in {0, NextId} /\ Requests(u, v)[i].cmd # "clear"
    BY <1>1, <2>2, RequestsFacts
  <2>6. Requests(u, v) \in Seq(TuiCommand)
    BY <1>1, <2>2, RequestsFacts
  <2> QED
    BY <2>2, <2>3, <2>4, <2>5, <2>6, UserStepFacts
<1>3. CASE Wheel(t)
  <2> DEFINE u1 == [u EXCEPT !.queue = Append(@, u.overlay)]
             v == SendNext(u1, NextId)
  <2>1. TuiShape(u1) /\ Same(u, u1) /\ u1.pending = u.pending /\ u1.focus = u.focus
                     /\ u1.scroll = u.scroll
    BY <1>1 DEF TuiShape, Same
  <2>2. UserStep(t, v, Requests(u, v))
    BY <1>3 DEF Wheel
  <2> HIDE DEF u1
  <2>3. /\ TuiShape(v) /\ Same(u1, v) /\ v.pending = u1.pending /\ v.focus = u1.focus
        /\ v.scroll = u1.scroll \/ v.scroll.id = NextId
    BY <1>1, <2>1, SendNextFacts
  <2> HIDE DEF v
  <2>4. Same(u, v) /\ v.pending = u.pending /\ v.focus = u.focus
                   /\ (v.scroll = u.scroll \/ v.scroll.id = NextId)
    BY <2>1, <2>3 DEF Same
  <2>5. PendingOK(t, v, Requests(u, v))
    BY <2>4 DEF PendingOK, Same
  <2>6. \A i \in 1..Len(Requests(u, v)) :
          Requests(u, v)[i].id \in {0, NextId} /\ Requests(u, v)[i].cmd # "clear"
    BY <1>1, <2>3, <2>4, RequestsFacts
  <2>7. Requests(u, v) \in Seq(TuiCommand)
    BY <1>1, <2>3, RequestsFacts
  <2> QED
    BY <2>2, <2>3, <2>4, <2>5, <2>6, <2>7, UserStepFacts
<1>4. CASE Key(t)
  <2>1. PICK overlay \in Overlays : UserStep(t, Cancelled(u), <<Command("key", NoId, overlay)>>)
    BY <1>4 DEF Key, Overlays
  <2> DEFINE v == Cancelled(u)
             sent == <<Command("key", NoId, overlay)>>
  <2>2. TuiShape(v) /\ Same(u, v) /\ v.pending = u.pending /\ v.focus = u.focus
    BY <1>1, CancelledFacts
  <2>3. Command("key", NoId, overlay) \in TuiCommand
    BY DEF Command, TuiCommand, NoId
  <2>4. sent \in Seq(TuiCommand) /\ Len(sent) = 1 /\ sent[1] = Command("key", NoId, overlay)
    BY <2>3
  <2>5. UserStep(t, v, sent)
    BY <2>1
  <2> HIDE DEF v, sent
  <2>6. \A i \in 1..Len(sent) : sent[i].id \in {0, NextId} /\ sent[i].cmd # "clear"
    BY <2>4 DEF Command, NoId
  <2>7. PendingOK(t, v, sent)
    BY <2>2 DEF PendingOK, Same
  <2> QED
    BY <2>2, <2>4, <2>5, <2>6, <2>7, UserStepFacts
<1>5. CASE Resize(t)
  <2> DEFINE u1 == [Cancelled(u) EXCEPT !.logs = ~@]
             v == FocusSourcesWhenLogsHidden(u1, NextId)
  <2>1. TuiShape(u1) /\ Same(u, u1) /\ u1.pending = u.pending /\ u1.focus = u.focus /\ u1.scroll = None
    BY <1>1, CancelledFacts DEF TuiShape, Same
  <2>2. UserStep(t, v, Requests(u1, v))
    BY <1>5 DEF Resize
  <2> HIDE DEF u1
  <2>3. /\ TuiShape(v) /\ Same(u1, v) /\ v.scroll = u1.scroll
        /\ v = u1 \/ v.pending = [id |-> NextId, of |-> "sources"]
    BY <1>1, <2>1, FocusSourcesFacts
  <2> HIDE DEF v
  <2>4. Same(u, v)
    BY <2>1, <2>3 DEF Same
  <2>5. PendingOK(t, v, Requests(u1, v))
    <3>1. CASE v = u1
      BY <2>1, <3>1 DEF PendingOK, Same
    <3>2. CASE v.pending = [id |-> NextId, of |-> "sources"]
      <4>1. v.pending # None
        BY <1>1, <3>2 DEF None, NoId
      <4> QED
        BY <1>1, <2>1, <2>3, <4>1, RequestsFacts DEF PendingOK
    <3> QED
      BY <2>3, <3>1, <3>2
  <2>6. \A i \in 1..Len(Requests(u1, v)) :
          Requests(u1, v)[i].id \in {0, NextId} /\ Requests(u1, v)[i].cmd # "clear"
    BY <1>1, <2>1, <2>3, RequestsFacts
  <2>7. Requests(u1, v) \in Seq(TuiCommand)
    BY <1>1, <2>1, <2>3, RequestsFacts
  <2> QED
    BY <2>2, <2>3, <2>4, <2>5, <2>6, <2>7, UserStepFacts
<1>6. CASE ReportError(t)
  <2> DEFINE v == IF Linked(t) THEN u ELSE [u EXCEPT !.unreported = TRUE]
             sent == IF Linked(t) THEN <<Command("error", NoId, "none")>> ELSE <<>>
  <2>1. TuiShape(v) /\ Same(u, v) /\ v.pending = u.pending /\ v.focus = u.focus
    BY <1>1 DEF TuiShape, Same
  <2>2. Command("error", NoId, "none") \in TuiCommand
    BY DEF Command, TuiCommand, NoId, Overlays
  <2>3. sent \in Seq(TuiCommand) /\ \A i \in 1..Len(sent) : sent[i] = Command("error", NoId, "none")
    BY <2>2
  <2>4. UserStep(t, v, sent)
    BY <1>6 DEF ReportError
  <2> HIDE DEF v, sent
  <2>5. \A i \in 1..Len(sent) : sent[i].id \in {0, NextId} /\ sent[i].cmd # "clear"
    BY <2>3 DEF Command, NoId
  <2>6. PendingOK(t, v, sent)
    BY <2>1 DEF PendingOK, Same
  <2> QED
    BY <2>1, <2>3, <2>4, <2>5, <2>6, UserStepFacts
<1>7. CASE Tick(t)
  <2>1. UNCHANGED <<daemon, wire, cli, outcome, drawn>>
    BY <1>7 DEF Tick
  <2>2. ASSUME NEW v, tui' = [tui EXCEPT ![t] = v], TuiShape(v), Same(u, v), v.pending = u.pending,
               v.focus = u.focus, UNCHANGED <<inbox, ids>>
        PROVE  TuiStep(t, v, <<>>)
    <3>1. PendingOK(t, v, <<>>)
      BY <2>2 DEF PendingOK, Same
    <3> QED
      BY <1>1, <2>1, <2>2, <3>1, NothingSent DEF TuiStep
  <2>3. CASE ExpireScroll(t)
    <3> DEFINE v == [Cancelled(u) EXCEPT !.toasts = Show(@, Toast("scroll", FALSE, 0))]
    <3>1. TuiShape(v) /\ Same(u, v) /\ v.pending = u.pending /\ v.focus = u.focus
      BY <1>1, CancelledFacts DEF TuiShape, Same
    <3>2. tui' = [tui EXCEPT ![t] = v] /\ UNCHANGED <<inbox, ids>>
      BY <2>3 DEF ExpireScroll
    <3> QED
      BY <2>1, <2>2, <3>1, <3>2
  <2>4. CASE ExpireToasts(t)
    <3>1. PICK i : tui' = [tui EXCEPT ![t].toasts = RemoveAt(@, i)]
      BY <2>4 DEF ExpireToasts
    <3> DEFINE v == [u EXCEPT !.toasts = RemoveAt(@, i)]
    <3>2. TuiShape(v) /\ Same(u, v) /\ v.pending = u.pending /\ v.focus = u.focus
      BY <1>1 DEF TuiShape, Same
    <3>3. UNCHANGED <<inbox, ids>>
      BY <2>4 DEF ExpireToasts
    <3>4. tui' = [tui EXCEPT ![t] = v]
      BY <3>1
    <3> QED
      BY <2>1, <2>2, <3>2, <3>3, <3>4
  <2>5. CASE ExpirePaneFocus(t)
    <3> DEFINE u1 == [u EXCEPT !.pending = None, !.focus = u.base]
               v == FocusSourcesWhenLogsHidden(u1, NextId)
               w == IF Linked(t) THEN v ELSE u1
               sent == IF Linked(t) THEN Requests(u1, v) ELSE <<>>
    <3>1. TuiShape(u1) /\ Same(u, u1) /\ u1.pending = None /\ u1.focus = u1.base
      BY <1>1 DEF TuiShape, Same
    <3>2. /\ tui' = [tui EXCEPT ![t] = w] /\ ids' = ids + Len(Requests(u1, v))
          /\ inbox' = IF Linked(t) THEN inbox \o Requests(u1, v) ELSE inbox
      BY <2>5 DEF ExpirePaneFocus
    <3> HIDE DEF u1
    <3>3. /\ TuiShape(v) /\ Same(u1, v) /\ v.scroll = u1.scroll
          /\ v = u1 \/ v.pending = [id |-> NextId, of |-> "sources"]
      BY <1>1, <3>1, FocusSourcesFacts
    <3> HIDE DEF v
    <3>4. /\ Requests(u1, v) \in Seq(TuiCommand)
          /\ \A i \in 1..Len(Requests(u1, v)) :
               Requests(u1, v)[i].id = NextId /\ Requests(u1, v)[i].cmd # "clear"
      BY <1>1, <3>1, <3>3, RequestsFacts
    <3>5. PendingOK(t, v, Requests(u1, v))
      <4>1. CASE v = u1
        BY <3>1, <4>1 DEF PendingOK
      <4>2. CASE v.pending = [id |-> NextId, of |-> "sources"]
        <5>1. v.pending # None
          BY <1>1, <4>2 DEF None, NoId
        <5> QED
          BY <1>1, <3>1, <3>3, <5>1, RequestsFacts DEF PendingOK
      <4> QED
        BY <3>3, <4>1, <4>2
    <3>6. TuiShape(w) /\ Same(u, w)
      BY <3>1, <3>3 DEF Same
    <3>7. sent \in Seq(TuiCommand) /\ inbox' = inbox \o sent
      BY <3>2, <3>4, NothingSent
    <3>8. ids' \in Nat /\ ids <= ids'
      BY <1>1, <3>2, <3>4
    <3>9. \A i \in 1..Len(sent) : ids < sent[i].id /\ sent[i].id <= ids' /\ sent[i].cmd # "clear"
      BY <1>1, <3>2, <3>4
    <3>10. Linked(t) => PendingOK(t, w, sent)
      BY <3>5
    <3> HIDE DEF w, sent
    <3>11. TuiStep(t, w, sent)
      BY <2>1, <3>2, <3>6, <3>7, <3>8, <3>9, <3>10 DEF TuiStep
    <3> QED
      BY <2>1, <3>6, <3>11
  <2> QED
    BY <1>7, <2>3, <2>4, <2>5 DEF Tick
<1> QED
  BY <1>2, <1>3, <1>4, <1>5, <1>6, <1>7

\* TUI t has taken over the first snapshot it had not read.
Applied(t, v, sent) ==
    LET s == Head(wire[t]) IN
    /\ v.at = "on" /\ v.overlay = s.overlay /\ v.base = s.focus /\ v.seen = s.rev
    /\ v.pending = None => v.focus = v.base
    /\ v.pending # None =>
         \/ \E i \in 1..Len(sent) : sent[i] = Command("focus", v.pending.id, v.pending.of)
         \/ tui[t].at = "on" /\ v.pending = tui[t].pending /\ v.pending.id # s.re
    /\ \/ v.since = s.rev
       \/ /\ tui[t].at = "on" /\ v.since = tui[t].since
          /\ v.shown = tui[t].shown \cup {e.rev : e \in Unseen(s.events, tui[t].seen, s.rev)}

\* A TUI that has applied a snapshot has its focus, or waits for it.
LEMMA AppliedIsOK ==
    ASSUME NEW t, NEW v, NEW sent, Applied(t, v, sent)
    PROVE  PendingOK(t, v, sent)
BY DEF Applied, PendingOK

\* The first snapshot of a connection is applied, and an error kept for it sent.
LEMMA FirstSnapshotFacts ==
    ASSUME TypeOK, NEW t \in Tuis, FirstSnapshot(t)
    PROVE  /\ wire[t] # <<>> /\ wire' = [wire EXCEPT ![t] = Tail(@)]
           /\ \E v, sent : TuiStep(t, v, sent) /\ (Linked(t) => Applied(t, v, sent))
<1>1. wire[t] # <<>> /\ wire' = [wire EXCEPT ![t] = Tail(@)] /\ UNCHANGED <<daemon, cli, outcome, drawn>>
  BY DEF FirstSnapshot
<1>2. Head(wire[t]) \in SnapshotType
  <2>1. wire[t] \in Seq(Message)
    BY DEF TypeOK, Clients
  <2>2. Head(wire[t]) \in Message
    BY <1>1, <2>1, TailFacts
  <2> QED
    BY <2>2 DEF FirstSnapshot, Message
<1>3. TuiShape(tui[t]) /\ ids \in Nat /\ NextId \in Nat \ {0} /\ NextId = ids + 1
  BY DEF TypeOK, NextId
<1> DEFINE s == Head(wire[t])
           u == Rejoined(tui[t], s)
           u1 == ReconcilePaneFocus(u, s)
           u2 == ApplySnapshot(u1, s)
           v == FocusSourcesWhenLogsHidden(u2, NextId)
           lost == [u EXCEPT !.unreported = tui[t].unreported]
           report == IF tui[t].unreported THEN <<Command("error", NoId, "none")>> ELSE <<>>
           w == IF Linked(t) THEN v ELSE lost
           sent == IF Linked(t) THEN Requests(u, v) \o report ELSE <<>>
<1>4. /\ tui' = [tui EXCEPT ![t] = w] /\ ids' = ids + Len(Requests(u, v))
      /\ inbox' = IF Linked(t) THEN inbox \o (Requests(u, v) \o report) ELSE inbox
  BY DEF FirstSnapshot
<1>5. /\ TuiShape(u) /\ u.at = "on" /\ u.pending = None /\ u.scroll = None
      /\ u.seen = s.rev /\ u.since = s.rev
  BY <1>2, <1>3, RejoinedFacts
<1>6. TuiShape(lost)
  BY <1>5 DEF TuiShape
<1> HIDE DEF u, lost
<1>7. /\ TuiShape(u1) /\ Same(u, u1) /\ u1.scroll = u.scroll
      /\ u1.pending = None /\ u1.focus = s.focus
  BY <1>2, <1>5, ReconcileFacts
<1> HIDE DEF u1
<1>8. /\ TuiShape(u2) /\ u2.overlay = s.overlay /\ u2.base = s.focus /\ u2.at = u1.at
      /\ u2.seen = u1.seen /\ u2.since = u1.since /\ u2.pending = None /\ u2.focus = s.focus
      /\ u2.scroll = None
  BY <1>2, <1>5, <1>7, ApplySnapshotFacts
<1> HIDE DEF u2
<1>9. /\ TuiShape(v) /\ Same(u2, v) /\ v.scroll = None
      /\ v = u2 \/ v.pending = [id |-> NextId, of |-> "sources"]
  BY <1>3, <1>8, FocusSourcesFacts
<1> HIDE DEF v
<1>10. v.at = "on" /\ v.overlay = s.overlay /\ v.base = s.focus /\ v.seen = s.rev /\ v.since = s.rev
  BY <1>5, <1>7, <1>8, <1>9 DEF Same
<1>11. /\ Requests(u, v) \in Seq(TuiCommand)
       /\ \A i \in 1..Len(Requests(u, v)) :
            Requests(u, v)[i].id = NextId /\ Requests(u, v)[i].cmd # "clear"
       /\ v.pending # None =>
            \E i \in 1..Len(Requests(u, v)) :
                Requests(u, v)[i] = Command("focus", v.pending.id, v.pending.of)
  BY <1>3, <1>5, <1>8, <1>9, RequestsFacts
<1>12. report \in Seq(TuiCommand) /\ \A i \in 1..Len(report) : report[i] = Command("error", NoId, "none")
  <2>1. Command("error", NoId, "none") \in TuiCommand
    BY DEF Command, TuiCommand, NoId, Overlays
  <2> QED
    BY <2>1
<1> HIDE DEF report
<1>13. /\ sent \in Seq(TuiCommand) /\ inbox' = inbox \o sent
       /\ \A i \in 1..Len(sent) : sent[i].id \in {0, NextId} /\ sent[i].cmd # "clear"
       /\ \A i \in 1..Len(sent) : sent[i].id = NextId => Len(Requests(u, v)) > 0
  <2>1. CASE Linked(t)
    <3>1. sent = Requests(u, v) \o report
      BY <2>1
    <3>2. \A i \in 1..Len(report) : report[i].id = 0 /\ report[i].cmd # "clear"
      BY <1>12 DEF Command, NoId
    <3> HIDE DEF sent
    <3>3. sent \in Seq(TuiCommand)
      BY <1>11, <1>12, <3>1, Concat
    <3>4. \A i \in 1..Len(sent) :
            \/ \E j \in 1..Len(Requests(u, v)) : sent[i] = Requests(u, v)[j]
            \/ \E j \in 1..Len(report) : sent[i] = report[j]
      BY <1>11, <1>12, <3>1, Concat
    <3>5. \A j \in 1..Len(Requests(u, v)) : Len(Requests(u, v)) > 0
      BY <1>11
    <3>6. \A i \in 1..Len(sent) : sent[i].id \in {0, NextId} /\ sent[i].cmd # "clear"
      BY <1>11, <3>2, <3>4
    <3>7. \A i \in 1..Len(sent) : sent[i].id = NextId => Len(Requests(u, v)) > 0
      BY <1>3, <3>2, <3>4, <3>5
    <3>8. inbox' = inbox \o sent
      BY <1>4, <2>1, <3>1
    <3> QED
      BY <3>3, <3>6, <3>7, <3>8
  <2>2. CASE ~Linked(t)
    <3>1. sent = <<>> /\ inbox' = inbox
      BY <1>4, <2>2
    <3> HIDE DEF sent
    <3> QED
      BY <3>1, NothingSent
  <2> QED
    BY <2>1, <2>2
<1>14. Linked(t) => Applied(t, w, sent)
  <2> SUFFICES ASSUME Linked(t) PROVE Applied(t, w, sent)
    OBVIOUS
  <2>1. w = v /\ sent = Requests(u, v) \o report
    OBVIOUS
  <2> HIDE DEF w, sent
  <2>2. v.pending # None =>
          \E i \in 1..Len(sent) : sent[i] = Command("focus", v.pending.id, v.pending.of)
    BY <1>11, <1>12, <2>1, Concat
  <2>3. v.pending = None => v.focus = v.base
    <3>1. [id |-> NextId, of |-> "sources"] # None
      BY <1>3 DEF None, NoId
    <3> QED
      BY <1>8, <1>9, <3>1
  <2> QED
    BY <1>10, <2>1, <2>2, <2>3 DEF Applied
<1>15. TuiShape(w)
  BY <1>6, <1>9
<1> HIDE DEF w, sent
<1>16. TuiStep(t, w, sent)
  <2>1. Len(Requests(u, v)) \in Nat
    BY <1>11
  <2>2. ids' \in Nat /\ ids <= ids' /\ (Len(Requests(u, v)) > 0 => NextId <= ids')
    BY <1>3, <1>4, <2>1
  <2>3. \A i \in 1..Len(sent) : sent[i].id = 0 \/ (ids < sent[i].id /\ sent[i].id <= ids')
    BY <1>3, <1>13, <2>1, <2>2
  <2> QED
    BY <1>1, <1>4, <1>13, <1>14, <1>15, <2>2, <2>3, AppliedIsOK DEF TuiStep
<1> QED
  BY <1>1, <1>14, <1>16

\* What a TUI asks the daemon to clear is an event it draws in the same step.
LEMMA ClearIsShown ==
    ASSUME NEW s \in SnapshotType, NEW seen, NEW rev \in ErrorsToClear(Unseen(s.events, seen, s.rev))
    PROVE  rev \in Nat /\ rev \in {e.rev : e \in Unseen(s.events, seen, s.rev)}
<1>1. Unseen(s.events, seen, s.rev) \subseteq Event
  BY DEF Unseen, SnapshotType
<1>2. PICK e \in Unseen(s.events, seen, s.rev) : rev = e.rev
  BY DEF ErrorsToClear
<1> QED
  BY <1>1, <1>2 DEF Event

\* A later snapshot is applied, drawn, and the error in it sent for clearing.
LEMMA ApplyStateUpdateFacts ==
    ASSUME TypeOK, NEW t \in Tuis, ApplyStateUpdate(t)
    PROVE  /\ wire[t] # <<>> /\ wire' = [wire EXCEPT ![t] = Tail(@)]
           /\ \E v, sent : TuiStep(t, v, sent) /\ (Linked(t) => Applied(t, v, sent))
<1>1. /\ wire[t] # <<>> /\ wire' = [wire EXCEPT ![t] = Tail(@)] /\ UNCHANGED <<daemon, cli, outcome>>
      /\ tui[t].at = "on"
  BY DEF ApplyStateUpdate
<1>2. Head(wire[t]) \in SnapshotType
  <2>1. wire[t] \in Seq(Message)
    BY DEF TypeOK, Clients
  <2>2. Head(wire[t]) \in Message
    BY <1>1, <2>1, TailFacts
  <2> QED
    BY <2>2 DEF ApplyStateUpdate, Message
<1>3. TuiShape(tui[t]) /\ ids \in Nat /\ NextId \in Nat \ {0} /\ NextId + 1 \in Nat \ {0}
                       /\ NextId = ids + 1 /\ DOMAIN tui = Tuis
  BY DEF TypeOK, NextId
<1> DEFINE s == Head(wire[t])
           u1 == ReconcilePaneFocus(tui[t], s)
           u2 == ObserveStatus(u1, s)
           u3 == ApplySnapshot(u2, s)
           u == Acknowledge(u3, s)
           v1 == SendNext(u, NextId)
           v == FocusSourcesWhenLogsHidden(v1, NextId + 1)
           unseen == Unseen(s.events, tui[t].seen, s.rev)
           errors == ErrorsToClear(unseen)
           clear == IF errors = {} THEN <<>>
                    ELSE <<Command("clear", NoId, CHOOSE rev \in errors : TRUE)>>
           requests == Requests(u, v)
           w == IF Linked(t) \/ requests = <<>> THEN Drawn(tui[t], s, v) ELSE u
           sent == IF Linked(t) THEN requests \o clear ELSE <<>>
<1>4. /\ tui' = [tui EXCEPT ![t] = w]
      /\ inbox' = IF Linked(t) THEN inbox \o (requests \o clear) ELSE inbox
      /\ drawn' = IF Linked(t) THEN drawn \cup tui'[t].shown ELSE drawn
      /\ ids' = ids + IF requests = <<>> THEN 0 ELSE 2
  BY DEF ApplyStateUpdate
<1> HIDE DEF w
<1>5. tui'[t] = w
  BY <1>3, <1>4
<1> USE DEF w
<1>6. /\ TuiShape(u1) /\ Same(tui[t], u1)
      /\ u1.pending = None => u1.focus = s.focus
      /\ u1.pending # None => u1.pending = tui[t].pending /\ u1.pending.id # s.re
  BY <1>2, <1>3, ReconcileFacts
<1> HIDE DEF u1
<1>7. /\ TuiShape(u2) /\ u2.seen = s.rev /\ u2.at = u1.at /\ u2.since = u1.since
      /\ u2.shown = u1.shown /\ u2.pending = u1.pending /\ u2.focus = u1.focus
  BY <1>2, <1>6, ObserveFacts
<1> HIDE DEF u2
<1>8. /\ TuiShape(u3) /\ u3.overlay = s.overlay /\ u3.base = s.focus /\ u3.at = u2.at
      /\ u3.seen = u2.seen /\ u3.since = u2.since /\ u3.shown = u2.shown
      /\ u3.pending = u2.pending /\ u3.focus = u2.focus
  BY <1>2, <1>7, ApplySnapshotFacts
<1> HIDE DEF u3
<1>9. TuiShape(u) /\ Same(u3, u) /\ u.pending = u3.pending /\ u.focus = u3.focus
  BY <1>2, <1>8, AcknowledgeFacts
<1> HIDE DEF u
<1>10. /\ TuiShape(v1) /\ Same(u, v1) /\ v1.pending = u.pending /\ v1.focus = u.focus
       /\ v1.scroll = u.scroll \/ v1.scroll.id = NextId
  BY <1>3, <1>9, SendNextFacts
<1> HIDE DEF v1
<1>11. /\ TuiShape(v) /\ Same(v1, v) /\ v.scroll = v1.scroll
       /\ v = v1 \/ v.pending = [id |-> NextId + 1, of |-> "sources"]
  BY <1>3, <1>10, FocusSourcesFacts
<1> HIDE DEF v
<1>12. /\ v.at = "on" /\ v.overlay = s.overlay /\ v.base = s.focus /\ v.seen = s.rev
       /\ v.since = tui[t].since /\ v.shown = tui[t].shown
  BY <1>1, <1>6, <1>7, <1>8, <1>9, <1>10, <1>11 DEF Same
<1>13. /\ u.pending = None => u.focus = s.focus
       /\ u.pending # None => u.pending = tui[t].pending /\ u.pending.id # s.re
  BY <1>6, <1>7, <1>8, <1>9
<1>14. /\ requests \in Seq(TuiCommand)
       /\ \A i \in 1..Len(requests) :
            requests[i].id \in {NextId, NextId + 1} /\ requests[i].cmd # "clear"
       /\ v.pending \notin {None, u.pending} =>
            \E i \in 1..Len(requests) :
                requests[i] = Command("focus", v.pending.id, v.pending.of)
  BY <1>3, <1>9, <1>10, <1>11, RequestsFacts
<1>15. /\ clear \in Seq(TuiCommand)
       /\ \A i \in 1..Len(clear) :
            clear[i].cmd = "clear" /\ clear[i].id = 0 /\ clear[i].of \in {e.rev : e \in unseen}
  <2>1. CASE errors = {}
    <3>1. clear = <<>>
      BY <2>1
    <3> HIDE DEF clear
    <3> QED
      BY <3>1, NothingSent
  <2>2. CASE errors # {}
    <3> DEFINE rev == CHOOSE r \in errors : TRUE
    <3>1. rev \in errors
      BY <2>2
    <3>2. rev \in Nat /\ rev \in {e.rev : e \in unseen}
      BY <1>2, <3>1, ClearIsShown
    <3>3. clear = <<Command("clear", NoId, rev)>>
      BY <2>2
    <3> HIDE DEF rev, clear
    <3>4. Command("clear", NoId, rev) \in TuiCommand
      BY <3>2 DEF Command, TuiCommand, NoId
    <3>5. clear \in Seq(TuiCommand) /\ Len(clear) = 1 /\ clear[1] = Command("clear", NoId, rev)
      BY <3>3, <3>4
    <3> QED
      BY <3>2, <3>5 DEF Command, NoId
  <2> QED
    BY <2>1, <2>2
<1> HIDE DEF requests, clear, unseen
<1>16. TuiShape(Drawn(tui[t], s, v)) /\ Same(u, u)
       /\ LET d == Drawn(tui[t], s, v) IN
          /\ d.at = v.at /\ d.overlay = v.overlay /\ d.base = v.base /\ d.seen = v.seen
          /\ d.since = v.since /\ d.pending = v.pending /\ d.focus = v.focus
          /\ d.shown = v.shown \cup {e.rev : e \in unseen}
  BY <1>11 DEF Drawn, TuiShape, Same, unseen
<1>17. TuiShape(w)
  BY <1>9, <1>16
<1>18. /\ sent \in Seq(TuiCommand) /\ inbox' = inbox \o sent
       /\ \A i \in 1..Len(sent) :
            \/ Linked(t) /\ \E j \in 1..Len(requests) : sent[i] = requests[j]
            \/ Linked(t) /\ \E j \in 1..Len(clear) : sent[i] = clear[j]
  <2>1. CASE Linked(t)
    <3>1. sent = requests \o clear
      BY <2>1
    <3> HIDE DEF sent
    <3>2. sent \in Seq(TuiCommand)
      BY <1>14, <1>15, <3>1, Concat
    <3>3. \A i \in 1..Len(sent) :
            \/ \E j \in 1..Len(requests) : sent[i] = requests[j]
            \/ \E j \in 1..Len(clear) : sent[i] = clear[j]
      BY <1>14, <1>15, <3>1, Concat
    <3>4. inbox' = inbox \o sent
      BY <1>4, <2>1, <3>1
    <3> QED
      BY <2>1, <3>2, <3>3, <3>4
  <2>2. CASE ~Linked(t)
    <3>1. sent = <<>> /\ inbox' = inbox
      BY <1>4, <2>2
    <3> HIDE DEF sent
    <3> QED
      BY <3>1, NothingSent
  <2> QED
    BY <2>1, <2>2
<1>19. Linked(t) => Applied(t, w, sent)
  <2> SUFFICES ASSUME Linked(t) PROVE Applied(t, w, sent)
    OBVIOUS
  <2>1. w = Drawn(tui[t], s, v) /\ sent = requests \o clear
    OBVIOUS
  <2> HIDE DEF w, sent
  <2>2. v.pending # None =>
          \/ \E i \in 1..Len(sent) : sent[i] = Command("focus", v.pending.id, v.pending.of)
          \/ v.pending = tui[t].pending /\ v.pending.id # s.re
    <3>1. CASE v.pending \in {None, u.pending}
      BY <1>13, <3>1
    <3>2. CASE v.pending \notin {None, u.pending}
      BY <1>14, <1>15, <2>1, <3>2, Concat
    <3> QED
      BY <3>1, <3>2
  <2>3. v.pending = None => v.focus = v.base
    <3>1. [id |-> NextId + 1, of |-> "sources"] # None
      BY <1>3 DEF None, NoId
    <3> QED
      BY <1>10, <1>11, <1>12, <1>13, <3>1
  <2>4. w.pending = v.pending /\ w.focus = v.focus /\ w.base = v.base
    BY <1>16, <2>1
  <2>5. /\ w.at = "on" /\ w.overlay = s.overlay /\ w.base = s.focus /\ w.seen = s.rev
        /\ w.since = tui[t].since
    BY <1>12, <1>16, <2>1
  <2>6. w.shown = tui[t].shown \cup {e.rev : e \in Unseen(s.events, tui[t].seen, s.rev)}
    BY <1>12, <1>16, <2>1 DEF unseen
  <2> QED
    BY <1>1, <2>2, <2>3, <2>4, <2>5, <2>6 DEF Applied
<1>20. drawn \subseteq drawn' /\ (Linked(t) => {e.rev : e \in unseen} \subseteq drawn')
  <2>1. Linked(t) => w.shown = v.shown \cup {e.rev : e \in unseen}
    BY <1>16
  <2> HIDE DEF w
  <2> QED
    BY <1>4, <1>5, <2>1
<1> HIDE DEF w, sent
<1>21. TuiStep(t, w, sent)
  <2>1. requests = <<>> => Len(requests) = 0
    OBVIOUS
  <2>2. ids' \in Nat /\ ids <= ids' /\ \A i \in 1..Len(requests) : NextId + 1 <= ids'
    BY <1>3, <1>4, <2>1
  <2>3. \A i \in 1..Len(sent) : sent[i].id = 0 \/ (ids < sent[i].id /\ sent[i].id <= ids')
    <3>1. \A j \in 1..Len(requests) : ids < requests[j].id /\ requests[j].id <= ids'
      BY <1>3, <1>14, <2>2
    <3>2. \A j \in 1..Len(clear) : clear[j].id = 0
      BY <1>15
    <3> QED
      BY <1>18, <3>1, <3>2
  <2>4. \A i \in 1..Len(sent) : sent[i].cmd = "clear" => sent[i].of \in drawn'
    BY <1>14, <1>15, <1>18, <1>20
  <2> QED
    BY <1>1, <1>4, <1>17, <1>18, <1>19, <1>20, <2>2, <2>3, <2>4, AppliedIsOK DEF TuiStep
<1> QED
  BY <1>1, <1>19, <1>21

\* What follows on a snapshot that a TUI has applied holds nothing older that
\* it has not drawn.
LEMMA ShownLater ==
    ASSUME NEW u, NEW v, NEW s \in SnapshotType, NEW r, r.events \subseteq Event,
           u.seen \in Nat, v.since \in Nat, v.seen = s.rev, Follows(s, r),
           \/ v.since = s.rev
           \/ /\ v.since = u.since /\ Shown(u, s)
              /\ v.shown = u.shown \cup {e.rev : e \in Unseen(s.events, u.seen, s.rev)}
    PROVE  Shown(v, r)
<1> SUFFICES ASSUME NEW e \in r.events, e.rev <= v.seen, e.rev > v.since PROVE e.rev \in v.shown
  BY DEF Shown
<1>1. e.rev \in Nat /\ s.rev \in Nat
  BY DEF Event, SnapshotType
<1>2. v.since # s.rev
  BY <1>1
<1>3. e \in s.events
  BY DEF Follows
<1>4. CASE e.rev <= u.seen
  BY <1>2, <1>3, <1>4 DEF Shown
<1>5. CASE e.rev > u.seen
  <2>1. s.rev # u.seen
    BY <1>1, <1>5
  <2> QED
    BY <1>2, <1>3, <1>5, <2>1 DEF Unseen
<1> QED
  BY <1>1, <1>4, <1>5

\* A TUI that acts on its own, or applies the next snapshot, keeps the invariant.
LEMMA TuiStepKeeps ==
    ASSUME ConstantsOK, Inv, NEW t \in Tuis, NEW v, NEW sent, TuiStep(t, v, sent),
           \/ UNCHANGED wire /\ Same(tui[t], v)
           \/ /\ wire[t] # <<>> /\ wire' = [wire EXCEPT ![t] = Tail(@)]
              /\ Linked(t) => Applied(t, v, sent)
    PROVE  Inv'
<1>1. /\ t # Cli /\ Cli \in Clients /\ t \in Clients
      /\ \A c \in Tuis : c \in Clients /\ wire[c] \in Seq(Message)
  BY DEF ConstantsOK, Clients, Inv, TypeOK
<1>2. wire' \in [Clients -> Seq(Message)] /\ \A c \in Clients : c # t => wire'[c] = wire[c]
  <2>1. CASE UNCHANGED wire
    BY <2>1 DEF Inv, TypeOK
  <2>2. CASE wire[t] # <<>> /\ wire' = [wire EXCEPT ![t] = Tail(@)]
    <3>1. Tail(wire[t]) \in Seq(Message)
      BY <1>1, <2>2, TailFacts
    <3> QED
      BY <2>2, <3>1 DEF Inv, TypeOK
  <2> QED
    BY <2>1, <2>2
<1>3. /\ UNCHANGED <<daemon, cli, outcome>> /\ ids' \in Nat /\ ids <= ids' /\ ids \in Nat
      /\ cli.id \in Nat /\ sent \in Seq(TuiCommand)
  BY DEF TuiStep, Inv, TypeOK
<1>4. /\ DOMAIN tui' = Tuis /\ tui'[t] = v /\ TuiShape(v)
      /\ \A c \in Tuis : TuiShape(tui'[c]) /\ (c # t => tui'[c] = tui[c])
  BY DEF TuiStep, Inv, TypeOK
<1>5. sent \in Seq(Request) /\ inbox \in Seq(Request)
  <2>1. \A i \in 1..Len(sent) : sent[i] \in Request
    BY <1>3 DEF Request
  <2> QED
    BY <1>3, <2>1 DEF Inv, TypeOK
<1>6. /\ inbox' \in Seq(Request) /\ Len(inbox') \in Nat
      /\ \A i \in 1..Len(inbox) : i \in 1..Len(inbox') /\ inbox'[i] = inbox[i]
      /\ \A i \in 1..Len(sent) : \E j \in 1..Len(inbox') : inbox'[j] = sent[i]
      /\ \A i \in 1..Len(inbox') :
           \/ i \in 1..Len(inbox) /\ inbox'[i] = inbox[i]
           \/ \E j \in 1..Len(sent) : inbox'[i] = sent[j]
  <2>1. inbox' = inbox \o sent
    BY DEF TuiStep
  <2>2. /\ inbox \o sent \in Seq(Request) /\ Len(inbox \o sent) \in Nat /\ Len(inbox) \in Nat
        /\ \A i \in 1..Len(inbox) :
             i \in 1..Len(inbox \o sent) /\ (inbox \o sent)[i] = inbox[i]
        /\ \A i \in 1..Len(sent) :
             i + Len(inbox) \in 1..Len(inbox \o sent) /\ (inbox \o sent)[i + Len(inbox)] = sent[i]
        /\ \A i \in 1..Len(inbox \o sent) :
             \/ i \in 1..Len(inbox) /\ (inbox \o sent)[i] = inbox[i]
             \/ i - Len(inbox) \in 1..Len(sent) /\ (inbox \o sent)[i] = sent[i - Len(inbox)]
    <3> HIDE DEF Request
    <3>1. Len(inbox \o sent) \in Nat
      BY <1>5
    <3> QED
      BY <1>5, <3>1, Concat
  <2> QED
    BY <2>1, <2>2
<1>7. TypeOK'
  BY <1>2, <1>3, <1>4, <1>6 DEF Inv, TypeOK
<1>8. ClearInv'
  BY <1>6 DEF ClearInv, Inv, TuiStep
<1>9. CliInv'
  <2>1. \A j \in 1..Len(sent) :
          /\ ~OfCommand(sent[j]) /\ sent[j].id <= ids' /\ (sent[j].id = 0 \/ sent[j].id > ids)
    <3> SUFFICES ASSUME NEW j \in 1..Len(sent)
                 PROVE  ~OfCommand(sent[j]) /\ sent[j].id <= ids' /\ (sent[j].id = 0 \/ sent[j].id > ids)
      OBVIOUS
    <3>1. sent[j] \in TuiCommand
      BY <1>3
    <3>2. ~OfCommand(sent[j])
      BY <3>1 DEF TuiCommand, OfCommand
    <3>3. sent[j].id = 0 \/ (ids < sent[j].id /\ sent[j].id <= ids')
      BY DEF TuiStep
    <3> QED
      BY <1>3, <3>2, <3>3
  <2>2. wire'[Cli] = wire[Cli]
    BY <1>1, <1>2
  <2>3. cli.id <= ids
    BY DEF Inv, CliInv
  <2>4. \A i \in 1..Len(inbox') :
          /\ inbox'[i].id <= ids'
          /\ OfCommand(inbox'[i]) => inbox'[i].id = cli.id /\ cli.id > 0 /\ outcome = "none"
          /\ inbox'[i].id = cli.id /\ cli.id > 0 => OfCommand(inbox'[i])
          /\ OfCommand(inbox'[i]) => i \in 1..Len(inbox) /\ inbox'[i] = inbox[i]
    <3> SUFFICES ASSUME NEW i \in 1..Len(inbox')
                 PROVE  /\ inbox'[i].id <= ids'
                        /\ OfCommand(inbox'[i]) => inbox'[i].id = cli.id /\ cli.id > 0 /\ outcome = "none"
                        /\ inbox'[i].id = cli.id /\ cli.id > 0 => OfCommand(inbox'[i])
                        /\ OfCommand(inbox'[i]) => i \in 1..Len(inbox) /\ inbox'[i] = inbox[i]
      OBVIOUS
    <3>1. CASE i \in 1..Len(inbox) /\ inbox'[i] = inbox[i]
      <4>1. inbox[i].id <= ids /\ inbox[i].id \in Nat
        BY <1>5, <3>1 DEF Inv, CliInv, Request, TuiCommand, OtherCommand
      <4> QED
        BY <1>3, <3>1, <4>1 DEF Inv, CliInv
    <3>2. CASE \E j \in 1..Len(sent) : inbox'[i] = sent[j]
      BY <1>3, <2>1, <2>3, <3>2
    <3> QED
      BY <1>6, <3>1, <3>2
  <2>5. \A i, j \in 1..Len(inbox') : OfCommand(inbox'[i]) /\ OfCommand(inbox'[j]) => i = j
    BY <2>4 DEF Inv, CliInv
  <2>6. \A i \in 1..Len(wire[Cli]) : wire[Cli][i] # Gone => wire[Cli][i].re <= ids'
    <3> SUFFICES ASSUME NEW i \in 1..Len(wire[Cli]), wire[Cli][i] # Gone PROVE wire[Cli][i].re <= ids'
      OBVIOUS
    <3>1. wire[Cli] \in Seq(Message)
      BY <1>1 DEF Inv, TypeOK
    <3>2. wire[Cli][i] \in SnapshotType
      BY <3>1 DEF Message
    <3>3. wire[Cli][i].re \in Nat /\ wire[Cli][i].re <= ids
      BY <3>2 DEF SnapshotType, Inv, CliInv
    <3> QED
      BY <1>3, <3>3
  <2>7. cli.id <= ids'
    BY <1>3, <2>3
  <2> QED
    BY <1>3, <2>2, <2>4, <2>5, <2>6, <2>7 DEF Inv, CliInv, CommandReportsItsOutcome
<1>10. \A c \in Tuis : WireInv(c)'
  <2> SUFFICES ASSUME NEW c \in Tuis, Linked(c) PROVE WireInv(c)'
    BY <1>3 DEF WireInv, Linked
  <2>1. CASE wire'[c] = wire[c]
    BY <1>3, <2>1 DEF Inv, WireInv, Linked, Follows, Latest
  <2>2. CASE c = t /\ wire[t] # <<>> /\ wire' = [wire EXCEPT ![t] = Tail(@)]
    <3>1. wire'[t] = Tail(wire[t])
      BY <1>1, <2>2 DEF Inv, TypeOK
    <3>2. /\ Len(wire'[t]) = Len(wire[t]) - 1 /\ Len(wire[t]) \in Nat
          /\ \A i \in 1..Len(wire'[t]) : i + 1 \in 1..Len(wire[t]) /\ wire'[t][i] = wire[t][i + 1]
      <4>1. wire[t] \in Seq(Message) /\ wire[t] # <<>>
        BY <1>1, <2>2
      <4>2. /\ Len(Tail(wire[t])) = Len(wire[t]) - 1 /\ Len(wire[t]) \in Nat
            /\ \A i \in 1..Len(Tail(wire[t])) :
                 i + 1 \in 1..Len(wire[t]) /\ Tail(wire[t])[i] = wire[t][i + 1]
        BY <4>1, TailFacts
      <4> QED
        BY <3>1, <4>2
    <3>3. \A i \in 1..Len(wire'[t]) : wire'[t][i] \in SnapshotType /\ Follows(wire'[t][i], daemon)
      BY <2>2, <3>2 DEF Inv, WireInv
    <3>4. \A i, j \in 1..Len(wire'[t]) : i <= j => Follows(wire'[t][i], wire'[t][j])
      <4> SUFFICES ASSUME NEW i \in 1..Len(wire'[t]), NEW j \in 1..Len(wire'[t]), i <= j
                   PROVE  Follows(wire'[t][i], wire'[t][j])
        OBVIOUS
      <4>1. i + 1 <= j + 1
        BY <3>2
      <4> QED
        BY <2>2, <3>2, <4>1 DEF Inv, WireInv
    <3>5. wire'[t] # <<>> => Latest(wire'[t][Len(wire'[t])])
      <4> SUFFICES ASSUME wire'[t] # <<>> PROVE Latest(wire'[t][Len(wire'[t])])
        OBVIOUS
      <4>1. wire'[t] \in Seq(Message)
        BY <1>1, <1>2
      <4>2. Len(wire'[t]) \in 1..Len(wire'[t])
        BY <4>1
      <4>3. wire'[t][Len(wire'[t])] = wire[t][Len(wire[t])]
        BY <3>2, <4>2
      <4> QED
        BY <2>2, <4>3 DEF Inv, WireInv
    <3> QED
      BY <1>3, <2>2, <3>3, <3>4, <3>5 DEF WireInv, Follows, Latest
  <2> QED
    BY <1>1, <1>2, <2>1, <2>2
<1>11. \A c \in Tuis : c # t => AgreeInv(c)'
  <2> SUFFICES ASSUME NEW c \in Tuis, c # t, Linked(c), tui[c].at = "on" PROVE AgreeInv(c)'
    BY <1>3, <1>4 DEF AgreeInv, Linked
  <2>1. wire'[c] = wire[c] /\ tui'[c] = tui[c]
    BY <1>1, <1>2, <1>4
  <2>2. AgreeInv(c) /\ (Awaited(c) => Awaited(c)')
    BY <1>6, <2>1 DEF Inv, Awaited
  <2> QED
    BY <1>3, <2>1, <2>2 DEF AgreeInv, Shown
<1>12. AgreeInv(t)'
  <2> SUFFICES ASSUME Linked(t), v.at = "on" PROVE AgreeInv(t)'
    BY <1>3, <1>4 DEF AgreeInv, Linked
  <2>1. CASE UNCHANGED wire /\ Same(tui[t], v)
    <3>1. tui[t].at = "on" /\ AgreeInv(t) /\ PendingOK(t, v, sent)
      BY <2>1 DEF Same, Inv, TuiStep
    <3>2. v.pending # None => Awaited(t)'
      <4>1. CASE v.pending = tui[t].pending
        BY <1>4, <1>6, <2>1, <3>1, <4>1 DEF AgreeInv, Awaited
      <4>2. CASE \E i \in 1..Len(sent) : sent[i] = Command("focus", v.pending.id, v.pending.of)
        BY <1>4, <1>6, <4>2 DEF Awaited
      <4> QED
        BY <3>1, <4>1, <4>2 DEF PendingOK
    <3>3. v.pending = None => v.focus = v.base
      BY <3>1 DEF PendingOK, AgreeInv
    <3> QED
      BY <1>3, <1>4, <2>1, <3>1, <3>2, <3>3 DEF AgreeInv, Same, Shown
  <2>2. CASE /\ wire[t] # <<>> /\ wire' = [wire EXCEPT ![t] = Tail(@)]
             /\ Applied(t, v, sent)
    <3> DEFINE s == Head(wire[t])
    <3>1. wire'[t] = Tail(wire[t])
      BY <1>1, <2>2 DEF Inv, TypeOK
    <3>2. /\ Len(wire'[t]) = Len(wire[t]) - 1 /\ Len(wire[t]) \in Nat /\ 1 \in 1..Len(wire[t])
          /\ s = wire[t][1]
          /\ \A i \in 1..Len(wire'[t]) : i + 1 \in 1..Len(wire[t]) /\ wire'[t][i] = wire[t][i + 1]
          /\ \A i \in 1..Len(wire[t]) :
               i = 1 \/ (i - 1 \in 1..Len(wire'[t]) /\ wire'[t][i - 1] = wire[t][i])
      <4>1. wire[t] \in Seq(Message) /\ wire[t] # <<>>
        BY <1>1, <2>2
      <4>2. /\ Len(Tail(wire[t])) = Len(wire[t]) - 1 /\ Len(wire[t]) \in Nat /\ 1 \in 1..Len(wire[t])
            /\ Head(wire[t]) = wire[t][1]
            /\ \A i \in 1..Len(Tail(wire[t])) :
                 i + 1 \in 1..Len(wire[t]) /\ Tail(wire[t])[i] = wire[t][i + 1]
            /\ \A i \in 1..Len(wire[t]) :
                 i = 1 \/ (i - 1 \in 1..Len(Tail(wire[t])) /\ Tail(wire[t])[i - 1] = wire[t][i])
        BY <4>1, TailFacts
      <4> QED
        BY <3>1, <4>2
    <3> HIDE DEF s
    <3>3. s \in SnapshotType /\ Follows(s, daemon) /\ s.rev \in Nat
      BY <3>2 DEF Inv, WireInv, SnapshotType
    <3>4. /\ v.overlay = s.overlay /\ v.base = s.focus /\ v.seen = s.rev
          /\ v.pending = None => v.focus = v.base
          /\ v.pending # None =>
               \/ \E i \in 1..Len(sent) : sent[i] = Command("focus", v.pending.id, v.pending.of)
               \/ tui[t].at = "on" /\ v.pending = tui[t].pending /\ v.pending.id # s.re
          /\ \/ v.since = s.rev
             \/ /\ tui[t].at = "on" /\ v.since = tui[t].since
                /\ v.shown = tui[t].shown \cup {e.rev : e \in Unseen(s.events, tui[t].seen, s.rev)}
      BY <2>2 DEF Applied, s
    <3>5. v.seen <= daemon.rev
      BY <3>3, <3>4 DEF Follows
    <3>6. wire'[t] = <<>> => Latest(s)
      <4> SUFFICES ASSUME wire'[t] = <<>> PROVE Latest(s)
        OBVIOUS
      <4>1. Len(wire[t]) = 1
        BY <3>2
      <4> QED
        BY <2>2, <3>2, <4>1 DEF Inv, WireInv
    <3>7. v.pending # None => Awaited(t)'
      <4>1. CASE \E i \in 1..Len(sent) : sent[i] = Command("focus", v.pending.id, v.pending.of)
        BY <1>4, <1>6, <4>1 DEF Awaited
      <4>2. CASE /\ v.pending # None /\ tui[t].at = "on"
                 /\ v.pending = tui[t].pending /\ v.pending.id # s.re
        <5>1. Awaited(t)
          BY <4>2 DEF Inv, AgreeInv
        <5>2. CASE \E i \in 1..Len(inbox) : inbox[i] = Command("focus", v.pending.id, v.pending.of)
          BY <1>4, <1>6, <5>2 DEF Awaited
        <5>3. CASE \E i \in 1..Len(wire[t]) : wire[t][i].re = v.pending.id
          BY <1>4, <3>2, <4>2, <5>3 DEF Awaited
        <5> QED
          BY <4>2, <5>1, <5>2, <5>3 DEF Awaited
      <4> QED
        BY <3>4, <4>1, <4>2
    <3>8. tui[t].seen \in Nat /\ v.since \in Nat /\ daemon.events \subseteq Event
      BY <1>4 DEF Inv, TypeOK, TuiShape, Daemon
    <3>9. tui[t].at = "on" => Shown(tui[t], s)
      BY <3>2 DEF Inv, AgreeInv
    <3>10. Shown(v, daemon)
      BY <3>3, <3>4, <3>8, <3>9, ShownLater
    <3>11. \A i \in 1..Len(wire'[t]) : Shown(v, wire'[t][i])
      <4> SUFFICES ASSUME NEW i \in 1..Len(wire'[t]) PROVE Shown(v, wire'[t][i])
        OBVIOUS
      <4>1. /\ i + 1 \in 1..Len(wire[t]) /\ 1 <= i + 1 /\ wire'[t][i] = wire[t][i + 1]
        BY <3>2
      <4>2. Follows(s, wire'[t][i]) /\ wire'[t][i].events \subseteq Event
        BY <3>2, <4>1 DEF Inv, WireInv, SnapshotType
      <4> QED
        BY <3>3, <3>4, <3>8, <3>9, <4>2, ShownLater
    <3> QED
      BY <1>3, <1>4, <3>4, <3>5, <3>6, <3>7, <3>10, <3>11 DEF AgreeInv, Shown, Latest
  <2> QED
    BY <2>1, <2>2
<1>13. (\A e \in daemon.events : e.rev <= daemon.rev)'
  BY <1>3 DEF Inv
<1> QED
  BY <1>7, <1>8, <1>9, <1>10, <1>11, <1>12, <1>13 DEF Inv

-----------------------------------------------------------------------------
(* Steps of the daemon.                                                    *)

\* d is the daemon with what it has handled: its events are old ones or new.
Grown(d) ==
    /\ d \in Daemon /\ d.up = daemon.up /\ d.clients = daemon.clients /\ d.sent = daemon.sent
    /\ daemon.rev <= d.rev
    /\ \A e \in d.events : e.rev <= d.rev /\ (e.rev <= daemon.rev => e \in daemon.events)

\* A status is the only new event, and never makes the status none.
LEMMA SetStatusFacts ==
    ASSUME Inv, NEW key \in Keys, NEW error \in BOOLEAN
    PROVE  LET d == SetStatus(daemon, key, error) IN
           /\ Grown(d) /\ d.focus = daemon.focus /\ d.overlay = daemon.overlay
           /\ d.status = IF error THEN "error" ELSE "info"
<1> DEFINE others == {e \in daemon.events : e.key # key}
           room == IF Cardinality(others) = EventCapacity
                   THEN {e \in others : \E f \in others : f.rev < e.rev} ELSE others
           new == Toast(key, error, daemon.rev + 1)
           status == IF error THEN "error" ELSE "info"
           d == SetStatus(daemon, key, error)
<1>1. daemon \in Daemon /\ daemon.rev \in Nat /\ \A e \in daemon.events : e.rev <= daemon.rev /\ e.rev \in Nat
  BY DEF Inv, TypeOK, Daemon, Event
<1>2. room \subseteq daemon.events
  OBVIOUS
<1>3. new \in Event /\ new.rev = daemon.rev + 1
  BY <1>1 DEF Toast, Event
<1>4. d = [daemon EXCEPT !.rev = @ + 1, !.status = status, !.events = room \cup {new}]
  BY DEF SetStatus
<1>5. status \in {"none", "info", "error"} /\ daemon.rev + 1 \in Nat
  BY <1>1
<1> HIDE DEF room, new, d, status
<1>6. /\ d.rev = daemon.rev + 1 /\ d.events = room \cup {new} /\ d.up = daemon.up
      /\ d.clients = daemon.clients /\ d.sent = daemon.sent /\ d.focus = daemon.focus
      /\ d.overlay = daemon.overlay /\ d.status = status
  BY <1>1, <1>4 DEF Daemon
<1>7. d \in Daemon
  <2>1. room \cup {new} \subseteq Event
    BY <1>1, <1>2, <1>3 DEF Daemon
  <2> HIDE DEF Event
  <2> QED
    BY <1>1, <1>4, <1>5, <2>1 DEF Daemon
<1>8. \A e \in d.events : e.rev <= d.rev /\ (e.rev <= daemon.rev => e \in daemon.events)
  BY <1>1, <1>2, <1>3, <1>6
<1>9. daemon.rev <= d.rev
  BY <1>1, <1>6
<1> QED
  BY <1>6, <1>7, <1>8, <1>9 DEF Grown, d, status

\* A daemon that only answers has grown by nothing.
LEMMA SameIsGrown == ASSUME Inv PROVE Grown(daemon)
BY DEF Inv, TypeOK, Daemon, Grown

\* Only a clear that names the error itself clears it; a command of the command
\* line leaves its outcome in the status.
LEMMA HandledFacts ==
    ASSUME Inv, NEW cmd \in Request
    PROVE  LET d == Handled(daemon, cmd) IN
           /\ Grown(d)
           /\ daemon.status = "error" /\ d.status = "none" => cmd.cmd = "clear" /\ cmd.of = daemon.rev
           /\ OfCommand(cmd) => (d.status = "error" <=> cmd.cmd = "failing")
<1> DEFINE d == Handled(daemon, cmd)
<1>1. daemon \in Daemon /\ Grown(daemon)
  BY SameIsGrown DEF Inv, TypeOK
<1>2. CASE cmd.cmd = "focus"
  <2>1. cmd.of \in Panes
    BY <1>2 DEF Request, TuiCommand, OtherCommand
  <2>2. d = [daemon EXCEPT !.focus = cmd.of]
    BY <1>2 DEF Handled
  <2> QED
    BY <1>1, <1>2, <2>1, <2>2 DEF Grown, Daemon, OfCommand
<1>3. CASE cmd.cmd = "key"
  <2>1. cmd.of \in Overlays
    BY <1>3 DEF Request, TuiCommand, OtherCommand
  <2>2. d = [daemon EXCEPT !.overlay = cmd.of]
    BY <1>3 DEF Handled
  <2> QED
    BY <1>1, <1>3, <2>1, <2>2 DEF Grown, Daemon, OfCommand
<1>4. CASE cmd.cmd = "clear"
  <2>1. d = ClearErrorStatus(daemon, cmd.of)
    BY <1>4 DEF Handled
  <2> QED
    BY <1>1, <1>4, <2>1 DEF ClearErrorStatus, Grown, Daemon, OfCommand
<1>5. CASE cmd.cmd = "error"
  <2>1. d = SetStatus(daemon, "client", TRUE) /\ "client" \in Keys /\ TRUE \in BOOLEAN
    BY <1>5 DEF Handled, Keys
  <2>2. Grown(d) /\ d.status = "error"
    BY <2>1, SetStatusFacts
  <2> HIDE DEF d
  <2>3. Grown(d) /\ d.status # "none" /\ ~OfCommand(cmd)
    BY <1>5, <2>2 DEF OfCommand
  <2> QED
    BY <2>3 DEF d
<1>6. CASE cmd.cmd = "failing"
  <2>1. d = SetStatus(daemon, "connection", TRUE) /\ "connection" \in Keys /\ TRUE \in BOOLEAN
    BY <1>6 DEF Handled, Keys
  <2>2. Grown(d) /\ d.status = "error"
    BY <2>1, SetStatusFacts
  <2> HIDE DEF d
  <2>3. Grown(d) /\ d.status # "none" /\ (d.status = "error" <=> cmd.cmd = "failing")
    BY <1>6, <2>2
  <2> QED
    BY <2>3 DEF d
<1>7. CASE cmd.cmd = "connect"
  <2>1. d = SetStatus(daemon, "connection", FALSE) /\ "connection" \in Keys /\ FALSE \in BOOLEAN
    BY <1>7 DEF Handled, Keys
  <2>2. Grown(d) /\ d.status = "info"
    BY <2>1, SetStatusFacts
  <2> HIDE DEF d
  <2>3. Grown(d) /\ d.status # "none" /\ (d.status = "error" <=> cmd.cmd = "failing")
    BY <1>7, <2>2
  <2> QED
    BY <2>3 DEF d
<1>8. CASE cmd.cmd \in {"scroll", "attach"}
  <2>1. d = daemon
    BY <1>8 DEF Handled
  <2>2. ~OfCommand(cmd) /\ ~(daemon.status = "error" /\ daemon.status = "none")
    BY <1>8 DEF OfCommand
  <2> QED
    BY <1>1, <2>1, <2>2
<1>9. cmd.cmd \in {"focus", "key", "clear", "error", "failing", "connect", "scroll", "attach"}
  BY DEF Request, TuiCommand, OtherCommand
<1> QED
  BY <1>2, <1>3, <1>4, <1>5, <1>6, <1>7, <1>8, <1>9

\* What followed on a snapshot, or was drawn, still does and is.
LEMMA GrownKeeps ==
    ASSUME Inv, NEW d, Grown(d)
    PROVE  /\ \A r : r.rev \in Nat /\ Follows(r, daemon) => Follows(r, d)
           /\ \A u : u.seen \in Nat /\ u.seen <= daemon.rev /\ Shown(u, daemon) => Shown(u, d)
           /\ Follows(d, d)
<1>1. daemon.rev \in Nat /\ d.rev \in Nat /\ \A e \in d.events : e.rev \in Nat
  BY DEF Inv, TypeOK, Daemon, Event, Grown
<1>2. ASSUME NEW r, r.rev \in Nat, Follows(r, daemon) PROVE Follows(r, d)
  BY <1>1, <1>2 DEF Follows, Grown
<1>3. ASSUME NEW u, u.seen \in Nat, u.seen <= daemon.rev, Shown(u, daemon) PROVE Shown(u, d)
  BY <1>1, <1>3 DEF Shown, Grown
<1>4. Follows(d, d)
  BY <1>1 DEF Follows
<1> QED
  BY <1>2, <1>3, <1>4

\* A broadcast reaches every client that is kept; re is the request it answers,
\* the only one that may leave the inbox.
LEMMA BroadcastKeeps ==
    ASSUME ConstantsOK, Inv, NEW d, Grown(d), NEW re \in Nat, NEW scrolled \in BOOLEAN, NEW bound,
           Broadcast(d, re, scrolled, bound), UNCHANGED tui,
           \A i \in 1..Len(inbox) : inbox[i].id = re \/ \E j \in 1..Len(inbox') : inbox'[j] = inbox[i]
    PROVE  /\ daemon' \in Daemon /\ wire' \in [Clients -> Seq(Message)]
           /\ daemon'.up = daemon.up /\ daemon'.status = d.status
           /\ (\A e \in daemon.events : e.rev <= daemon.rev)'
           /\ wire'[Cli] = wire[Cli] \/ wire'[Cli] = Append(wire[Cli], Snapshot(d, re, scrolled))
           /\ \A t \in Tuis : WireInv(t)' /\ AgreeInv(t)'
<1>1. PICK slow \in SUBSET {t \in d.clients \cap Tuis : wire[t] # <<>>} :
        /\ daemon' = [d EXCEPT !.clients = @ \ slow, !.sent = d.rev]
        /\ wire' = [c \in Clients |->
                      IF c \notin d.clients THEN wire[c]
                      ELSE Append(wire[c], IF c \in slow THEN Gone ELSE Snapshot(d, re, scrolled))]
  BY DEF Broadcast
<1> DEFINE snap == Snapshot(d, re, scrolled)
<1>2. d \in Daemon /\ d.rev \in Nat /\ d.clients \subseteq Clients
  BY DEF Grown, Daemon
<1>3. /\ snap \in SnapshotType /\ snap.re = re /\ snap.focus = d.focus /\ snap.overlay = d.overlay
      /\ snap.rev = d.rev /\ snap.events = d.events
  BY <1>2 DEF Snapshot, SnapshotType, Daemon
<1> HIDE DEF snap
<1>4. /\ daemon'.up = d.up /\ daemon'.focus = d.focus /\ daemon'.overlay = d.overlay
      /\ daemon'.rev = d.rev /\ daemon'.status = d.status /\ daemon'.events = d.events
      /\ daemon'.sent = d.rev /\ daemon'.clients = d.clients \ slow
  BY <1>1, <1>2 DEF Daemon
<1>5. daemon' \in Daemon
  BY <1>1, <1>2 DEF Daemon
<1>6. \A c \in Clients : wire[c] \in Seq(Message)
  BY DEF Inv, TypeOK
<1>7. wire' \in [Clients -> Seq(Message)]
  <2>1. \A m : m = Gone \/ m = snap => m \in Message
    BY <1>3 DEF Message
  <2> HIDE DEF Message
  <2>2. \A c \in Clients : wire'[c] \in Seq(Message)
    BY <1>1, <1>6, <2>1 DEF snap
  <2> QED
    BY <1>1, <2>2
<1>8. wire'[Cli] = wire[Cli] \/ wire'[Cli] = Append(wire[Cli], snap)
  <2>1. Cli \in Clients /\ Cli \notin slow
    BY <1>1 DEF Clients, ConstantsOK
  <2> QED
    BY <1>1, <2>1 DEF snap
<1>9. (\A e \in daemon.events : e.rev <= daemon.rev)'
  BY <1>4 DEF Grown
<1>10. ASSUME NEW t \in Tuis, Linked(t)'
       PROVE  /\ Linked(t) /\ wire'[t] = Append(wire[t], snap)
              /\ Len(wire'[t]) = Len(wire[t]) + 1 /\ Len(wire[t]) \in Nat
              /\ \A i \in 1..Len(wire[t]) : i \in 1..Len(wire'[t]) /\ wire'[t][i] = wire[t][i]
              /\ Len(wire'[t]) \in 1..Len(wire'[t]) /\ wire'[t][Len(wire'[t])] = snap
              /\ \A i \in 1..Len(wire'[t]) :
                   (i \in 1..Len(wire[t]) /\ wire'[t][i] = wire[t][i]) \/ i = Len(wire'[t])
  <2>1. t \in Clients /\ t \in d.clients /\ t \notin slow /\ d.up
    BY <1>4, <1>10 DEF Linked, Clients
  <2>2. Linked(t)
    BY <2>1 DEF Linked, Grown
  <2>3. wire'[t] = Append(wire[t], snap)
    BY <1>1, <2>1 DEF snap
  <2>4. wire[t] \in Seq(Message) /\ snap \in Message
    BY <1>3, <1>6, <2>1 DEF Message
  <2> HIDE DEF Message
  <2>5. /\ Len(Append(wire[t], snap)) = Len(wire[t]) + 1 /\ Len(wire[t]) \in Nat
        /\ \A i \in 1..Len(wire[t]) : Append(wire[t], snap)[i] = wire[t][i]
        /\ Append(wire[t], snap)[Len(wire[t]) + 1] = snap
    BY <2>4
  <2> QED
    BY <2>2, <2>3, <2>5
<1>11. ASSUME NEW t \in Tuis PROVE WireInv(t)'
  <2> SUFFICES ASSUME Linked(t)'
               PROVE  /\ \A i \in 1..Len(wire'[t]) :
                           wire'[t][i] \in SnapshotType /\ Follows(wire'[t][i], daemon')
                      /\ \A i, j \in 1..Len(wire'[t]) : i <= j => Follows(wire'[t][i], wire'[t][j])
                      /\ Latest(wire[t][Len(wire[t])])'
    BY DEF WireInv, Follows
  <2>1. \A r : Follows(r, d) => Follows(r, daemon') /\ Follows(r, snap)
    BY <1>3, <1>4 DEF Follows
  <2>2. Follows(snap, snap) /\ Follows(snap, daemon')
    BY <1>3, <1>4, GrownKeeps DEF Follows
  <2>3. \A i \in 1..Len(wire[t]) : wire[t][i] \in SnapshotType /\ Follows(wire[t][i], d)
    <3>1. \A i \in 1..Len(wire[t]) :
            wire[t][i] \in SnapshotType /\ wire[t][i].rev \in Nat /\ Follows(wire[t][i], daemon)
      BY <1>10 DEF Inv, WireInv, SnapshotType
    <3> QED
      BY <3>1, GrownKeeps
  <2>4. \A i \in 1..Len(wire'[t]) : wire'[t][i] \in SnapshotType /\ Follows(wire'[t][i], daemon')
    BY <1>3, <1>10, <2>1, <2>2, <2>3
  <2>5. \A i, j \in 1..Len(wire'[t]) : i <= j => Follows(wire'[t][i], wire'[t][j])
    <3> SUFFICES ASSUME NEW i \in 1..Len(wire'[t]), NEW j \in 1..Len(wire'[t]), i <= j
                 PROVE  Follows(wire'[t][i], wire'[t][j])
      OBVIOUS
    <3>1. CASE j = Len(wire'[t])
      BY <1>10, <2>1, <2>2, <2>3, <3>1
    <3>2. CASE j # Len(wire'[t])
      <4>1. /\ i \in 1..Len(wire[t]) /\ wire'[t][i] = wire[t][i]
            /\ j \in 1..Len(wire[t]) /\ wire'[t][j] = wire[t][j]
        BY <1>10, <3>2
      <4> QED
        BY <1>10, <4>1 DEF Inv, WireInv
    <3> QED
      BY <3>1, <3>2
  <2>6. Latest(wire[t][Len(wire[t])])'
    BY <1>3, <1>4, <1>10 DEF Latest
  <2> QED
    BY <2>4, <2>5, <2>6
<1>12. ASSUME NEW t \in Tuis PROVE AgreeInv(t)'
  <2> SUFFICES ASSUME Linked(t)', tui[t].at = "on" PROVE AgreeInv(t)'
    BY DEF AgreeInv
  <2>1. /\ AgreeInv(t) /\ Linked(t) /\ tui[t].seen <= daemon.rev /\ Shown(tui[t], daemon)
        /\ tui[t].seen \in Nat /\ daemon.rev \in Nat /\ daemon.rev <= d.rev
    BY <1>10 DEF Inv, AgreeInv, TypeOK, TuiShape, Daemon, Grown
  <2>2. tui[t].seen <= d.rev
    BY <1>2, <2>1
  <2>3. Shown(tui[t], d)
    BY <2>1, GrownKeeps
  <2>4. Shown(tui[t], snap)
    BY <1>3, <2>3 DEF Shown
  <2>5. \A i \in 1..Len(wire'[t]) : Shown(tui[t], wire'[t][i])
    BY <1>10, <2>1, <2>4 DEF AgreeInv
  <2>6. wire'[t] # <<>>
    <3>1. wire'[t] = <<>> => Len(wire'[t]) = 0
      OBVIOUS
    <3> QED
      BY <1>10, <3>1
  <2>7. tui[t].pending # None => Awaited(t)'
    <3> SUFFICES ASSUME tui[t].pending # None PROVE Awaited(t)'
      OBVIOUS
    <3>1. CASE \E i \in 1..Len(wire[t]) : wire[t][i].re = tui[t].pending.id
      BY <1>10, <3>1 DEF Awaited
    <3>2. CASE \E i \in 1..Len(inbox) : inbox[i] = Command("focus", tui[t].pending.id, tui[t].pending.of)
      <4>1. PICK i \in 1..Len(inbox) : inbox[i] = Command("focus", tui[t].pending.id, tui[t].pending.of)
        BY <3>2
      <4>2. CASE inbox[i].id = re
        <5>1. tui[t].pending.id = re
          BY <4>1, <4>2 DEF Command
        <5> QED
          BY <1>3, <1>10, <5>1 DEF Awaited
      <4>3. CASE \E j \in 1..Len(inbox') : inbox'[j] = inbox[i]
        BY <4>1, <4>3 DEF Awaited
      <4> QED
        BY <4>2, <4>3
    <3> QED
      BY <2>1, <3>1, <3>2 DEF AgreeInv, Awaited
  <2>8. tui[t].pending = None => tui[t].focus = tui[t].base
    BY <2>1 DEF AgreeInv
  <2>9. Shown(tui[t], daemon')
    BY <1>4, <2>3 DEF Shown
  <2> QED
    BY <1>4, <2>2, <2>5, <2>6, <2>7, <2>8, <2>9 DEF AgreeInv, Shown
<1>13. daemon'.up = daemon.up
  BY <1>4 DEF Grown
<1> QED
  BY <1>4, <1>5, <1>7, <1>8, <1>9, <1>11, <1>12, <1>13 DEF snap

\* The snapshots the command line has not read, when a broadcast adds one that
\* answers another request, or its own with its outcome.
LEMMA CliWire ==
    ASSUME ConstantsOK, Inv, wire'[Cli] \in Seq(Message), NEW d, NEW re \in Nat, NEW scrolled \in BOOLEAN,
           wire'[Cli] = wire[Cli] \/ wire'[Cli] = Append(wire[Cli], Snapshot(d, re, scrolled)),
           re <= ids, UNCHANGED <<cli, ids>>,
           \A i \in 1..Len(wire[Cli]) :
              wire[Cli][i] # Gone /\ wire[Cli][i].re = cli.id /\ cli.id > 0 => outcome' = outcome,
           re = cli.id /\ cli.id > 0 =>
              outcome' = IF d.status = "error" THEN "failing" ELSE "connect"
    PROVE  \A i \in 1..Len(wire'[Cli]) :
             wire'[Cli][i] # Gone =>
                /\ wire'[Cli][i].re <= ids
                /\ wire'[Cli][i].re = cli.id /\ cli.id > 0 =>
                     outcome' = IF wire'[Cli][i].error THEN "failing" ELSE "connect"
<1> DEFINE snap == Snapshot(d, re, scrolled)
<1>1. wire[Cli] \in Seq(Message)
  BY DEF Inv, TypeOK, Clients
<1>2. \A i \in 1..Len(wire'[Cli]) :
        (i \in 1..Len(wire[Cli]) /\ wire'[Cli][i] = wire[Cli][i]) \/ wire'[Cli][i] = snap
  <2> HIDE DEF snap, Message
  <2>1. CASE wire'[Cli] = Append(wire[Cli], snap)
    <3>1. /\ Len(Append(wire[Cli], snap)) = Len(wire[Cli]) + 1 /\ Len(wire[Cli]) \in Nat
          /\ \A i \in 1..Len(wire[Cli]) : Append(wire[Cli], snap)[i] = wire[Cli][i]
          /\ Append(wire[Cli], snap)[Len(wire[Cli]) + 1] = snap
      BY <1>1
    <3>2. \A i \in 1..(Len(wire[Cli]) + 1) : i \in 1..Len(wire[Cli]) \/ i = Len(wire[Cli]) + 1
      BY <3>1
    <3> QED
      BY <2>1, <3>1, <3>2
  <2> QED
    BY <2>1 DEF snap
<1>3. snap.re = re /\ snap.error = (d.status = "error")
  BY DEF Snapshot
<1> HIDE DEF snap
<1> SUFFICES ASSUME NEW i \in 1..Len(wire'[Cli]), wire'[Cli][i] # Gone
             PROVE  /\ wire'[Cli][i].re <= ids
                    /\ wire'[Cli][i].re = cli.id /\ cli.id > 0 =>
                         outcome' = IF wire'[Cli][i].error THEN "failing" ELSE "connect"
  OBVIOUS
<1>4. CASE i \in 1..Len(wire[Cli]) /\ wire'[Cli][i] = wire[Cli][i]
  BY <1>4 DEF Inv, CliInv
<1>5. CASE wire'[Cli][i] = snap
  BY <1>3, <1>5
<1> QED
  BY <1>2, <1>4, <1>5

\* A command is answered to every client that is kept (handle_ipc_command).
LEMMA HandleCommandKeeps ==
    ASSUME ConstantsOK, Inv, HandleCommand
    PROVE  Inv' /\ ErrorIsDrawnBeforeCleared
<1> DEFINE cmd == Head(inbox)
           d == Handled(daemon, cmd)
           scrolled == cmd.cmd = "scroll" /\ cmd.of = daemon.overlay
<1>1. /\ inbox # <<>> /\ inbox' = Tail(inbox) /\ UNCHANGED <<tui, cli, ids, drawn>>
      /\ Broadcast(d, cmd.id, scrolled, left) /\ scrolled \in BOOLEAN
      /\ outcome' = IF cmd.cmd \in {"connect", "failing"} THEN cmd.cmd ELSE outcome
  BY DEF HandleCommand
<1>2. inbox \in Seq(Request)
  BY DEF Inv, TypeOK
<1>3. /\ cmd = inbox[1] /\ 1 \in 1..Len(inbox) /\ cmd \in Request /\ inbox' \in Seq(Request)
      /\ Len(inbox') = Len(inbox) - 1 /\ Len(inbox) \in Nat
      /\ \A i \in 1..Len(inbox') : i + 1 \in 1..Len(inbox) /\ inbox'[i] = inbox[i + 1]
      /\ \A i \in 1..Len(inbox) : i = 1 \/ (i - 1 \in 1..Len(inbox') /\ inbox'[i - 1] = inbox[i])
  <2> HIDE DEF Request
  <2>1. /\ Head(inbox) = inbox[1] /\ 1 \in 1..Len(inbox) /\ Head(inbox) \in Request
        /\ Tail(inbox) \in Seq(Request) /\ Len(Tail(inbox)) = Len(inbox) - 1 /\ Len(inbox) \in Nat
        /\ \A i \in 1..Len(Tail(inbox)) : i + 1 \in 1..Len(inbox) /\ Tail(inbox)[i] = inbox[i + 1]
        /\ \A i \in 1..Len(inbox) :
             i = 1 \/ (i - 1 \in 1..Len(Tail(inbox)) /\ Tail(inbox)[i - 1] = inbox[i])
    BY <1>1, <1>2, TailFacts
  <2> QED
    BY <1>1, <2>1
<1> HIDE DEF cmd
<1>4. /\ Grown(d)
      /\ daemon.status = "error" /\ d.status = "none" => cmd.cmd = "clear" /\ cmd.of = daemon.rev
      /\ OfCommand(cmd) => (d.status = "error" <=> cmd.cmd = "failing")
  BY <1>3, HandledFacts
<1> HIDE DEF d, scrolled
<1>5. cmd.id \in Nat /\ cmd.id <= ids
  BY <1>3 DEF Request, TuiCommand, OtherCommand, Inv, CliInv
<1>6. \A i \in 1..Len(inbox) : inbox[i].id = cmd.id \/ \E j \in 1..Len(inbox') : inbox'[j] = inbox[i]
  BY <1>3
<1>7. /\ daemon' \in Daemon /\ wire' \in [Clients -> Seq(Message)]
      /\ daemon'.up = daemon.up /\ daemon'.status = d.status
      /\ (\A e \in daemon.events : e.rev <= daemon.rev)'
      /\ wire'[Cli] = wire[Cli] \/ wire'[Cli] = Append(wire[Cli], Snapshot(d, cmd.id, scrolled))
      /\ \A t \in Tuis : WireInv(t)' /\ AgreeInv(t)'
  BY <1>1, <1>4, <1>5, <1>6, BroadcastKeeps
<1>8. ErrorIsDrawnBeforeCleared
  BY <1>3, <1>4, <1>7 DEF ErrorIsDrawnBeforeCleared, Inv, ClearInv
<1>9. TypeOK'
  <2>1. outcome' \in {"none", "connect", "failing"}
    BY <1>1 DEF Inv, TypeOK
  <2> QED
    BY <1>1, <1>3, <1>7, <2>1 DEF Inv, TypeOK
<1>10. ClearInv'
  BY <1>1, <1>3 DEF Inv, ClearInv
<1>11. /\ \A i \in 1..Len(inbox) :
            /\ inbox[i].id <= ids
            /\ OfCommand(inbox[i]) => inbox[i].id = cli.id /\ cli.id > 0 /\ outcome = "none"
            /\ inbox[i].id = cli.id /\ cli.id > 0 => OfCommand(inbox[i])
       /\ \A i, j \in 1..Len(inbox) : OfCommand(inbox[i]) /\ OfCommand(inbox[j]) => i = j
  BY DEF Inv, CliInv
<1>12. OfCommand(cmd) =>
         /\ cmd.id = cli.id /\ cli.id > 0 /\ outcome = "none" /\ outcome' = cmd.cmd
         /\ cmd.cmd \in {"connect", "failing"}
  BY <1>1, <1>3, <1>11 DEF OfCommand
<1>13. ~OfCommand(cmd) => outcome' = outcome
  BY <1>1 DEF OfCommand
<1>14. OfCommand(cmd) => \A i \in 1..Len(inbox') : ~OfCommand(inbox'[i])
  <2> SUFFICES ASSUME OfCommand(cmd), NEW i \in 1..Len(inbox'), OfCommand(inbox'[i]) PROVE FALSE
    OBVIOUS
  <2>1. i + 1 \in 1..Len(inbox) /\ OfCommand(inbox[i + 1]) /\ i + 1 # 1
    BY <1>3
  <2> QED
    BY <1>3, <1>11, <2>1
<1>15. \A i \in 1..Len(wire[Cli]) :
         wire[Cli][i] # Gone /\ wire[Cli][i].re = cli.id /\ cli.id > 0 => outcome' = outcome
  <2>1. \A i \in 1..Len(wire[Cli]) :
          wire[Cli][i] # Gone /\ wire[Cli][i].re = cli.id /\ cli.id > 0 => outcome # "none"
    BY DEF Inv, CliInv
  <2> QED
    BY <1>12, <1>13, <2>1
<1>16. cmd.id = cli.id /\ cli.id > 0 =>
         outcome' = IF d.status = "error" THEN "failing" ELSE "connect"
  BY <1>3, <1>4, <1>11, <1>12
<1>17. wire'[Cli] \in Seq(Message)
  BY <1>7 DEF Clients
<1>18. \A i \in 1..Len(wire'[Cli]) :
         wire'[Cli][i] # Gone =>
            /\ wire'[Cli][i].re <= ids
            /\ wire'[Cli][i].re = cli.id /\ cli.id > 0 =>
                 outcome' = IF wire'[Cli][i].error THEN "failing" ELSE "connect"
  BY <1>1, <1>5, <1>7, <1>15, <1>16, <1>17, CliWire
<1>19. CommandReportsItsOutcome'
  <2>1. CommandReportsItsOutcome
    BY DEF Inv, CliInv
  <2>2. cli.at = "done" => outcome # "none"
    BY <2>1 DEF CommandReportsItsOutcome
  <2> QED
    BY <1>1, <1>12, <1>13, <2>1, <2>2 DEF CommandReportsItsOutcome
<1>20. CliInv'
  <2>1. \A i \in 1..Len(inbox') :
          /\ inbox'[i].id <= ids
          /\ OfCommand(inbox'[i]) => inbox'[i].id = cli.id /\ cli.id > 0 /\ outcome' = "none"
          /\ inbox'[i].id = cli.id /\ cli.id > 0 => OfCommand(inbox'[i])
    BY <1>3, <1>11, <1>13, <1>14
  <2>2. \A i, j \in 1..Len(inbox') : OfCommand(inbox'[i]) /\ OfCommand(inbox'[j]) => i = j
    <3> SUFFICES ASSUME NEW i \in 1..Len(inbox'), NEW j \in 1..Len(inbox'), OfCommand(inbox'[i]),
                        OfCommand(inbox'[j])
                 PROVE  i = j
      OBVIOUS
    <3>1. i + 1 = j + 1
      BY <1>3, <1>11
    <3> QED
      BY <3>1
  <2>3. /\ cli.id <= ids
        /\ cli.at \in {"off", "attaching"} => cli.id = 0
        /\ cli.at \in {"waiting", "done"} => cli.id > 0
        /\ cli.id = 0 => outcome' = "none"
    <3>1. cli.id = 0 => ~(cli.id > 0)
      OBVIOUS
    <3> QED
      BY <1>12, <1>13, <3>1 DEF Inv, CliInv
  <2> QED
    BY <1>1, <1>18, <1>19, <2>1, <2>2, <2>3 DEF CliInv
<1> QED
  BY <1>7, <1>8, <1>9, <1>10, <1>20 DEF Inv

\* A status of the daemon reaches the clients now, or with the next broadcast.
LEMMA OwnStatusKeeps ==
    ASSUME ConstantsOK, Inv, OwnStatus
    PROVE  Inv' /\ ErrorIsDrawnBeforeCleared
<1>1. UNCHANGED <<inbox, tui, cli, ids, outcome, drawn>>
  BY DEF OwnStatus
<1>2. PICK key \in Keys, error \in BOOLEAN :
        LET d == SetStatus(daemon, key, error)
            after == [left EXCEPT !.statuses = @ - 1]
        IN  Broadcast(d, NoId, FALSE, after) \/ (daemon' = d /\ UNCHANGED wire)
  BY DEF OwnStatus
<1> DEFINE d == SetStatus(daemon, key, error)
           after == [left EXCEPT !.statuses = @ - 1]
<1>3. Grown(d) /\ d.focus = daemon.focus /\ d.overlay = daemon.overlay /\ d.status # "none"
  BY SetStatusFacts
<1> HIDE DEF d, after
<1>4. Broadcast(d, 0, FALSE, after) \/ (daemon' = d /\ UNCHANGED wire)
  BY <1>2 DEF d, after, NoId
<1>5. /\ daemon' \in Daemon /\ wire' \in [Clients -> Seq(Message)]
      /\ (\A e \in daemon.events : e.rev <= daemon.rev)'
      /\ wire'[Cli] = wire[Cli] \/ wire'[Cli] = Append(wire[Cli], Snapshot(d, 0, FALSE))
      /\ daemon'.status # "none"
      /\ \A t \in Tuis : WireInv(t)' /\ AgreeInv(t)'
  <2>1. CASE Broadcast(d, 0, FALSE, after)
    <3>1. \A i \in 1..Len(inbox) : \E j \in 1..Len(inbox') : inbox'[j] = inbox[i]
      BY <1>1
    <3>2. daemon'.status = d.status
      BY <1>1, <1>3, <2>1, <3>1, BroadcastKeeps
    <3> QED
      BY <1>1, <1>3, <2>1, <3>1, <3>2, BroadcastKeeps
  <2>2. CASE daemon' = d /\ UNCHANGED wire
    <3>1. /\ daemon' \in Daemon /\ wire' \in [Clients -> Seq(Message)] /\ daemon'.status # "none"
          /\ (\A e \in daemon.events : e.rev <= daemon.rev)'
      BY <1>3, <2>2 DEF Grown, Inv, TypeOK
    <3>2. d.up = daemon.up /\ d.clients = daemon.clients /\ d.sent = daemon.sent
      BY <1>3 DEF Grown
    <3>3. ASSUME NEW t \in Tuis, Linked(t) PROVE WireInv(t)'
      <4>1. \A i \in 1..Len(wire[t]) : wire[t][i] \in SnapshotType /\ Follows(wire[t][i], d)
        <5>1. \A i \in 1..Len(wire[t]) :
                wire[t][i] \in SnapshotType /\ wire[t][i].rev \in Nat /\ Follows(wire[t][i], daemon)
          BY <3>3 DEF Inv, WireInv, SnapshotType
        <5> QED
          BY <1>3, <5>1, GrownKeeps
      <4>2. WireInv(t)
        BY DEF Inv
      <4> QED
        BY <1>3, <2>2, <3>2, <3>3, <4>1, <4>2 DEF WireInv, Follows, Latest
    <3>4. ASSUME NEW t \in Tuis, Linked(t), tui[t].at = "on" PROVE AgreeInv(t)'
      <4>1. /\ AgreeInv(t) /\ tui[t].seen <= daemon.rev /\ Shown(tui[t], daemon)
            /\ tui[t].seen \in Nat /\ daemon.rev \in Nat /\ daemon.rev <= d.rev /\ d.rev \in Nat
        BY <1>3, <3>4 DEF Inv, AgreeInv, TypeOK, TuiShape, Daemon, Grown
      <4>2. Shown(tui[t], d) /\ tui[t].seen <= d.rev
        BY <1>3, <4>1, GrownKeeps
      <4>3. Awaited(t) => Awaited(t)'
        BY <1>1, <2>2 DEF Awaited
      <4> QED
        BY <1>1, <1>3, <2>2, <3>2, <3>4, <4>1, <4>2, <4>3 DEF AgreeInv, Shown
    <3>5. ASSUME NEW t \in Tuis PROVE WireInv(t)' /\ AgreeInv(t)'
      <4>1. Linked(t)' <=> Linked(t)
        BY <2>2, <3>2 DEF Linked
      <4> QED
        BY <1>1, <3>3, <3>4, <4>1 DEF WireInv, AgreeInv
    <3> QED
      BY <2>2, <3>1, <3>5
  <2> QED
    BY <1>4, <2>1, <2>2
<1>6. TypeOK' /\ ClearInv'
  BY <1>1, <1>5 DEF Inv, TypeOK, ClearInv
<1>7. ids \in Nat /\ cli.id \in Nat /\ wire'[Cli] \in Seq(Message)
  BY <1>5 DEF Inv, TypeOK, Clients
<1>8. \A i \in 1..Len(wire'[Cli]) :
        wire'[Cli][i] # Gone =>
           /\ wire'[Cli][i].re <= ids
           /\ wire'[Cli][i].re = cli.id /\ cli.id > 0 =>
                outcome' = IF wire'[Cli][i].error THEN "failing" ELSE "connect"
  <2>1. 0 <= ids /\ ~(0 = cli.id /\ cli.id > 0)
    BY <1>7
  <2> QED
    BY <1>1, <1>5, <1>7, <2>1, CliWire
<1>9. CliInv'
  BY <1>1, <1>8 DEF Inv, CliInv, CommandReportsItsOutcome
<1> QED
  BY <1>5, <1>6, <1>9 DEF Inv, ErrorIsDrawnBeforeCleared

\* A new daemon has no clients yet, and no commands.
LEMMA RestartKeeps ==
    ASSUME ConstantsOK, Inv, Restart
    PROVE  Inv' /\ ErrorIsDrawnBeforeCleared
<1>1. /\ daemon' = [NewDaemon EXCEPT !.up = ~daemon.up] /\ inbox' = <<>>
      /\ wire' = [c \in Clients |-> IF c \in daemon.clients THEN Append(wire[c], Gone) ELSE wire[c]]
      /\ UNCHANGED <<tui, cli, ids, outcome>>
  BY DEF Restart
<1>2. /\ daemon' \in Daemon /\ daemon'.clients = {} /\ daemon'.events = {}
      /\ daemon'.up = ~daemon.up
  BY <1>1 DEF NewDaemon, Daemon, Panes, Overlays, Inv, TypeOK
<1>3. \A t \in Tuis : ~Linked(t)'
  BY <1>2 DEF Linked
<1>4. /\ wire' \in [Clients -> Seq(Message)] /\ Cli \in Clients
      /\ \A i \in 1..Len(wire'[Cli]) :
           (i \in 1..Len(wire[Cli]) /\ wire'[Cli][i] = wire[Cli][i]) \/ wire'[Cli][i] = Gone
  <2>1. Gone \in Message /\ Cli \in Clients /\ \A c \in Clients : wire[c] \in Seq(Message)
    BY DEF Message, Clients, Inv, TypeOK
  <2> HIDE DEF Message
  <2>2. \A c \in Clients : wire'[c] \in Seq(Message)
    BY <1>1, <2>1
  <2>3. /\ Len(Append(wire[Cli], Gone)) = Len(wire[Cli]) + 1 /\ Len(wire[Cli]) \in Nat
        /\ \A i \in 1..Len(wire[Cli]) : Append(wire[Cli], Gone)[i] = wire[Cli][i]
        /\ Append(wire[Cli], Gone)[Len(wire[Cli]) + 1] = Gone
    BY <2>1
  <2>4. \A i \in 1..(Len(wire[Cli]) + 1) : i \in 1..Len(wire[Cli]) \/ i = Len(wire[Cli]) + 1
    BY <2>3
  <2>5. wire'[Cli] = wire[Cli] \/ wire'[Cli] = Append(wire[Cli], Gone)
    BY <1>1, <2>1
  <2> QED
    BY <1>1, <2>1, <2>2, <2>3, <2>4, <2>5
<1>5. inbox' \in Seq(Request) /\ Len(inbox') = 0
  BY <1>1
<1>6. TypeOK' /\ ClearInv'
  BY <1>1, <1>2, <1>4, <1>5 DEF Inv, TypeOK, ClearInv
<1>7. CliInv'
  BY <1>1, <1>4, <1>5 DEF Inv, CliInv, CommandReportsItsOutcome
<1> QED
  BY <1>2, <1>3, <1>6, <1>7 DEF Inv, WireInv, AgreeInv, ErrorIsDrawnBeforeCleared

-----------------------------------------------------------------------------
(* Clients that attach, and the command line.                              *)

\* A client that attaches has nothing to read, and may not agree yet.
LEMMA ConnectKeeps ==
    ASSUME ConstantsOK, Inv, NEW c \in Clients, Connect(c), UNCHANGED <<ids, outcome, drawn>>,
           DOMAIN tui' = Tuis, \A t \in Tuis : TuiShape(tui'[t]) /\ (t # c => tui'[t] = tui[t]),
           c \in Tuis => tui'[c].at = "attaching",
           \/ UNCHANGED cli
           \/ c = Cli /\ cli.at = "off" /\ cli' = [cli EXCEPT !.at = "attaching"]
    PROVE  Inv' /\ ErrorIsDrawnBeforeCleared
<1> DEFINE attach == Command("attach", NoId, "none")
<1>1. /\ daemon.up /\ daemon' = [daemon EXCEPT !.clients = @ \cup {c}]
      /\ wire' = [wire EXCEPT ![c] = <<>>] /\ inbox' = Append(inbox, attach)
  BY DEF Connect
<1>2. attach \in Request /\ attach.id = 0 /\ attach.cmd = "attach"
  BY DEF Command, NoId, Request, OtherCommand
<1>3. inbox \in Seq(Request) /\ daemon \in Daemon /\ wire \in [Clients -> Seq(Message)]
  BY DEF Inv, TypeOK
<1> HIDE DEF attach
<1>4. /\ inbox' \in Seq(Request)
      /\ \A i \in 1..Len(inbox) : i \in 1..Len(inbox') /\ inbox'[i] = inbox[i]
      /\ \A i \in 1..Len(inbox') : (i \in 1..Len(inbox) /\ inbox'[i] = inbox[i]) \/ inbox'[i] = attach
  <2> HIDE DEF Request
  <2>1. /\ Append(inbox, attach) \in Seq(Request)
        /\ Len(Append(inbox, attach)) = Len(inbox) + 1 /\ Len(inbox) \in Nat
        /\ \A i \in 1..Len(inbox) : Append(inbox, attach)[i] = inbox[i]
        /\ Append(inbox, attach)[Len(inbox) + 1] = attach
    BY <1>2, <1>3
  <2>2. \A i \in 1..(Len(inbox) + 1) : i \in 1..Len(inbox) \/ i = Len(inbox) + 1
    BY <2>1
  <2> QED
    BY <1>1, <2>1, <2>2
<1>5. /\ daemon' \in Daemon /\ daemon'.clients = daemon.clients \cup {c} /\ daemon'.up = daemon.up
      /\ daemon'.focus = daemon.focus /\ daemon'.overlay = daemon.overlay
      /\ daemon'.rev = daemon.rev /\ daemon'.events = daemon.events /\ daemon'.sent = daemon.sent
      /\ daemon'.status = daemon.status
  BY <1>1, <1>3 DEF Daemon
<1>6. /\ wire' \in [Clients -> Seq(Message)] /\ wire'[c] = <<>> /\ Len(wire'[c]) = 0
      /\ \A b \in Clients : b # c => wire'[b] = wire[b]
  BY <1>1, <1>3
<1>7. /\ cli' \in [at : {"off", "attaching", "waiting", "done", "failed"}, id : Nat, error : BOOLEAN]
      /\ cli'.id = cli.id /\ cli'.error = cli.error /\ (cli'.at = cli.at \/ cli'.at = "attaching")
      /\ cli'.at = "attaching" => cli.at \in {"off", "attaching"}
  BY DEF Inv, TypeOK
<1>8. TypeOK'
  BY <1>4, <1>5, <1>6, <1>7 DEF Inv, TypeOK
<1>9. ClearInv'
  BY <1>2, <1>4 DEF Inv, ClearInv
<1>10. CliInv'
  <2>1. ids \in Nat /\ 0 <= ids /\ ~OfCommand(attach) /\ Cli \in Clients
    BY <1>2 DEF Inv, TypeOK, OfCommand, Clients
  <2>2. \A i \in 1..Len(inbox') :
          /\ inbox'[i].id <= ids
          /\ OfCommand(inbox'[i]) => inbox'[i].id = cli.id /\ cli.id > 0 /\ outcome = "none"
          /\ inbox'[i].id = cli.id /\ cli.id > 0 => OfCommand(inbox'[i])
    <3>1. ~(0 = cli.id /\ cli.id > 0)
      OBVIOUS
    <3> QED
      BY <1>2, <1>4, <2>1, <3>1 DEF Inv, CliInv
  <2>3. \A i, j \in 1..Len(inbox') : OfCommand(inbox'[i]) /\ OfCommand(inbox'[j]) => i = j
    BY <1>4, <2>1 DEF Inv, CliInv
  <2>4. wire'[Cli] = wire[Cli] \/ Len(wire'[Cli]) = 0
    BY <1>6, <2>1
  <2>5. \A i \in 1..Len(wire'[Cli]) :
          wire'[Cli][i] # Gone =>
             /\ wire'[Cli][i].re <= ids
             /\ wire'[Cli][i].re = cli.id /\ cli.id > 0 =>
                  outcome = IF wire'[Cli][i].error THEN "failing" ELSE "connect"
    BY <2>4 DEF Inv, CliInv
  <2>6. CommandReportsItsOutcome'
    BY <1>7 DEF Inv, CliInv, CommandReportsItsOutcome
  <2>7. /\ cli.id <= ids /\ (cli.id = 0 => outcome = "none")
        /\ cli'.at \in {"off", "attaching"} => cli.id = 0
        /\ cli'.at \in {"waiting", "done"} => cli.id > 0
    BY <1>7 DEF Inv, CliInv
  <2> QED
    BY <1>7, <2>2, <2>3, <2>5, <2>6, <2>7 DEF CliInv
<1>11. ASSUME NEW t \in Tuis, t = c PROVE WireInv(t)' /\ AgreeInv(t)'
  BY <1>6, <1>11 DEF WireInv, AgreeInv
<1>12. ASSUME NEW t \in Tuis, t # c PROVE WireInv(t)' /\ AgreeInv(t)'
  <2>1. wire'[t] = wire[t] /\ tui'[t] = tui[t] /\ (Linked(t)' <=> Linked(t))
    BY <1>5, <1>6, <1>12 DEF Clients, Linked
  <2>2. WireInv(t) /\ AgreeInv(t) /\ (Awaited(t) => Awaited(t)')
    BY <1>4, <2>1 DEF Inv, Awaited
  <2>3. WireInv(t)'
    BY <1>5, <2>1, <2>2 DEF WireInv, Follows, Latest
  <2>4. AgreeInv(t)'
    BY <1>5, <2>1, <2>2 DEF AgreeInv, Shown
  <2> QED
    BY <2>3, <2>4
<1>13. ErrorIsDrawnBeforeCleared
  BY <1>5 DEF ErrorIsDrawnBeforeCleared
<1>14. (\A e \in daemon.events : e.rev <= daemon.rev)'
  BY <1>5 DEF Inv
<1> QED
  BY <1>8, <1>9, <1>10, <1>11, <1>12, <1>13, <1>14 DEF Inv

\* A TUI that opens is attaching.
LEMMA OpenKeeps ==
    ASSUME ConstantsOK, Inv, NEW t \in Tuis, Open(t)
    PROVE  Inv' /\ ErrorIsDrawnBeforeCleared
<1> DEFINE v == [NewTui EXCEPT !.at = "attaching"]
<1>1. Connect(t) /\ tui' = [tui EXCEPT ![t] = v] /\ UNCHANGED <<cli, ids, outcome, drawn>>
  BY DEF Open
<1>2. TuiShape(v) /\ v.at = "attaching"
  BY DEF NewTui, TuiShape, Panes, Overlays, None
<1> HIDE DEF v
<1>3. /\ DOMAIN tui' = Tuis /\ tui'[t] = v
      /\ \A c \in Tuis : TuiShape(tui'[c]) /\ (c # t => tui'[c] = tui[c])
  BY <1>1, <1>2 DEF Inv, TypeOK
<1>4. t \in Clients
  BY DEF Clients
<1> QED
  BY <1>1, <1>2, <1>3, <1>4, ConnectKeeps

\* A TUI whose connection ended attaches again, or exits.
LEMMA ReattachKeeps ==
    ASSUME ConstantsOK, Inv, NEW t \in Tuis, Reattach(t)
    PROVE  Inv' /\ ErrorIsDrawnBeforeCleared
<1>1. UNCHANGED <<cli, left, ids, outcome, drawn>> /\ t \in Clients /\ TuiShape(tui[t])
  BY DEF Reattach, Clients, Inv, TypeOK
<1>2. CASE Connect(t) /\ tui' = [tui EXCEPT ![t].at = "attaching"]
  <2> DEFINE v == [tui[t] EXCEPT !.at = "attaching"]
  <2>1. TuiShape(v) /\ v.at = "attaching"
    BY <1>1 DEF TuiShape
  <2>2. tui' = [tui EXCEPT ![t] = v]
    BY <1>2
  <2> HIDE DEF v
  <2>3. /\ DOMAIN tui' = Tuis /\ tui'[t] = v
        /\ \A c \in Tuis : TuiShape(tui'[c]) /\ (c # t => tui'[c] = tui[c])
    BY <2>1, <2>2 DEF Inv, TypeOK
  <2> QED
    BY <1>1, <1>2, <2>1, <2>3, ConnectKeeps
<1>3. CASE /\ ~daemon.up /\ tui' = [tui EXCEPT ![t] = NewTui] /\ wire' = [wire EXCEPT ![t] = <<>>]
           /\ UNCHANGED <<daemon, inbox>>
  <2>1. TuiShape(NewTui)
    BY DEF NewTui, TuiShape, Panes, Overlays, None
  <2>2. DOMAIN tui' = Tuis /\ \A c \in Tuis : TuiShape(tui'[c])
    <3> HIDE DEF NewTui
    <3> QED
      BY <1>3, <2>1 DEF Inv, TypeOK
  <2>3. /\ wire' \in [Clients -> Seq(Message)] /\ wire'[Cli] = wire[Cli]
    BY <1>1, <1>3 DEF Inv, TypeOK, ConstantsOK, Clients
  <2>4. TypeOK' /\ ClearInv'
    BY <1>1, <1>3, <2>2, <2>3 DEF Inv, TypeOK, ClearInv
  <2>5. CliInv'
    BY <1>1, <1>3, <2>3 DEF Inv, CliInv, CommandReportsItsOutcome
  <2>6. \A c \in Tuis : ~Linked(c)'
    BY <1>3 DEF Linked
  <2> QED
    BY <1>3, <2>4, <2>5, <2>6 DEF Inv, WireInv, AgreeInv, ErrorIsDrawnBeforeCleared
<1> QED
  BY <1>2, <1>3 DEF Reattach

\* A command of the command line attaches.
LEMMA RunCliKeeps ==
    ASSUME ConstantsOK, Inv, RunCli
    PROVE  Inv' /\ ErrorIsDrawnBeforeCleared
<1>1. /\ Connect(Cli) /\ cli.at = "off" /\ cli' = [cli EXCEPT !.at = "attaching"]
      /\ UNCHANGED <<tui, ids, outcome, drawn>>
  BY DEF RunCli
<1>2. Cli \in Clients /\ Cli \notin Tuis
  BY DEF Clients, ConstantsOK
<1>3. DOMAIN tui' = Tuis /\ \A t \in Tuis : TuiShape(tui'[t]) /\ (t # Cli => tui'[t] = tui[t])
  BY <1>1 DEF Inv, TypeOK
<1> QED
  BY <1>1, <1>2, <1>3, ConnectKeeps

\* What the command line reads is nothing to the TUIs.
LEMMA CliStepKeeps ==
    ASSUME Inv, UNCHANGED <<daemon, tui>>, \A t \in Tuis : wire'[t] = wire[t],
           \A i \in 1..Len(inbox) : i \in 1..Len(inbox') /\ inbox'[i] = inbox[i]
    PROVE  \A t \in Tuis : WireInv(t)' /\ AgreeInv(t)'
<1> SUFFICES ASSUME NEW t \in Tuis PROVE WireInv(t)' /\ AgreeInv(t)'
  OBVIOUS
<1>1. WireInv(t) /\ AgreeInv(t) /\ wire'[t] = wire[t] /\ (Linked(t)' <=> Linked(t))
  BY DEF Inv, Linked
<1>2. Awaited(t) => Awaited(t)'
  BY <1>1 DEF Awaited
<1>3. WireInv(t)'
  BY <1>1 DEF WireInv, Follows, Latest
<1>4. AgreeInv(t)'
  BY <1>1, <1>2 DEF AgreeInv, Shown
<1> QED
  BY <1>3, <1>4

\* The command line reads the next snapshot.
LEMMA CliReads ==
    ASSUME ConstantsOK, Inv, wire[Cli] # <<>>, wire' = [wire EXCEPT ![Cli] = Tail(@)]
    PROVE  /\ wire' \in [Clients -> Seq(Message)] /\ \A t \in Tuis : wire'[t] = wire[t]
           /\ 1 \in 1..Len(wire[Cli]) /\ Head(wire[Cli]) = wire[Cli][1] /\ Head(wire[Cli]) \in Message
           /\ \A i \in 1..Len(wire'[Cli]) : \E j \in 1..Len(wire[Cli]) : wire'[Cli][i] = wire[Cli][j]
<1>1. wire \in [Clients -> Seq(Message)] /\ Cli \in Clients /\ wire[Cli] \in Seq(Message)
  BY DEF Inv, TypeOK, Clients
<1>2. wire'[Cli] = Tail(wire[Cli]) /\ \A t \in Tuis : wire'[t] = wire[t]
  BY <1>1 DEF ConstantsOK, Clients
<1> HIDE DEF Message
<1>3. /\ Head(wire[Cli]) = wire[Cli][1] /\ 1 \in 1..Len(wire[Cli]) /\ Head(wire[Cli]) \in Message
      /\ Tail(wire[Cli]) \in Seq(Message)
      /\ \A i \in 1..Len(Tail(wire[Cli])) :
           i + 1 \in 1..Len(wire[Cli]) /\ Tail(wire[Cli])[i] = wire[Cli][i + 1]
  BY <1>1, TailFacts
<1>4. wire' \in [Clients -> Seq(Message)]
  BY <1>1, <1>3
<1> QED
  BY <1>2, <1>3, <1>4

\* The request of the command line has a new id, which nothing under way has.
LEMMA SendCommandKeeps ==
    ASSUME ConstantsOK, Inv, SendCommand
    PROVE  Inv' /\ ErrorIsDrawnBeforeCleared
<1>1. /\ cli.at = "attaching" /\ wire[Cli] # <<>> /\ wire' = [wire EXCEPT ![Cli] = Tail(@)]
      /\ cli' = [cli EXCEPT !.at = "waiting", !.id = NextId] /\ ids' = ids + 1
      /\ UNCHANGED <<daemon, tui, left, outcome, drawn>>
  BY DEF SendCommand
<1>2. PICK cmd \in {"connect", "failing"} : inbox' = Append(inbox, Command(cmd, NextId, "none"))
  BY DEF SendCommand
<1> DEFINE new == Command(cmd, NextId, "none")
<1>3. ids \in Nat /\ NextId = ids + 1 /\ cli.id = 0 /\ outcome = "none" /\ inbox \in Seq(Request)
  BY <1>1 DEF Inv, TypeOK, NextId, CliInv
<1>4. new \in Request /\ new.id = ids + 1 /\ new.cmd = cmd /\ OfCommand(new) /\ new.cmd # "clear"
  BY <1>3 DEF Command, Request, OtherCommand, OfCommand
<1> HIDE DEF new
<1>5. /\ inbox' \in Seq(Request) /\ Len(inbox') = Len(inbox) + 1 /\ Len(inbox) \in Nat
      /\ \A i \in 1..Len(inbox) : i \in 1..Len(inbox') /\ inbox'[i] = inbox[i]
      /\ \A i \in 1..Len(inbox') :
           \/ i \in 1..Len(inbox) /\ inbox'[i] = inbox[i]
           \/ i = Len(inbox) + 1 /\ inbox'[i] = new
  <2> HIDE DEF Request
  <2>1. /\ Append(inbox, new) \in Seq(Request)
        /\ Len(Append(inbox, new)) = Len(inbox) + 1 /\ Len(inbox) \in Nat
        /\ \A i \in 1..Len(inbox) : Append(inbox, new)[i] = inbox[i]
        /\ Append(inbox, new)[Len(inbox) + 1] = new
    BY <1>3, <1>4
  <2>2. \A i \in 1..(Len(inbox) + 1) : i \in 1..Len(inbox) \/ i = Len(inbox) + 1
    BY <2>1
  <2>3. inbox' = Append(inbox, new)
    BY <1>2 DEF new
  <2> QED
    BY <2>1, <2>2, <2>3
<1>6. /\ wire' \in [Clients -> Seq(Message)] /\ \A t \in Tuis : wire'[t] = wire[t]
      /\ \A i \in 1..Len(wire'[Cli]) : \E j \in 1..Len(wire[Cli]) : wire'[Cli][i] = wire[Cli][j]
  BY <1>1, CliReads
<1>7. /\ cli' \in [at : {"off", "attaching", "waiting", "done", "failed"}, id : Nat, error : BOOLEAN]
      /\ cli'.id = ids + 1 /\ cli'.at = "waiting"
  <2>1. cli' = [cli EXCEPT !.at = "waiting", !.id = ids + 1] /\ ids + 1 \in Nat
    BY <1>1, <1>3
  <2>2. cli \in [at : {"off", "attaching", "waiting", "done", "failed"}, id : Nat, error : BOOLEAN]
    BY DEF Inv, TypeOK
  <2> QED
    BY <2>1, <2>2
<1>8. TypeOK'
  BY <1>1, <1>3, <1>5, <1>6, <1>7 DEF Inv, TypeOK
<1>9. ClearInv'
  BY <1>1, <1>4, <1>5 DEF Inv, ClearInv
<1>10. \A i \in 1..Len(inbox) : inbox[i].id \in Nat /\ inbox[i].id <= ids /\ ~OfCommand(inbox[i])
  <2>1. \A i \in 1..Len(inbox) : inbox[i] \in Request
    BY <1>3
  <2>2. ~(cli.id > 0)
    BY <1>3
  <2> QED
    BY <2>1, <2>2 DEF Inv, CliInv, Request, TuiCommand, OtherCommand
<1>11. CliInv'
  <2>1. \A i \in 1..Len(inbox') :
          /\ inbox'[i].id <= ids'
          /\ OfCommand(inbox'[i]) => inbox'[i].id = cli'.id /\ cli'.id > 0 /\ outcome = "none"
          /\ inbox'[i].id = cli'.id /\ cli'.id > 0 => OfCommand(inbox'[i])
          /\ OfCommand(inbox'[i]) => i = Len(inbox) + 1
    <3> SUFFICES ASSUME NEW i \in 1..Len(inbox')
                 PROVE  /\ inbox'[i].id <= ids'
                        /\ OfCommand(inbox'[i]) => inbox'[i].id = cli'.id /\ cli'.id > 0 /\ outcome = "none"
                        /\ inbox'[i].id = cli'.id /\ cli'.id > 0 => OfCommand(inbox'[i])
                        /\ OfCommand(inbox'[i]) => i = Len(inbox) + 1
      OBVIOUS
    <3>1. CASE i \in 1..Len(inbox) /\ inbox'[i] = inbox[i]
      BY <1>1, <1>3, <1>7, <1>10, <3>1
    <3>2. CASE i = Len(inbox) + 1 /\ inbox'[i] = new
      BY <1>1, <1>3, <1>4, <1>7, <3>2
    <3> QED
      BY <1>5, <3>1, <3>2
  <2>2. \A i \in 1..Len(wire'[Cli]) : wire'[Cli][i] # Gone => wire'[Cli][i].re <= ids' /\ wire'[Cli][i].re # cli'.id
    <3> SUFFICES ASSUME NEW i \in 1..Len(wire'[Cli]), wire'[Cli][i] # Gone
                 PROVE  wire'[Cli][i].re <= ids' /\ wire'[Cli][i].re # cli'.id
      OBVIOUS
    <3>1. PICK j \in 1..Len(wire[Cli]) : wire'[Cli][i] = wire[Cli][j]
      BY <1>6
    <3>2. wire[Cli] \in Seq(Message)
      BY DEF Inv, TypeOK, Clients
    <3>3. wire[Cli][j] \in SnapshotType
      BY <3>1, <3>2 DEF Message
    <3>4. wire[Cli][j].re \in Nat /\ wire[Cli][j].re <= ids
      BY <3>1, <3>3 DEF SnapshotType, Inv, CliInv
    <3> QED
      BY <1>1, <1>3, <1>7, <3>1, <3>4
  <2>3. cli'.id <= ids' /\ cli'.id > 0 /\ cli'.at = "waiting"
    BY <1>1, <1>3, <1>7
  <2> QED
    BY <1>1, <1>3, <2>1, <2>2, <2>3 DEF CliInv, CommandReportsItsOutcome
<1>12. \A t \in Tuis : WireInv(t)' /\ AgreeInv(t)'
  BY <1>1, <1>5, <1>6, CliStepKeeps
<1> QED
  BY <1>1, <1>8, <1>9, <1>11, <1>12 DEF Inv, ErrorIsDrawnBeforeCleared

\* Only the answer to its request ends the command.
LEMMA ReadResponseKeeps ==
    ASSUME ConstantsOK, Inv, ReadResponse
    PROVE  Inv' /\ ErrorIsDrawnBeforeCleared
<1> DEFINE s == Head(wire[Cli])
<1>1. /\ cli.at = "waiting" /\ wire[Cli] # <<>> /\ wire' = [wire EXCEPT ![Cli] = Tail(@)]
      /\ UNCHANGED <<daemon, inbox, tui, left, ids, outcome, drawn>>
      /\ \/ cli' = [cli EXCEPT !.at = "failed"]
         \/ s # Gone /\ s.re = cli.id /\ cli' = [cli EXCEPT !.at = "done", !.error = s.error]
         \/ cli' = cli
  BY DEF ReadResponse, Answers
<1>2. /\ wire' \in [Clients -> Seq(Message)] /\ \A t \in Tuis : wire'[t] = wire[t]
      /\ 1 \in 1..Len(wire[Cli]) /\ s = wire[Cli][1] /\ s \in Message
      /\ \A i \in 1..Len(wire'[Cli]) : \E j \in 1..Len(wire[Cli]) : wire'[Cli][i] = wire[Cli][j]
  BY <1>1, CliReads
<1> HIDE DEF s
<1>3. s # Gone => s.error \in BOOLEAN
  BY <1>2 DEF Message, SnapshotType
<1>4. /\ cli \in [at : {"off", "attaching", "waiting", "done", "failed"}, id : Nat, error : BOOLEAN]
      /\ cli.id > 0
  BY <1>1 DEF Inv, TypeOK, CliInv
<1>5. /\ cli' \in [at : {"off", "attaching", "waiting", "done", "failed"}, id : Nat, error : BOOLEAN]
      /\ cli'.id = cli.id
      /\ cli'.at \in {"failed", "waiting"} \/ (s # Gone /\ s.re = cli.id /\ cli'.error = s.error)
      /\ cli'.at \notin {"off", "attaching"}
  BY <1>1, <1>3, <1>4
<1>6. TypeOK' /\ ClearInv'
  BY <1>1, <1>2, <1>5 DEF Inv, TypeOK, ClearInv
<1>7. CommandReportsItsOutcome'
  BY <1>1, <1>2, <1>4, <1>5 DEF Inv, CliInv, CommandReportsItsOutcome
<1>8. \A i \in 1..Len(wire'[Cli]) :
        wire'[Cli][i] # Gone =>
           /\ wire'[Cli][i].re <= ids
           /\ wire'[Cli][i].re = cli.id /\ cli.id > 0 =>
                outcome = IF wire'[Cli][i].error THEN "failing" ELSE "connect"
  BY <1>2 DEF Inv, CliInv
<1>9. CliInv'
  BY <1>1, <1>4, <1>5, <1>7, <1>8 DEF Inv, CliInv
<1>10. \A t \in Tuis : WireInv(t)' /\ AgreeInv(t)'
  BY <1>1, <1>2, CliStepKeeps
<1> QED
  BY <1>1, <1>6, <1>9, <1>10 DEF Inv, ErrorIsDrawnBeforeCleared

\* A command that gives up reports no outcome.
LEMMA CliTimeoutKeeps ==
    ASSUME Inv, CliTimeout
    PROVE  Inv' /\ ErrorIsDrawnBeforeCleared
<1>1. /\ cli' = [cli EXCEPT !.at = "failed"]
      /\ UNCHANGED <<daemon, inbox, wire, tui, left, ids, outcome, drawn>>
  BY DEF CliTimeout
<1>2. /\ cli' \in [at : {"off", "attaching", "waiting", "done", "failed"}, id : Nat, error : BOOLEAN]
      /\ cli'.id = cli.id /\ cli'.at = "failed"
  BY <1>1 DEF Inv, TypeOK
<1>3. TypeOK' /\ ClearInv'
  BY <1>1, <1>2 DEF Inv, TypeOK, ClearInv
<1>4. CliInv'
  BY <1>1, <1>2 DEF Inv, CliInv, CommandReportsItsOutcome
<1>5. \A t \in Tuis : WireInv(t)' /\ AgreeInv(t)'
  BY <1>1, CliStepKeeps
<1> QED
  BY <1>1, <1>3, <1>4, <1>5 DEF Inv, ErrorIsDrawnBeforeCleared

-----------------------------------------------------------------------------
\* At the start nobody is linked.
LEMMA StartsRight == ASSUME Init PROVE Inv
<1>1. /\ daemon = NewDaemon /\ inbox = <<>> /\ wire = [c \in Clients |-> <<>>]
      /\ tui = [t \in Tuis |-> NewTui] /\ cli = [at |-> "off", id |-> NoId, error |-> FALSE]
      /\ ids = 0 /\ outcome = "none" /\ drawn = {}
  BY DEF Init
<1>2. daemon \in Daemon /\ daemon.clients = {} /\ daemon.events = {}
  BY <1>1 DEF NewDaemon, Daemon, Panes, Overlays
<1>3. TuiShape(NewTui)
  BY DEF NewTui, TuiShape, Panes, Overlays, None
<1>4. DOMAIN tui = Tuis /\ \A t \in Tuis : TuiShape(tui[t])
  BY <1>1, <1>3
<1>5. wire \in [Clients -> Seq(Message)] /\ inbox \in Seq(Request)
  BY <1>1
<1>6. TypeOK
  BY <1>1, <1>2, <1>4, <1>5 DEF TypeOK, NoId
<1>7. Len(inbox) = 0 /\ Len(wire[Cli]) = 0
  BY <1>1 DEF Clients
<1>8. ClearInv /\ CliInv
  BY <1>1, <1>7 DEF ClearInv, CliInv, NoId, CommandReportsItsOutcome
<1>9. \A t \in Tuis : ~Linked(t)
  BY <1>2 DEF Linked
<1> QED
  BY <1>2, <1>6, <1>8, <1>9 DEF Inv, WireInv, AgreeInv

\* A step that changes nothing keeps the invariant.
LEMMA StutterKeeps == ASSUME Inv, UNCHANGED vars PROVE Inv'
<1>1. UNCHANGED <<daemon, inbox, wire, tui, cli, ids, outcome, drawn>>
  BY DEF vars
<1>2. TypeOK' /\ ClearInv' /\ CliInv'
  BY <1>1 DEF Inv, TypeOK, ClearInv, CliInv, CommandReportsItsOutcome
<1>3. \A t \in Tuis : WireInv(t)' /\ AgreeInv(t)'
  BY <1>1, CliStepKeeps
<1> QED
  BY <1>1, <1>2, <1>3 DEF Inv

\* Every step keeps the invariant, and clears no error that was not drawn.
LEMMA StepKeeps ==
    ASSUME ConstantsOK, Inv, Next
    PROVE  Inv' /\ ErrorIsDrawnBeforeCleared
<1>1. TypeOK
  BY DEF Inv
<1>2. ASSUME NEW t \in Tuis, NEW v, NEW sent, TuiStep(t, v, sent)
      PROVE  ErrorIsDrawnBeforeCleared
  BY <1>2 DEF TuiStep, ErrorIsDrawnBeforeCleared
<1>3. ASSUME NEW t \in Tuis,
             Focus(t) \/ Wheel(t) \/ Key(t) \/ Resize(t) \/ ReportError(t) \/ Tick(t)
      PROVE  Inv' /\ ErrorIsDrawnBeforeCleared
  <2>1. PICK w, sent : TuiStep(t, w, sent) /\ Same(tui[t], w) /\ UNCHANGED wire
    BY <1>1, <1>3, UserSteps
  <2> QED
    BY <1>2, <2>1, TuiStepKeeps
<1>4. ASSUME NEW t \in Tuis, FirstSnapshot(t) \/ ApplyStateUpdate(t)
      PROVE  Inv' /\ ErrorIsDrawnBeforeCleared
  <2>1. /\ wire[t] # <<>> /\ wire' = [wire EXCEPT ![t] = Tail(@)]
        /\ \E v, sent : TuiStep(t, v, sent) /\ (Linked(t) => Applied(t, v, sent))
    BY <1>1, <1>4, FirstSnapshotFacts, ApplyStateUpdateFacts
  <2>2. PICK v, sent : TuiStep(t, v, sent) /\ (Linked(t) => Applied(t, v, sent))
    BY <2>1
  <2> QED
    BY <1>2, <2>1, <2>2, TuiStepKeeps
<1>5. CASE HandleCommand
  BY <1>5, HandleCommandKeeps
<1>6. CASE OwnStatus
  BY <1>6, OwnStatusKeeps
<1>7. CASE Restart
  BY <1>7, RestartKeeps
<1>8. CASE RunCli \/ SendCommand \/ ReadResponse \/ CliTimeout
  BY <1>8, RunCliKeeps, SendCommandKeeps, ReadResponseKeeps, CliTimeoutKeeps
<1> QED
  BY <1>3, <1>4, <1>5, <1>6, <1>7, <1>8, OpenKeeps, ReattachKeeps DEF Next

\* Of the invariant and nothing under way, a TUI shows what the daemon has.
LEMMA InvIsSafe == Inv => TuisAgree /\ CommandReportsItsOutcome
<1> SUFFICES ASSUME Inv PROVE TuisAgree /\ CommandReportsItsOutcome
  OBVIOUS
<1>1. CommandReportsItsOutcome
  BY DEF Inv, CliInv
<1>2. ASSUME NEW t \in Tuis, Quiet(t)
      PROVE  /\ tui[t].overlay = daemon.overlay /\ tui[t].focus = daemon.focus
             /\ tui[t].pending = None
             /\ daemon.sent = daemon.rev =>
                 \A e \in daemon.events : e.rev > tui[t].since => e.rev \in tui[t].shown
  <2>1. /\ tui[t].at = "on" /\ Linked(t) /\ wire[t] = <<>> /\ inbox = <<>>
        /\ Len(wire[t]) = 0 /\ Len(inbox) = 0
    BY <1>2 DEF Quiet
  <2>2. AgreeInv(t) /\ ~Awaited(t)
    BY <2>1 DEF Inv, Awaited
  <2>3. /\ tui[t].pending = None /\ tui[t].focus = daemon.focus /\ tui[t].overlay = daemon.overlay
        /\ tui[t].seen = daemon.sent /\ Shown(tui[t], daemon)
    BY <2>1, <2>2 DEF AgreeInv
  <2> QED
    BY <2>3 DEF Inv, Shown
<1> QED
  BY <1>1, <1>2 DEF TuisAgree

\* For any number of TUIs, however they connect, drop and come back: the TUIs
\* that have read everything show the daemon's state, a command of the command
\* line reports its own outcome, and an error is cleared only once it was drawn.
THEOREM ClientsFollowTheDaemon ==
    ASSUME ConstantsOK
    PROVE  Spec => /\ [](TuisAgree /\ CommandReportsItsOutcome)
                   /\ [][ErrorIsDrawnBeforeCleared]_vars
<1>1. Inv /\ [Next]_vars => Inv' /\ [ErrorIsDrawnBeforeCleared]_vars
  BY StepKeeps, StutterKeeps
<1>2. Init => Inv
  BY StartsRight
<1> QED
  BY <1>1, <1>2, InvIsSafe, PTL DEF Spec
=============================================================================
