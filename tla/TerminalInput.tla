--------------------------- MODULE TerminalInput ---------------------------
(***************************************************************************)
(* The keyboard of a client (tui_client/input.rs,                          *)
(* tui_client/handler/key/editor.rs).  A reader thread takes bytes from    *)
(* the terminal in reads that end anywhere, decodes them into keys, mouse  *)
(* events and pastes, and hands these to the main loop.  When the main     *)
(* loop runs an external editor it asks the thread, through two flags, to  *)
(* stay away from the terminal; the editor then reads the same bytes.      *)
(*                                                                         *)
(* The terminal writes what one key, click or paste sends (a unit) at      *)
(* once.  A byte stands for the characters that the decoder tells apart.   *)
(***************************************************************************)
EXTENDS Naturals, Sequences, SequencesExt

CONSTANT MaxUnits  \* units on their way at a time

PASTE_START == <<"ESC", "[", "200", "~">>
PASTE_END == <<"ESC", "[", "201", "~">>

\* What the terminal may send, and what it means.
Units == <<
    [bytes |-> <<"x">>, event |-> "x"],
    [bytes |-> <<"ESC">>, event |-> "Esc"],
    [bytes |-> <<"ESC", "x">>, event |-> "Alt-x"],
    [bytes |-> <<"ESC", "O", "A">>, event |-> "Up"],
    [bytes |-> <<"ESC", "[", "97", "u">>, event |-> "a"],
    [bytes |-> <<"ESC", "[", "97", "~">>, event |-> "Discard"],
    [bytes |-> <<"ESC", "[", "<0", "M">>, event |-> "Mouse"],
    [bytes |-> <<"0xc3", "0xa9">>, event |-> "e acute"],
    [bytes |-> PASTE_START \o <<"x", "ESC", "O", "A">> \o PASTE_END, event |-> "Paste"]>>

LoneEscape == 2

VARIABLES
    wire,     \* bytes that nobody has read: a unit and a place in it each
    pending,  \* Decoder.pending
    enabled,  \* reading_enabled
    paused,   \* paused
    reader,   \* where the reader thread is
    main,     \* where the main loop is
    got,      \* what the last drain took off: [event, from]
    whole     \* no pause timed out, or was answered by the flag of an earlier one

vars == <<wire, pending, enabled, paused, reader, main, got, whole>>

Tagged(u) == [i \in DOMAIN Units[u].bytes |-> [unit |-> u, at |-> i]]
Text(bytes) == [i \in DOMAIN bytes |-> Units[bytes[i].unit].bytes[bytes[i].at]]
-----------------------------------------------------------------------------
Event(e, used) == [event |-> e, used |-> used]
Discard(used) == Event("Discard", used)
Incomplete == Event("none", 0)

ParseUtf8(text, modifier, prefix) ==
    LET at == prefix + 1 IN
    CASE Len(text) < at -> Incomplete
      [] text[at] = "0xa9" -> Discard(at)
      [] text[at] = "0xc3" /\ Len(text) = at -> Incomplete
      [] text[at] = "0xc3" /\ text[at + 1] = "0xa9" ->
            Event(modifier \o "e acute", at + 1)
      [] text[at] = "0xc3" -> Discard(at + 1)
      [] OTHER -> Event(modifier \o text[at], at)

ParsePaste(text) ==
    LET ends == {i \in 1..(Len(text) - 3) : SubSeq(text, i, i + 3) = PASTE_END} IN
    IF ends = {} THEN Incomplete
    ELSE Event("Paste", (CHOOSE i \in ends : \A j \in ends : i <= j) + 3)

ParseSs3(text) ==
    CASE Len(text) < 3 -> Incomplete
      [] text[3] = "A" -> Event("Up", 3)
      [] OTHER -> Discard(3)

\* parse_csi_u, apply_us_modifiers: the character that a key reports.
ParseCsiU(parameters, used) ==
    IF parameters = <<"97">> THEN Event("a", used) ELSE Discard(used)

ParseSgrMouse(parameters, used) ==
    IF parameters = <<"<0">> THEN Event("Mouse", used) ELSE Discard(used)

ParseCsi(text) ==
    LET Final == {"[", "~", "A", "M", "O", "u", "x"}
        ends == {i \in 3..Len(text) : text[i] \in Final}
        end == CHOOSE i \in ends : \A j \in ends : i <= j
        parameters == SubSeq(text, 3, end - 1) IN
    CASE ends = {} -> Incomplete
      [] text[end] = "M" -> ParseSgrMouse(parameters, end)
      [] text[end] = "u" -> ParseCsiU(parameters, end)
      [] text[end] = "A" -> Event("Up", end)
      [] OTHER -> Discard(end)

\* Seeded fault: an escape that waited too long is the Esc key, whatever follows.
ParseEscape_Expired(text, expired) ==
    CASE expired -> Event("Esc", 1)
      [] Len(text) = 1 -> Incomplete
      [] IsPrefix(text, PASTE_START) -> Incomplete
      [] IsPrefix(PASTE_START, text) -> ParsePaste(text)
      [] text[2] = "[" -> ParseCsi(text)
      [] text[2] = "O" -> ParseSs3(text)
      [] OTHER -> ParseUtf8(text, "Alt-", 1)

ParseEscape(text, expired) ==
    CASE Len(text) = 1 -> IF expired THEN Event("Esc", 1) ELSE Incomplete
      [] Len(text) > 1 /\ IsPrefix(text, PASTE_START) -> Incomplete
      [] IsPrefix(PASTE_START, text) -> ParsePaste(text)
      [] text[2] = "[" -> ParseCsi(text)
      [] text[2] = "O" -> ParseSs3(text)
      [] OTHER -> ParseUtf8(text, "Alt-", 1)

ParseOne(text, expired) ==
    CASE text = <<>> -> Incomplete
      [] text # <<>> /\ Head(text) = "ESC" -> ParseEscape(text, expired)
      [] OTHER -> ParseUtf8(text, "", 0)

\* Decoder::drain: the timer of an escape restarts after each event.
RECURSIVE Drain(_, _)
Drain(bytes, expired) ==
    LET one == ParseOne(Text(bytes), expired) IN
    IF one = Incomplete THEN [events |-> <<>>, left |-> bytes]
    ELSE LET rest == Drain(SubSeq(bytes, one.used + 1, Len(bytes)), FALSE) IN
         [events |-> <<[event |-> one.event, from |-> SubSeq(bytes, 1, one.used)]>>
                        \o rest.events,
          left |-> rest.left]

Drained(bytes, expired) ==
    LET d == Drain(bytes, expired) IN pending' = d.left /\ got' = d.events
-----------------------------------------------------------------------------
Init ==
    /\ wire = <<>> /\ pending = <<>> /\ got = <<>> /\ whole = TRUE
    /\ enabled = TRUE /\ paused = FALSE
    /\ reader = "check" /\ main = "idle"

\* The user types, clicks or pastes; nothing follows a lone escape at once,
\* or it is another key.
Type ==
    /\ whole
    /\ Len(SelectSeq(wire \o pending, LAMBDA b : b.at = 1)) < MaxUnits
    /\ \A b \in Range(wire \o pending) : b.unit # LoneEscape
    /\ \E u \in DOMAIN Units : wire' = wire \o Tagged(u)
    /\ UNCHANGED <<pending, enabled, paused, reader, main, got, whole>>

\* The reader thread.
Check ==
    /\ reader = "check"
    /\ reader' = IF enabled THEN "clearing" ELSE "pausing"
    /\ got' = <<>>
    /\ UNCHANGED <<wire, pending, enabled, paused, main, whole>>

\* Seeded fault: the decoder goes on where it was after the pause.
Pausing_KeepsDecoder ==
    /\ reader = "pausing"
    /\ paused' = TRUE
    /\ reader' = "check"
    /\ UNCHANGED <<wire, pending, enabled, main, got, whole>>

Pausing ==
    /\ reader = "pausing"
    /\ pending' = <<>>
    /\ paused' = TRUE
    /\ reader' = "check"
    /\ UNCHANGED <<wire, enabled, main, got, whole>>

Clearing ==
    /\ reader = "clearing"
    /\ paused' = FALSE
    /\ reader' = "poll"
    /\ UNCHANGED <<wire, pending, enabled, main, got, whole>>

\* The terminal has bytes: a read takes some of them.
Read ==
    /\ reader = "poll" /\ wire # <<>>
    /\ \E n \in 1..Len(wire), expired \in BOOLEAN :
        /\ pending = <<>> => ~expired
        /\ Drained(pending \o SubSeq(wire, 1, n), expired)
        /\ wire' = SubSeq(wire, n + 1, Len(wire))
    /\ reader' = "check"
    /\ UNCHANGED <<enabled, paused, main, whole>>

\* The poll ends without bytes, after more than the time of an escape.
PollEnds ==
    /\ reader = "poll" /\ wire = <<>>
    /\ Drained(pending, TRUE)
    /\ reader' = "check"
    /\ UNCHANGED <<wire, enabled, paused, main, whole>>

\* The poll or the read is interrupted, or the terminal is gone.
PollFails ==
    /\ reader = "poll"
    /\ reader' \in {"check", "gone"}
    /\ UNCHANGED <<wire, pending, enabled, paused, main, got, whole>>

\* EventReaderControl::pause
Pause ==
    /\ main = "idle"
    /\ enabled' = FALSE
    /\ main' = "waiting"
    /\ UNCHANGED <<wire, pending, paused, reader, got, whole>>

\* The thread that is about to clear the flag of the last pause still reads once.
Paused ==
    /\ main = "waiting" /\ paused
    /\ main' = "leaving"
    /\ whole' = (whole /\ reader # "clearing")
    /\ UNCHANGED <<wire, pending, enabled, paused, reader, got>>

\* The thread may have dropped half of a unit, and reads on after resume.
PauseTimesOut ==
    /\ main = "waiting" /\ ~paused
    /\ enabled' = TRUE
    /\ main' = "idle"
    /\ whole' = FALSE
    /\ UNCHANGED <<wire, pending, paused, reader, got>>

\* discard_pending_input
LeaveTerminal ==
    /\ main = "leaving"
    /\ wire' = <<>>
    /\ main' = "editor"
    /\ UNCHANGED <<pending, enabled, paused, reader, got, whole>>

EditorReads ==
    /\ main = "editor" /\ wire # <<>>
    /\ wire' = <<>>
    /\ UNCHANGED <<pending, enabled, paused, reader, main, got, whole>>

RestoreTerminal ==
    /\ main = "editor"
    /\ wire' = <<>>
    /\ enabled' = TRUE
    /\ main' = "idle"
    /\ UNCHANGED <<pending, paused, reader, got, whole>>

Next ==
    \/ Type \/ Check \/ Pausing \/ Clearing \/ Read \/ PollEnds \/ PollFails
    \/ Pause \/ Paused \/ PauseTimesOut \/ LeaveTerminal \/ EditorReads
    \/ RestoreTerminal

Spec == Init /\ [][Next]_vars
-----------------------------------------------------------------------------
(***************************************************************************)
(* However the reads cut the bytes, and whatever editor sessions come      *)
(* between, what the thread hands to the main loop is what was typed, unit *)
(* by unit: pasted text is never taken for keys, nor the end of a sequence *)
(* whose start a pause dropped.  The exceptions are a pause that timed out *)
(* and one that took the flag of the pause before for its answer.          *)
(***************************************************************************)
DecodedAsTyped ==
    whole => \A g \in Range(got) :
        \E u \in DOMAIN Units : g = [event |-> Units[u].event, from |-> Tagged(u)]
=============================================================================
