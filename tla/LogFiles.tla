------------------------------ MODULE LogFiles ------------------------------
(***************************************************************************)
(* The two log files and the tailer that shows them in the TUI             *)
(* (services/log_tailer.rs).  app.log is appended to by the daemon and by  *)
(* the TUI, a line in several writes (writeln! on an unbuffered file);     *)
(* sing-box writes whole lines, some without a time.  The daemon replaces  *)
(* a file by its last lines when it starts, and sing-box.log also at a     *)
(* reconnect.  The TUI reads the lines of the daemon's session when it     *)
(* opens, and what is new on every tick.                                   *)
(*                                                                         *)
(* A line is two chunks, its time and the rest with the newline, and a     *)
(* position in a file counts chunks.                                       *)
(***************************************************************************)
EXTENDS Integers, Sequences, SequencesExt, FiniteSetsExt

CONSTANTS
    Retention,      \* lines a file keeps when it is trimmed
    HistoryLimit,   \* MAX_LOG_LINES: lines read when the TUI opens
    MaxLines,       \* lines written in a behaviour
    MaxTrims        \* times the files are trimmed in a behaviour

VARIABLES
    files,          \* file -> its chunks
    rest,           \* writer of app.log -> what it has yet to write of a line
    lines,          \* lines written so far; the time of the next one
    trims,          \* times the files were trimmed
    zone,           \* whether local time is ahead of or behind UTC
    offsets,        \* log_session_offsets: the files when the daemon started
    pos,            \* LogTailer::files: file -> where the tailer is
    opened,         \* file -> pos when the TUI opened
    intact,         \* no file was trimmed since the TUI opened
    reader,         \* what the tailer is doing
    shown           \* chunks in the order the log pane got them

vars == <<files, rest, lines, trims, zone, offsets, pos, opened, intact, reader, shown>>

Files == {"app", "sb"}
Writers == {"daemon", "tui"}
Nothing == <<>>

writers == <<rest, lines, trims, zone, offsets>>

Chunk(f, part, time) == [file |-> f, line |-> lines, part |-> part, time |-> time]
Unstamped == 0

-----------------------------------------------------------------------------
(* Writing.                                                                *)

\* append_app_log: the time is written, then the message and the newline.
AppendStart(w) ==
    /\ lines < MaxLines /\ rest[w] = Nothing
    /\ w = "tui" => reader.step # "closed"
    /\ files' = [files EXCEPT !.app = Append(@, Chunk("app", "head", lines + 1))]
    /\ rest' = [rest EXCEPT ![w] = <<Chunk("app", "tail", lines + 1)>>]
    /\ lines' = lines + 1
    /\ UNCHANGED <<trims, zone, offsets, pos, opened, intact, reader, shown>>

AppendEnd(w) ==
    /\ rest[w] # Nothing
    /\ files' = [files EXCEPT !.app = @ \o rest[w]]
    /\ rest' = [rest EXCEPT ![w] = Nothing]
    /\ UNCHANGED <<lines, trims, zone, offsets, pos, opened, intact, reader, shown>>

\* sing-box; the lines of a panic have no time.
SingBoxWrites(time) ==
    /\ lines < MaxLines
    /\ files' = [files EXCEPT !.sb = @ \o <<Chunk("sb", "head", time), Chunk("sb", "tail", time)>>]
    /\ lines' = lines + 1
    /\ UNCHANGED <<rest, trims, zone, offsets, pos, opened, intact, reader, shown>>

\* The lines from a position on: an unfinished last one too.
LinesFrom(data, start) ==
    LET ends == {i \in (start + 1)..Len(data) : data[i].part = "tail" \/ i = Len(data)}
        begins == {start + 1} \cup {i + 1 : i \in ends} IN
    [n \in 1..Cardinality(ends) |->
        LET e == CHOOSE i \in ends : Cardinality({j \in ends : j <= i}) = n
            b == Max({i \in begins : i <= e}) IN
        SubSeq(data, b, e)]

LastLines(ls, limit) == SubSeq(ls, Max({1, Len(ls) - limit + 1}), Len(ls))

\* prune_log_to_lines: an atomic replacement by the last lines, if there are more.
Pruned(f) ==
    LET ls == LinesFrom(files[f], 0) IN
    IF Len(ls) <= Retention THEN files[f] ELSE FlattenSeq(LastLines(ls, Retention))

\* Replacing app.log cuts off who is writing a line to it: the rest goes to the
\* file that is gone.  A tailer that has a replaced file open reads on in it.
Trim(fs) ==
    LET after == [f \in Files |-> IF f \in fs THEN Pruned(f) ELSE files[f]]
        gone(f) == after[f] # files[f] IN
    /\ files' = after
    /\ rest' = IF gone("app") THEN [w \in Writers |-> Nothing] ELSE rest
    /\ intact' = (intact /\ \A f \in Files : ~gone(f))
    /\ reader' = IF reader.step = "read" /\ gone(reader.file) /\ reader.kept = Nothing
                   THEN [reader EXCEPT !.kept = files[reader.file]] ELSE reader
    /\ trims < MaxTrims /\ trims' = trims + 1

\* The daemon starts; a TUI that runs on is not told the new offsets.
DaemonStarts ==
    /\ Trim(Files)
    /\ offsets' = [f \in Files |-> Len(files'[f])]
    /\ UNCHANGED <<lines, zone, pos, opened, shown>>

\* A connect worker, between stopping the old sing-box and starting the new.
ReconnectTrims ==
    /\ Trim({"sb"})
    /\ UNCHANGED <<lines, zone, offsets, pos, opened, shown>>

-----------------------------------------------------------------------------
(* Reading.  Both files are read one after the other, then shown sorted.   *)

Reader(step, mode, f, len, batch) ==
    [step |-> step, mode |-> mode, file |-> f, len |-> len, batch |-> batch, kept |-> Nothing]

Closed == Reader("closed", "", "app", 0, <<>>)
Idle == Reader("idle", "", "app", 0, <<>>)

OpenTui ==
    /\ reader = Closed
    /\ intact' = TRUE
    /\ reader' = Reader("open", "history", "app", 0, <<>>)
    /\ UNCHANGED <<files, writers, pos, opened, shown>>

Tick ==
    /\ reader = Idle
    /\ reader' = Reader("open", "tail", "app", 0, <<>>)
    /\ UNCHANGED <<files, writers, pos, opened, intact, shown>>

\* The file is opened and its length read: a shorter one is read from its start.
OpenFile ==
    /\ reader.step = "open"
    /\ LET f == reader.file
           len == Len(files[f]) IN
       /\ pos' = [pos EXCEPT ![f] =
                     CASE reader.mode = "tail"   -> IF @ > len THEN 0 ELSE @
                       [] offsets[f] <= len      -> offsets[f]
                       [] OTHER                  -> 0]
       /\ reader' = [reader EXCEPT !.step = "read", !.len = len]
    /\ UNCHANGED <<files, writers, opened, intact, shown>>

\* Seeded fault: the tailer goes on from the length it read before the lines.
EndOfRead_Length(data) == reader.len

\* A tick reads to the end of the file, the history to the length it read.
EndOfRead(data) == IF reader.mode = "tail" THEN Len(data) ELSE reader.len

ReadFile ==
    /\ reader.step = "read"
    /\ LET f == reader.file
           whole == IF reader.kept = Nothing THEN files[f] ELSE reader.kept
           data == IF reader.mode = "tail" THEN whole ELSE SubSeq(whole, 1, reader.len)
           new == LinesFrom(data, pos[f])
           batch == reader.batch \o
                    (IF reader.mode = "tail" THEN new ELSE LastLines(new, HistoryLimit)) IN
       /\ pos' = [pos EXCEPT ![f] = EndOfRead(data)]
       /\ opened' = IF reader.mode = "history" THEN [opened EXCEPT ![f] = pos'[f]] ELSE opened
       /\ reader' = IF f = "app" THEN Reader("open", reader.mode, "sb", 0, batch)
                    ELSE Reader("show", reader.mode, f, 0, batch)
    /\ UNCHANGED <<files, writers, intact, shown>>

\* A line that does not begin with a time sorts by the local time read as UTC:
\* after every line of the batch, or before, by the zone.
SortKey(line) ==
    IF line[1].part = "head" /\ line[1].time # Unstamped THEN line[1].time
    ELSE IF zone = "east" THEN MaxLines + 1 ELSE 0

Sorted(batch) ==
    LET Before(i, j) == \/ SortKey(batch[i]) < SortKey(batch[j])
                        \/ SortKey(batch[i]) = SortKey(batch[j]) /\ i < j
        order == SetToSortSeq(DOMAIN batch, Before) IN
    [n \in DOMAIN batch |-> batch[order[n]]]

Show ==
    /\ reader.step = "show"
    /\ LET ls == Sorted(reader.batch) IN
       shown' = shown \o FlattenSeq(IF reader.mode = "tail" THEN ls
                                    ELSE LastLines(ls, HistoryLimit))
    /\ reader' = Idle
    /\ UNCHANGED <<files, writers, pos, opened, intact>>

-----------------------------------------------------------------------------
Init ==
    /\ files = [f \in Files |-> <<>>]
    /\ rest = [w \in Writers |-> Nothing]
    /\ lines = 0 /\ trims = 0
    /\ zone \in {"east", "west"}
    /\ offsets = [f \in Files |-> 0]
    /\ pos = [f \in Files |-> 0] /\ opened = [f \in Files |-> 0]
    /\ intact = TRUE
    /\ reader = Closed
    /\ shown = <<>>

Next ==
    \/ \E w \in Writers : AppendStart(w) \/ AppendEnd(w)
    \/ \E time \in {Unstamped, lines + 1} : SingBoxWrites(time)
    \/ DaemonStarts \/ ReconnectTrims
    \/ OpenTui \/ Tick \/ OpenFile \/ ReadFile \/ Show

Spec == Init /\ [][Next]_vars

-----------------------------------------------------------------------------
(* Properties.                                                             *)

TimesShown(c) == Cardinality({i \in DOMAIN shown : shown[i] = c})

\* While no file is trimmed under it, the tailer shows all that was written
\* since the TUI opened once, whatever is written while it reads, and nothing of
\* the history again.
NewLinesShownOnce ==
    reader = Idle /\ intact =>
        \A f \in Files : \A i \in DOMAIN files[f] :
            LET n == TimesShown(files[f][i]) IN
            /\ n <= 1
            /\ i \in (opened[f] + 1)..pos[f] => n = 1
=============================================================================
