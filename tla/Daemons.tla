------------------------------- MODULE Daemons -------------------------------
(***************************************************************************)
(* Daemon processes and the clients that start, replace and lose them      *)
(* (daemon.rs, runtime_lock.rs, ipc.rs, main.rs, tui_client.rs, cli.rs,    *)
(* services/waybar.rs, Model::new).                                        *)
(*                                                                         *)
(* A daemon holds the instance lock for its whole life, stops the sing-box *)
(* that state.json names, binds the socket, serves, and on exit stops its  *)
(* tunnel and removes the socket.  A crash (SIGKILL) frees the lock and    *)
(* leaves the socket file, state.json and sing-box behind.  A client of    *)
(* another version asks the daemon to quit and starts its own; a client    *)
(* that loses its daemon attaches to the next one or becomes it.           *)
(* The tunnel of a daemon is ConnectionLifecycle's, reduced to the process *)
(* and to what state.json says of it.                                      *)
(***************************************************************************)
EXTENDS Naturals, FiniteSets

CONSTANTS
    Procs,      \* processes that may become a daemon
    Clients,    \* terminals
    Versions,   \* versions of the program
    Installed,  \* the one systemd starts
    Bounds      \* events per behaviour: [launch, user, crash, fault]

NoOne == 0

VARIABLES
    proc,       \* the daemon processes
    lock,       \* the holder of the runtime lock
    socket,     \* [exists, owner]: the socket file and who listens behind it
    state,      \* the pid in state.json
    sing,       \* live sing-box processes: [by, recorded, given]
    client,     \* the terminals
    auto,       \* settings.auto_connect, with a last connected profile
    count,
    bound

files == <<lock, socket, state>>
vars == <<proc, files, sing, client, auto, count, bound>>

NoProc == [phase |-> "none", version |-> Installed, link |-> "Idle", quit |-> FALSE]
NoClient == [pc |-> "off", version |-> Installed, conn |-> NoOne, attempt |-> 0,
             remembered |-> FALSE, again |-> FALSE]

Spends(event) ==
    /\ count[event] < bound[event]
    /\ count' = [count EXCEPT ![event] = @ + 1]
    /\ UNCHANGED bound
Free == UNCHANGED <<count, bound>>

Alive(d) == proc[d].phase \notin {"none", "exited", "crashed"}
Serves(d) == proc[d].phase = "serving"

\* is_daemon_running: the socket file leads to a process that listens.
Running == socket.exists /\ Alive(socket.owner)

-----------------------------------------------------------------------------
(* The life of a daemon.                                                   *)

\* start_daemon, start_current_daemon, spawn_daemon_process: the process
\* exists; the starter does not wait for it here.
Fresh == {d \in Procs : proc[d].phase = "none"}
Spawned(v) == \E d \in Fresh :
    /\ \A e \in Fresh : d <= e
    /\ proc' = [proc EXCEPT ![d] = [NoProc EXCEPT !.phase = "locking", !.version = v]]

\* Seeded fault: a daemon starts while another one is still stopping.
AcquireLock_Free(d) ==
    /\ proc[d].phase = "locking"
    /\ \A e \in Procs : ~Serves(e)
    /\ lock' = d
    /\ proc' = [proc EXCEPT ![d].phase = "recovering"]
    /\ Free /\ UNCHANGED <<socket, state, sing, client, auto>>

\* RuntimeLock::try_acquire_within
AcquireLock(d) ==
    /\ proc[d].phase = "locking"
    /\ lock = NoOne
    /\ lock' = d
    /\ proc' = [proc EXCEPT ![d].phase = "recovering"]
    /\ Free /\ UNCHANGED <<socket, state, sing, client, auto>>

\* "kvn daemon is already running", after PREVIOUS_DAEMON_EXIT_TIMEOUT.
LockTimeout(d) ==
    /\ proc[d].phase = "locking"
    /\ lock /= NoOne
    /\ proc' = [proc EXCEPT ![d].phase = "exited"]
    /\ Free /\ UNCHANGED <<files, sing, client, auto>>

\* resolve_startup_state, unless a stale tunnel could not be stopped.
StartupLink(cleaned) == IF auto /\ cleaned THEN "Pending" ELSE "Idle"

\* is_singbox_alive: a live process of that pid with the name of sing-box.
SingBoxAlive(pid) == \E s \in sing : s.pid = pid

\* Seeded fault: state.json is cleared and the process it names left running.
Recovered_Forgets == [sing |-> sing, state |-> 0]

\* cleanup_stale_session and clear_state
Recovered == [sing |-> {s \in sing : s.pid /= state}, state |-> 0]

\* Model::new.  The stale process may be one it may not signal or that does
\* not stop: then state.json stays and nothing is connected.
Recover(d, cleaned) ==
    /\ proc[d].phase = "recovering"
    /\ proc' = [proc EXCEPT ![d].phase = "binding", ![d].link = StartupLink(cleaned)]
    /\ IF cleaned
       THEN /\ sing' = Recovered.sing
            /\ state' = Recovered.state
            /\ Free
       ELSE /\ SingBoxAlive(state)
            /\ sing' = {IF s.pid = state THEN [s EXCEPT !.given = TRUE] ELSE s : s \in sing}
            /\ Spends("fault")
            /\ UNCHANGED state
    /\ UNCHANGED <<lock, socket, client, auto>>

\* IpcServer::bind: a live socket ends the start.
CheckSocket(d) ==
    /\ proc[d].phase = "binding"
    /\ proc' = [proc EXCEPT ![d].phase = IF Running THEN "exited" ELSE "claiming"]
    /\ lock' = IF Running THEN NoOne ELSE lock
    /\ Free /\ UNCHANGED <<socket, state, sing, client, auto>>

\* A stale socket was found or none: the path is removed and bound.
Bind(d) ==
    /\ proc[d].phase = "claiming"
    /\ proc' = [proc EXCEPT ![d].phase = "serving"]
    /\ socket' = [exists |-> TRUE, owner |-> d]
    /\ Free /\ UNCHANGED <<lock, state, sing, client, auto>>

-----------------------------------------------------------------------------
(* The tunnel of the daemon that serves.                                   *)

Pids == 1..(Cardinality(Procs) + 1)
FreePids == Pids \ ({s.pid : s \in sing} \cup {state})
NewPid == CHOOSE p \in FreePids : TRUE
Process(pid, d) == [pid |-> pid, by |-> d, recorded |-> FALSE, given |-> FALSE]

\* The connect worker: what was retired is stopped first, then sing-box starts.
TunnelStarts(d) ==
    /\ Serves(d)
    /\ proc[d].link = "Pending"
    /\ FreePids # {}
    /\ sing' = {s \in sing : s.by /= d} \cup {Process(NewPid, d)}
    /\ proc' = [proc EXCEPT ![d].link = "Started"]
    /\ Free /\ UNCHANGED <<files, client, auto>>

\* Msg::Connected: on_connected has the pid written to state.json.
TunnelRecorded(d) ==
    /\ Serves(d)
    /\ proc[d].link = "Started"
    /\ \E s \in sing : s.by = d /\ state' = s.pid
    /\ sing' = {IF s.by = d THEN [s EXCEPT !.recorded = TRUE] ELSE s : s \in sing}
    /\ proc' = [proc EXCEPT ![d].link = "Connected"]
    /\ Free /\ UNCHANGED <<lock, socket, client, auto>>

\* Msg::ConnectFailed, or sing-box exits: state.json is written in both.
TunnelEnds(d) ==
    /\ Serves(d)
    /\ proc[d].link \in {"Pending", "Connected"}
    /\ sing' = {s \in sing : s.by /= d}
    /\ state' = 0
    /\ proc' = [proc EXCEPT ![d].link = "Idle"]
    /\ Spends("fault")
    /\ UNCHANGED <<lock, socket, client, auto>>

\* Disconnect: state.json is written at once, the process stopped by a thread.
Disconnect(d) ==
    /\ Serves(d)
    /\ proc[d].link = "Connected"
    /\ proc' = [proc EXCEPT ![d].link = "Idle"]
    /\ state' = 0
    /\ sing' = {IF s.by = d THEN [s EXCEPT !.recorded = FALSE] ELSE s : s \in sing}
    /\ Spends("user")
    /\ UNCHANGED <<lock, socket, client, auto>>

StopRetired(d) ==
    /\ Serves(d)
    /\ proc[d].link = "Idle"
    /\ \E s \in sing : s.by = d
    /\ sing' = {s \in sing : s.by /= d}
    /\ Free /\ UNCHANGED <<proc, files, client, auto>>

-----------------------------------------------------------------------------
(* The end of a daemon.                                                    *)

\* The loop ends without an answer; connections wait until the process ends.
HandleQuit(d) ==
    /\ Serves(d)
    /\ proc[d].quit
    /\ proc' = [proc EXCEPT ![d].phase = "stopping"]
    /\ Free /\ UNCHANGED <<files, sing, client, auto>>

\* The end of run: the coordinator is taken, the tunnel retired and stopped,
\* the kill switch exceptions revoked.
StopTunnel(d) ==
    /\ proc[d].phase = "stopping"
    /\ sing' = {s \in sing : s.by /= d}
    /\ proc' = [proc EXCEPT ![d].phase = "unbinding", ![d].link = "Idle"]
    /\ Free /\ UNCHANGED <<files, client, auto>>

\* cleanup_socket removes the path, whoever listens behind it.
RemoveSocket(d) ==
    /\ proc[d].phase = "unbinding"
    /\ socket' = [exists |-> FALSE, owner |-> NoOne]
    /\ proc' = [proc EXCEPT ![d].phase = "leaving"]
    /\ Free /\ UNCHANGED <<lock, state, sing, client, auto>>

\* The lock is dropped last.
Exit(d) ==
    /\ proc[d].phase = "leaving"
    /\ proc' = [proc EXCEPT ![d].phase = "exited"]
    /\ lock' = IF lock = d THEN NoOne ELSE lock
    /\ Free /\ UNCHANGED <<socket, state, sing, client, auto>>

Crash(d) ==
    /\ Alive(d)
    /\ proc' = [proc EXCEPT ![d].phase = "crashed"]
    /\ lock' = IF lock = d THEN NoOne ELSE lock
    /\ Spends("crash")
    /\ UNCHANGED <<socket, state, sing, client, auto>>

\* SIGTERM and SIGINT send Quit to the loop.
Signal(d) ==
    /\ Serves(d)
    /\ ~proc[d].quit
    /\ proc' = [proc EXCEPT ![d].quit = TRUE]
    /\ Spends("user")
    /\ UNCHANGED <<files, sing, client, auto>>

DaemonStep(d) ==
    \/ AcquireLock(d) \/ LockTimeout(d) \/ (\E b \in BOOLEAN : Recover(d, b)) \/ CheckSocket(d) \/ Bind(d)
    \/ TunnelStarts(d) \/ TunnelRecorded(d) \/ TunnelEnds(d) \/ Disconnect(d) \/ StopRetired(d)
    \/ HandleQuit(d) \/ StopTunnel(d) \/ RemoveSocket(d) \/ Exit(d) \/ Crash(d) \/ Signal(d)

-----------------------------------------------------------------------------
(* Clients.                                                                *)

Goes(c, pc) == client' = [client EXCEPT ![c].pc = pc]
Still == UNCHANGED <<proc, files, sing, auto>>

Launch(c, v) ==
    /\ client[c].pc = "off"
    /\ client' = [client EXCEPT ![c] = [NoClient EXCEPT !.pc = "probe", !.version = v]]
    /\ Spends("launch")
    /\ Still

\* main: a daemon is started when none answers.  When the process cannot be
\* started the client ends.
Probe(c) ==
    /\ client[c].pc = "probe"
    /\ \/ /\ Running
          /\ Goes(c, "attach")
          /\ UNCHANGED proc
       \/ /\ ~Running
          /\ \E v \in {client[c].version, Installed} : Spawned(v)
          /\ Goes(c, "wait")
       \/ /\ ~Running
          /\ Fresh = {}
          /\ Goes(c, "gone")
          /\ UNCHANGED proc
    /\ Free /\ UNCHANGED <<files, sing, auto>>

\* wait_for_daemon
WaitUp(c) ==
    /\ client[c].pc = "wait"
    /\ Goes(c, IF Running THEN "attach" ELSE "gone")
    /\ Free /\ Still

\* IpcClient::connect and Attach
Attach(c) ==
    /\ client[c].pc = "attach"
    /\ client' = [client EXCEPT ![c].pc = IF Running THEN "read" ELSE "gone",
                                ![c].conn = IF Running THEN socket.owner ELSE NoOne]
    /\ Free /\ Still

Compatible(c) == proc[client[c].conn].version = client[c].version

\* reconnect_profile_from_snapshot
Remembers(c) == proc[client[c].conn].link = "Connected"

\* connect_to_current_daemon after the snapshot of its daemon.
ReadSnapshot(c) ==
    LET d == client[c].conn IN
    /\ client[c].pc = "read" /\ ~client[c].again
    /\ Serves(d)
    /\ \/ /\ Compatible(c)
          /\ client' = [client EXCEPT ![c].pc = "up", ![c].remembered = FALSE]
          /\ proc' = IF proc[d].link = "Idle" /\ client[c].remembered
                     THEN [proc EXCEPT ![d].link = "Pending"] ELSE proc
       \/ /\ ~Compatible(c) /\ client[c].attempt = 0
          /\ client' = [client EXCEPT ![c].pc = "quit", ![c].remembered = Remembers(c)]
          /\ UNCHANGED proc
       \/ /\ ~Compatible(c) /\ client[c].attempt = 1
          /\ Goes(c, "gone")
          /\ UNCHANGED proc
    /\ Free /\ UNCHANGED <<files, sing, auto>>

\* The daemon closes the connection, or does not answer in two seconds.
ReadFails(c) ==
    /\ client[c].pc = "read"
    /\ ~Serves(client[c].conn)
    /\ Goes(c, "gone")
    /\ Free /\ Still

\* Seeded fault: Quit goes to whoever listens now.
QuitTarget_Socket(c) == socket.owner

\* Quit goes over the connection the snapshot came from.
QuitTarget(c) == client[c].conn

QuitOutdated(c) ==
    LET d == QuitTarget(c) IN
    /\ client[c].pc = "quit"
    /\ IF d /= NoOne /\ Alive(d)
       THEN /\ proc' = [proc EXCEPT ![d].quit = TRUE]
            /\ Goes(c, "waitexit")
       ELSE /\ Goes(c, "gone")
            /\ UNCHANGED proc
    /\ Free /\ UNCHANGED <<files, sing, auto>>

\* wait_for_daemon_exit, then start_current_daemon; or "outdated daemon did
\* not stop within 5s".
WaitExit(c) ==
    /\ client[c].pc = "waitexit"
    /\ \/ /\ ~Running
          /\ Spawned(client[c].version)
          /\ client' = [client EXCEPT ![c].pc = "wait", ![c].attempt = 1, ![c].conn = NoOne]
       \/ /\ Running \/ Fresh = {}
          /\ Goes(c, "gone")
          /\ UNCHANGED proc
    /\ Free /\ UNCHANGED <<files, sing, auto>>

\* The reader ends with the daemon's process, or when the daemon drops a
\* client that does not read (BROADCAST_WRITE_TIMEOUT).
Lose(c) ==
    /\ client[c].pc = "up"
    /\ client' = [client EXCEPT ![c].pc = "lost", ![c].conn = NoOne]
    /\ IF Alive(client[c].conn) THEN Spends("fault") ELSE Free
    /\ Still

\* reattach: another daemon, of the same version or of the client's next one.
Reattach(c) ==
    /\ client[c].pc = "lost"
    /\ client' = [client EXCEPT ![c].pc = IF Running THEN "read" ELSE "gone",
                                ![c].again = TRUE,
                                ![c].conn = IF Running THEN socket.owner ELSE NoOne]
    /\ Free /\ Still

\* Reattached, or relaunched as the daemon's executable.
Reattached(c) ==
    LET d == client[c].conn IN
    /\ client[c].pc = "read" /\ client[c].again
    /\ Serves(d)
    /\ client' = [client EXCEPT ![c] =
           IF Compatible(c) THEN [@ EXCEPT !.pc = "up", !.again = FALSE]
           ELSE [NoClient EXCEPT !.pc = "probe", !.version = proc[d].version]]
    /\ Free /\ Still

\* q detaches; Ctrl+C also asks the daemon to quit.
Leave(c, quits) ==
    LET d == client[c].conn IN
    /\ client[c].pc = "up"
    /\ Goes(c, "gone")
    /\ proc' = IF quits /\ Alive(d) THEN [proc EXCEPT ![d].quit = TRUE] ELSE proc
    /\ Spends("user")
    /\ UNCHANGED <<files, sing, auto>>

ClientStep(c) ==
    \/ Probe(c) \/ WaitUp(c) \/ Attach(c) \/ ReadSnapshot(c) \/ ReadFails(c)
    \/ QuitOutdated(c) \/ WaitExit(c) \/ Lose(c) \/ Reattach(c) \/ Reattached(c)
    \/ \E q \in BOOLEAN : Leave(c, q)

Init ==
    /\ proc = [d \in Procs |-> NoProc]
    /\ lock = NoOne
    /\ socket = [exists |-> FALSE, owner |-> NoOne]
    /\ state = 0
    /\ sing = {}
    /\ client = [c \in Clients |-> NoClient]
    /\ auto \in BOOLEAN
    /\ bound \in Bounds
    /\ count = [e \in {"launch", "user", "crash", "fault"} |-> 0]

Next ==
    \/ \E d \in Procs : DaemonStep(d)
    \/ \E c \in Clients : ClientStep(c) \/ \E v \in Versions : Launch(c, v)

Spec == Init /\ [][Next]_vars

-----------------------------------------------------------------------------
(* Properties.                                                             *)

\* A daemon that serves is the one behind the socket, whatever other daemons
\* started, stopped or crashed around it: the instance lock covers the
\* removal of the socket (daemon.rs:36-42, 124).
ServingDaemonIsReachable == \A d \in Procs : Serves(d) => socket = [exists |-> TRUE, owner |-> d]

\* A tunnel that state.json named when its daemon died is stopped by the next
\* daemon before it serves, unless stopping it failed (waybar.rs:76-115).
RecordedTunnelsAreStopped ==
    \A d \in Procs : Serves(d) => \A s \in sing : s.by = d \/ ~s.recorded \/ s.given

\* A client that replaced a connected daemon ends up on one that connects
\* (tui_client.rs:193-264), and only a daemon of another version is asked to
\* quit for it.
ReplacementReconnects ==
    \A c \in Clients :
     /\ client[c].pc = "read" /\ client'[c].pc = "up" /\ client[c].remembered =>
            proc'[client[c].conn].link /= "Idle"
     /\ client[c].pc = "quit" /\ client'[c].pc = "waitexit" =>
            \A d \in Procs : proc'[d].quit /= proc[d].quit => proc[d].version /= client[c].version
=============================================================================
