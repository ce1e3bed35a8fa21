--------------------------- MODULE Daemons_proofs ---------------------------
(***************************************************************************)
(* Why one lock is enough for restarts: the holder of the instance lock is *)
(* the only daemon past its start, so it alone binds and removes the       *)
(* socket, and every tunnel a crashed daemon recorded is the one that      *)
(* state.json names when the next holder reads it.                         *)
(***************************************************************************)
EXTENDS Daemons, TLAPS

\* Process numbers are positive, as pids are, and NoOne is none of them.
ConstantsOK ==
    /\ Procs \subseteq Nat \ {0}
    /\ Installed \in Versions

Phases == {"none", "locking", "recovering", "binding", "claiming", "serving", "stopping",
           "unbinding", "leaving", "exited", "crashed"}
Past == {"binding", "claiming", "serving", "stopping", "unbinding", "leaving"}
Holding == {"recovering"} \cup Past
Listening == {"serving", "stopping", "unbinding"}

TypeOK ==
    /\ proc \in [Procs -> [phase : Phases, version : Versions,
                           link : {"Idle", "Pending", "Started", "Connected"},
                           quit : BOOLEAN]]
    /\ lock \in Procs \cup {NoOne}
    /\ socket \in [exists : BOOLEAN, owner : Procs \cup {NoOne}]
    /\ sing \subseteq [pid : Pids, by : Procs, recorded : BOOLEAN, given : BOOLEAN]
    /\ client \in [Clients -> [pc : {"off", "probe", "wait", "attach", "read", "quit",
                                     "waitexit", "up", "lost", "gone"},
                               version : Versions, conn : Procs \cup {NoOne},
                               attempt : 0 .. 1, remembered : BOOLEAN, again : BOOLEAN]]

\* From the acquisition of the lock to its end a daemon holds it.
LockInv == \A d \in Procs : proc[d].phase \in Holding <=> lock = d

\* The socket file is there exactly while its owner listens, or was left by
\* an owner that crashed.
SocketInv ==
    /\ \A d \in Procs : proc[d].phase \in Listening => socket = [exists |-> TRUE, owner |-> d]
    /\ socket.exists => /\ socket.owner \in Procs
                        /\ proc[socket.owner].phase \in Listening \cup {"crashed"}

\* A daemon starts one tunnel at a time.
OneEach == \A s, r \in sing : s.by = r.by => s = r

\* A tunnel that was recorded, and that no daemon failed to stop, is the one
\* state.json names; past the recovery it is the daemon's own.
RecordedInv ==
    \A s \in sing : s.recorded /\ ~s.given =>
        /\ s.pid = state
        /\ \A d \in Procs : proc[d].phase \in Past => s.by = d

Inv == TypeOK /\ LockInv /\ SocketInv /\ OneEach /\ RecordedInv

\* A client remembers a tunnel only from the quit of an outdated daemon to the
\* next attach, and what it asks to quit is of another version.
ClientInv ==
    \A c \in Clients :
        /\ client[c].pc \in {"up", "lost"} \/ client[c].again => ~client[c].remembered
        /\ client[c].pc \in {"read", "up", "quit"} =>
             client[c].conn \in Procs /\ proc[client[c].conn].phase # "none"
        /\ client[c].pc = "quit" =>
             proc[client[c].conn].version # client[c].version

-----------------------------------------------------------------------------

\* A step that moves the phase of daemon d alone, and says how its other
\* fields change, keeps proc in its type.
LEMMA ProcType ==
    ASSUME TypeOK, NEW d \in Procs, NEW r,
           r \in [phase : Phases, version : Versions,
                  link : {"Idle", "Pending", "Started", "Connected"}, quit : BOOLEAN],
           proc' = [proc EXCEPT ![d] = r]
    PROVE  /\ proc' \in [Procs -> [phase : Phases, version : Versions,
                                   link : {"Idle", "Pending", "Started", "Connected"},
                                   quit : BOOLEAN]]
           /\ proc'[d] = r
           /\ \A e \in Procs : e # d => proc'[e] = proc[e]
BY DEF TypeOK

\* How the phases move when daemon d takes a step.
LEMMA DaemonMoves ==
    ASSUME ConstantsOK, TypeOK, NEW d \in Procs, DaemonStep(d)
    PROVE  /\ TypeOK'
           /\ \A e \in Procs : e # d => proc'[e] = proc[e]
<1> DEFINE R == [phase : Phases, version : Versions,
                 link : {"Idle", "Pending", "Started", "Connected"}, quit : BOOLEAN]
<1>t. proc \in [Procs -> R] /\ proc[d] \in R
  BY DEF TypeOK
<1>1. ASSUME NEW ph \in Phases
      PROVE  [proc[d] EXCEPT !.phase = ph] \in R
  BY <1>t
<1>2. ASSUME NEW ph \in Phases, NEW l \in {"Idle", "Pending", "Started", "Connected"}
      PROVE  [proc[d] EXCEPT !.phase = ph, !.link = l] \in R
  BY <1>t
<1>3. ASSUME NEW l \in {"Idle", "Pending", "Started", "Connected"}
      PROVE  [proc[d] EXCEPT !.link = l] \in R
  BY <1>t
<1>4. [proc[d] EXCEPT !.quit = TRUE] \in R
  BY <1>t
<1>5. proc' \in [Procs -> R] /\ \A e \in Procs : e # d => proc'[e] = proc[e]
  <2>1. CASE AcquireLock(d) \/ LockTimeout(d) \/ CheckSocket(d) \/ Bind(d)
             \/ HandleQuit(d) \/ RemoveSocket(d) \/ Exit(d) \/ Crash(d)
    <3>1. PICK ph \in Phases : proc' = [proc EXCEPT ![d] = [proc[d] EXCEPT !.phase = ph]]
      BY <2>1, <1>t DEF AcquireLock, LockTimeout, CheckSocket, Bind, HandleQuit, RemoveSocket, Exit,
          Crash, Phases
    <3> QED
      BY <3>1, <1>1, <1>t
  <2>2. CASE (\E b \in BOOLEAN : Recover(d, b)) \/ StopTunnel(d)
    <3>1. CASE \E b \in BOOLEAN : Recover(d, b)
      <4>1. PICK b \in BOOLEAN : Recover(d, b)
        BY <3>1
      <4>2. "binding" \in Phases /\ StartupLink(b) \in {"Idle", "Pending", "Started", "Connected"}
        BY DEF Phases, StartupLink
      <4>3. proc' = [proc EXCEPT ![d] = [proc[d] EXCEPT !.phase = "binding",
                                                      !.link = StartupLink(b)]]
        BY <4>1, <1>t DEF Recover
      <4> QED
        BY <4>2, <4>3, <1>2, <1>t
    <3>2. CASE StopTunnel(d)
      <4>1. "unbinding" \in Phases
        BY DEF Phases
      <4>2. proc' = [proc EXCEPT ![d] = [proc[d] EXCEPT !.phase = "unbinding", !.link = "Idle"]]
        BY <3>2, <1>t DEF StopTunnel
      <4> QED
        BY <4>1, <4>2, <1>2, <1>t
    <3> QED
      BY <2>2, <3>1, <3>2
  <2>3. CASE TunnelStarts(d) \/ TunnelRecorded(d) \/ TunnelEnds(d) \/ Disconnect(d)
    <3>1. PICK l \in {"Idle", "Pending", "Started", "Connected"} :
            proc' = [proc EXCEPT ![d] = [proc[d] EXCEPT !.link = l]]
      BY <2>3, <1>t DEF TunnelStarts, TunnelRecorded, TunnelEnds, Disconnect
    <3> QED
      BY <3>1, <1>3, <1>t
  <2>4. CASE Signal(d)
    <3>1. proc' = [proc EXCEPT ![d] = [proc[d] EXCEPT !.quit = TRUE]]
      BY <2>4, <1>t DEF Signal
    <3> QED
      BY <3>1, <1>4, <1>t
  <2>5. CASE StopRetired(d)
    BY <2>5, <1>t DEF StopRetired
  <2> QED
    BY <2>1, <2>2, <2>3, <2>4, <2>5 DEF DaemonStep
<1> DEFINE S == [pid : Pids, by : Procs, recorded : BOOLEAN, given : BOOLEAN]
<1>s. sing \subseteq S
  BY DEF TypeOK
<1>6. sing' \subseteq S
  <2>1. CASE \E b \in BOOLEAN : Recover(d, b)
    <3>1. \A s \in S : [s EXCEPT !.given = TRUE] \in S
      OBVIOUS
    <3>2. \/ sing' \subseteq sing
          \/ sing' = {IF s.pid = state THEN [s EXCEPT !.given = TRUE] ELSE s : s \in sing}
      BY <2>1 DEF Recover, Recovered
    <3> HIDE DEF S
    <3> QED
      BY <3>1, <3>2, <1>s
  <2>2. CASE TunnelStarts(d)
    <3>1. NewPid \in Pids
      BY <2>2 DEF TunnelStarts, NewPid, FreePids
    <3>2. Process(NewPid, d) \in S
      BY <3>1 DEF Process
    <3>3. sing' \subseteq sing \cup {Process(NewPid, d)}
      BY <2>2 DEF TunnelStarts
    <3> HIDE DEF S
    <3> QED
      BY <3>2, <3>3, <1>s
  <2>3. CASE TunnelRecorded(d) \/ Disconnect(d)
    <3>1. \A s \in S, b \in BOOLEAN : [s EXCEPT !.recorded = b] \in S
      OBVIOUS
    <3>2. \E b \in BOOLEAN :
            sing' = {IF s.by = d THEN [s EXCEPT !.recorded = b] ELSE s : s \in sing}
      BY <2>3 DEF TunnelRecorded, Disconnect
    <3> HIDE DEF S
    <3> QED
      BY <3>1, <3>2, <1>s
  <2>4. CASE ~(\E b \in BOOLEAN : Recover(d, b)) /\ ~TunnelStarts(d) /\ ~TunnelRecorded(d)
             /\ ~Disconnect(d)
    <3>1. sing' \subseteq sing
      BY <2>4
      DEF DaemonStep, AcquireLock, LockTimeout, CheckSocket, Bind, TunnelEnds, StopRetired,
          HandleQuit, StopTunnel, RemoveSocket, Exit, Crash, Signal
    <3> QED
      BY <3>1, <1>s
  <2> QED
    BY <2>1, <2>2, <2>3, <2>4
<1>7. /\ lock' \in Procs \cup {NoOne}
      /\ socket' \in [exists : BOOLEAN, owner : Procs \cup {NoOne}]
  <2>1. lock' \in {lock, d, NoOne}
    BY DEF DaemonStep, AcquireLock, LockTimeout, Recover, CheckSocket, Bind, TunnelStarts,
        TunnelRecorded, TunnelEnds, Disconnect, StopRetired, HandleQuit, StopTunnel,
        RemoveSocket, Exit, Crash, Signal, files
  <2>2. \/ socket' = socket
        \/ socket' = [exists |-> TRUE, owner |-> d]
        \/ socket' = [exists |-> FALSE, owner |-> NoOne]
    BY DEF DaemonStep, AcquireLock, LockTimeout, Recover, CheckSocket, Bind, TunnelStarts,
        TunnelRecorded, TunnelEnds, Disconnect, StopRetired, HandleQuit, StopTunnel,
        RemoveSocket, Exit, Crash, Signal, files
  <2>3. lock' \in Procs \cup {NoOne}
    BY <2>1 DEF TypeOK
  <2>4. socket' \in [exists : BOOLEAN, owner : Procs \cup {NoOne}]
    <3>1. /\ [exists |-> TRUE, owner |-> d] \in [exists : BOOLEAN, owner : Procs \cup {NoOne}]
          /\ [exists |-> FALSE, owner |-> NoOne] \in [exists : BOOLEAN, owner : Procs \cup {NoOne}]
      OBVIOUS
    <3>2. socket \in [exists : BOOLEAN, owner : Procs \cup {NoOne}]
      BY DEF TypeOK
    <3> QED
      BY <2>2, <3>1, <3>2, Zenon
  <2> QED
    BY <2>3, <2>4
<1>8. UNCHANGED client
  BY DEF DaemonStep, AcquireLock, LockTimeout, Recover, CheckSocket, Bind, TunnelStarts,
      TunnelRecorded, TunnelEnds, Disconnect, StopRetired, HandleQuit, StopTunnel,
      RemoveSocket, Exit, Crash, Signal
<1> QED
  BY <1>5, <1>6, <1>7, <1>8 DEF TypeOK

\* A daemon's step keeps the lock, the socket and state.json in agreement.
LEMMA DaemonKeeps ==
    ASSUME ConstantsOK, Inv, NEW d \in Procs, DaemonStep(d)
    PROVE  Inv'
<1>t. TypeOK /\ TypeOK' /\ \A e \in Procs : e # d => proc'[e] = proc[e]
  BY DaemonMoves DEF Inv
<1>f. LockInv /\ SocketInv /\ OneEach /\ RecordedInv
  BY DEF Inv
<1>n. NoOne \notin Procs
  BY DEF ConstantsOK, NoOne
<1>p. /\ proc \in [Procs -> [phase : Phases, version : Versions,
                             link : {"Idle", "Pending", "Started", "Connected"},
                             quit : BOOLEAN]]
      /\ proc' \in [Procs -> [phase : Phases, version : Versions,
                              link : {"Idle", "Pending", "Started", "Connected"},
                              quit : BOOLEAN]]
      /\ sing \subseteq [pid : Pids, by : Procs, recorded : BOOLEAN, given : BOOLEAN]
  BY <1>t DEF TypeOK
<1>1. CASE AcquireLock(d)
  <2>1. /\ proc[d].phase = "locking" /\ proc'[d].phase = "recovering"
        /\ lock = NoOne /\ lock' = d /\ UNCHANGED <<socket, state, sing>>
    BY <1>1, <1>p DEF AcquireLock
  <2>2. LockInv' /\ SocketInv'
    BY <2>1, <1>t, <1>f, <1>n DEF LockInv, SocketInv, Holding, Past, Listening
  <2>3. OneEach' /\ RecordedInv'
    BY <2>1, <1>t, <1>f DEF OneEach, RecordedInv, Past
  <2> QED
    BY <2>2, <2>3, <1>t DEF Inv
<1>2. CASE LockTimeout(d) \/ Crash(d)
  <2>1. /\ proc[d].phase \notin {"none", "exited", "crashed"}
        /\ \/ proc[d].phase = "locking" /\ proc'[d].phase = "exited" /\ lock' = lock
           \/ proc'[d].phase = "crashed" /\ lock' = IF lock = d THEN NoOne ELSE lock
        /\ UNCHANGED <<socket, state, sing>>
    BY <1>2, <1>p DEF LockTimeout, Crash, Alive, files
  <2>2. LockInv' /\ SocketInv'
    BY <2>1, <1>t, <1>f, <1>n DEF LockInv, SocketInv, Holding, Past, Listening
  <2>3. OneEach' /\ RecordedInv'
    BY <2>1, <1>t, <1>f DEF OneEach, RecordedInv, Past
  <2> QED
    BY <2>2, <2>3, <1>t DEF Inv
<1>3. CASE \E b \in BOOLEAN : Recover(d, b)
  <2>1. /\ proc[d].phase = "recovering" /\ proc'[d].phase = "binding"
        /\ UNCHANGED <<lock, socket>>
        /\ \/ sing' = {s \in sing : s.pid # state}
           \/ sing' = {IF s.pid = state THEN [s EXCEPT !.given = TRUE] ELSE s : s \in sing}
              /\ UNCHANGED state
    BY <1>3, <1>p DEF Recover, Recovered
  <2>2. LockInv' /\ SocketInv'
    BY <2>1, <1>t, <1>f, <1>n DEF LockInv, SocketInv, Holding, Past, Listening
  <2>3. OneEach'
    <3> SUFFICES ASSUME NEW a \in sing', NEW b \in sing', a.by = b.by PROVE a = b
      BY DEF OneEach
    <3>1. CASE sing' = {s \in sing : s.pid # state}
      BY <3>1, <1>f DEF OneEach
    <3>2. CASE sing' = {IF s.pid = state THEN [s EXCEPT !.given = TRUE] ELSE s : s \in sing}
      <4>1. PICK r \in sing : a = IF r.pid = state THEN [r EXCEPT !.given = TRUE] ELSE r
        BY <3>2
      <4>2. PICK q \in sing : b = IF q.pid = state THEN [q EXCEPT !.given = TRUE] ELSE q
        BY <3>2
      <4>3. r.by = a.by /\ q.by = b.by
        BY <4>1, <4>2, <1>p
      <4>4. r = q
        BY <4>3, <1>f DEF OneEach
      <4> QED
        BY <4>1, <4>2, <4>4
    <3> QED
      BY <2>1, <3>1, <3>2
  <2>4. \A s \in sing' : ~(s.recorded /\ ~s.given)
    BY <2>1, <1>p, <1>f DEF RecordedInv
  <2>5. RecordedInv'
    BY <2>4 DEF RecordedInv
  <2> QED
    BY <2>2, <2>3, <2>5, <1>t DEF Inv
<1>4. CASE CheckSocket(d)
  <2>1. proc[d].phase = "binding" /\ lock = d
    BY <1>4, <1>f DEF CheckSocket, LockInv, Holding, Past
  <2>2. ~Running
    BY <2>1, <1>t, <1>f DEF Running, Alive, SocketInv, LockInv, Listening, Holding, Past
  <2>3. proc'[d].phase = "claiming" /\ UNCHANGED <<lock, socket, state, sing>>
    BY <1>4, <2>2, <1>p DEF CheckSocket
  <2>4. LockInv' /\ SocketInv'
    BY <2>1, <2>3, <1>t, <1>f DEF LockInv, SocketInv, Holding, Past, Listening
  <2>5. OneEach' /\ RecordedInv'
    BY <2>1, <2>3, <1>t, <1>f DEF OneEach, RecordedInv, Past
  <2> QED
    BY <2>4, <2>5, <1>t DEF Inv
<1>5. CASE Bind(d)
  <2>1. /\ proc[d].phase = "claiming" /\ proc'[d].phase = "serving"
        /\ socket' = [exists |-> TRUE, owner |-> d]
        /\ UNCHANGED <<lock, state, sing>>
    BY <1>5, <1>p DEF Bind
  <2>2. lock = d
    BY <2>1, <1>f DEF LockInv, Holding, Past
  <2>3. LockInv' /\ SocketInv'
    BY <2>1, <2>2, <1>t, <1>f DEF LockInv, SocketInv, Holding, Past, Listening
  <2>4. OneEach' /\ RecordedInv'
    BY <2>1, <1>t, <1>f DEF OneEach, RecordedInv, Past
  <2> QED
    BY <2>3, <2>4, <1>t DEF Inv
\* steps of a serving daemon on its tunnel
<1>6. CASE TunnelStarts(d) \/ TunnelRecorded(d) \/ TunnelEnds(d) \/ Disconnect(d)
           \/ StopRetired(d) \/ StopTunnel(d)
  <2>1. /\ proc[d].phase \in {"serving", "stopping"}
        /\ proc'[d].phase = IF proc[d].phase = "serving" THEN "serving" ELSE "unbinding"
        /\ UNCHANGED <<lock, socket>>
    BY <1>6, <1>p DEF TunnelStarts, TunnelRecorded, TunnelEnds, Disconnect, StopRetired, StopTunnel,
        Serves, files
  <2>2. LockInv' /\ SocketInv'
    BY <2>1, <1>t, <1>f DEF LockInv, SocketInv, Holding, Past, Listening
  <2>3. \A s \in sing : s.recorded /\ ~s.given => s.pid = state /\ s.by = d
    BY <2>1, <1>f DEF RecordedInv, Past
  <2>4. ASSUME \A s \in sing' : s.recorded /\ ~s.given => s.pid = state' /\ s.by = d
        PROVE  RecordedInv'
    <3>1. \A e \in Procs : proc'[e].phase \in Past => e = d
      BY <2>1, <1>t, <1>f DEF LockInv, Holding, Past
    <3> QED
      BY <2>4, <3>1 DEF RecordedInv
  <2>5. CASE TunnelStarts(d)
    <3>1. sing' = {s \in sing : s.by # d} \cup {Process(NewPid, d)}
      BY <2>5 DEF TunnelStarts
    <3>2. OneEach'
      <4> SUFFICES ASSUME NEW a \in sing', NEW b \in sing', a.by = b.by PROVE a = b
        BY DEF OneEach
      <4>1. Process(NewPid, d).by = d
        BY DEF Process
      <4>2. \A r \in sing' : r.by = d => r = Process(NewPid, d)
        BY <3>1
      <4>3. \A r \in sing' : r.by # d => r \in sing
        BY <3>1, <4>1
      <4> QED
        BY <4>2, <4>3, <1>f DEF OneEach
    <3>3. \A s \in sing' : ~(s.recorded /\ ~s.given)
      BY <3>1, <2>3 DEF Process
    <3> QED
      BY <2>2, <3>2, <3>3, <2>4, <1>t DEF Inv
  <2>6. CASE TunnelRecorded(d)
    <3>1. sing' = {IF s.by = d THEN [s EXCEPT !.recorded = TRUE] ELSE s : s \in sing}
      BY <2>6 DEF TunnelRecorded
    <3>2. PICK o \in sing : o.by = d /\ state' = o.pid
      BY <2>6 DEF TunnelRecorded
    <3>3. OneEach'
      <4> SUFFICES ASSUME NEW a \in sing', NEW b \in sing', a.by = b.by PROVE a = b
        BY DEF OneEach
      <4>1. PICK r \in sing : a = IF r.by = d THEN [r EXCEPT !.recorded = TRUE] ELSE r
        BY <3>1
      <4>2. PICK q \in sing : b = IF q.by = d THEN [q EXCEPT !.recorded = TRUE] ELSE q
        BY <3>1
      <4>3. r.by = a.by /\ q.by = b.by
        BY <4>1, <4>2, <1>p
      <4>4. r = q
        BY <4>3, <1>f DEF OneEach
      <4> QED
        BY <4>1, <4>2, <4>4
    <3>4. \A s \in sing' : s.recorded /\ ~s.given => s.pid = state' /\ s.by = d
      <4> SUFFICES ASSUME NEW r \in sing,
                          NEW s, s = IF r.by = d THEN [r EXCEPT !.recorded = TRUE] ELSE r,
                          s.recorded, ~s.given
                   PROVE  s.pid = state' /\ s.by = d
        BY <3>1
      <4>1. r.by = d
        BY <2>3
      <4>2. r = o
        BY <4>1, <3>2, <1>f DEF OneEach
      <4> QED
        BY <4>1, <4>2, <3>2, <1>p
    <3> QED
      BY <2>2, <3>3, <3>4, <2>4, <1>t DEF Inv
  <2>7. CASE Disconnect(d)
    <3>1. sing' = {IF s.by = d THEN [s EXCEPT !.recorded = FALSE] ELSE s : s \in sing}
      BY <2>7 DEF Disconnect
    <3>2. OneEach'
      <4> SUFFICES ASSUME NEW a \in sing', NEW b \in sing', a.by = b.by PROVE a = b
        BY DEF OneEach
      <4>1. PICK r \in sing : a = IF r.by = d THEN [r EXCEPT !.recorded = FALSE] ELSE r
        BY <3>1
      <4>2. PICK q \in sing : b = IF q.by = d THEN [q EXCEPT !.recorded = FALSE] ELSE q
        BY <3>1
      <4>3. r.by = a.by /\ q.by = b.by
        BY <4>1, <4>2, <1>p
      <4>4. r = q
        BY <4>3, <1>f DEF OneEach
      <4> QED
        BY <4>1, <4>2, <4>4
    <3>3. \A s \in sing' : ~(s.recorded /\ ~s.given)
      BY <3>1, <2>3, <1>p
    <3> QED
      BY <2>2, <3>2, <3>3, <2>4, <1>t DEF Inv
  <2>8. CASE TunnelEnds(d) \/ StopRetired(d) \/ StopTunnel(d)
    <3>1. sing' = {s \in sing : s.by # d}
      BY <2>8 DEF TunnelEnds, StopRetired, StopTunnel
    <3>2. OneEach'
      <4> SUFFICES ASSUME NEW a \in sing', NEW b \in sing', a.by = b.by PROVE a = b
        BY DEF OneEach
      <4> QED
        BY <3>1, <1>f DEF OneEach
    <3>3. \A s \in sing' : ~(s.recorded /\ ~s.given)
      BY <3>1, <2>3
    <3> QED
      BY <2>2, <3>2, <3>3, <2>4, <1>t DEF Inv
  <2> QED
    BY <1>6, <2>5, <2>6, <2>7, <2>8
<1>7. CASE HandleQuit(d) \/ Signal(d)
  <2>1. /\ proc[d].phase = "serving" /\ proc'[d].phase \in {"serving", "stopping"}
        /\ UNCHANGED <<lock, socket, state, sing>>
    BY <1>7, <1>p DEF HandleQuit, Signal, Serves, files
  <2>2. LockInv' /\ SocketInv'
    BY <2>1, <1>t, <1>f DEF LockInv, SocketInv, Holding, Past, Listening
  <2>3. OneEach' /\ RecordedInv'
    BY <2>1, <1>t, <1>f DEF OneEach, RecordedInv, Past
  <2> QED
    BY <2>2, <2>3, <1>t DEF Inv
<1>8. CASE RemoveSocket(d)
  <2>1. /\ proc[d].phase = "unbinding" /\ proc'[d].phase = "leaving"
        /\ socket' = [exists |-> FALSE, owner |-> NoOne]
        /\ UNCHANGED <<lock, state, sing>>
    BY <1>8, <1>p DEF RemoveSocket
  <2>2. LockInv' /\ SocketInv'
    BY <2>1, <1>t, <1>f DEF LockInv, SocketInv, Holding, Past, Listening
  <2>3. OneEach' /\ RecordedInv'
    BY <2>1, <1>t, <1>f DEF OneEach, RecordedInv, Past
  <2> QED
    BY <2>2, <2>3, <1>t DEF Inv
<1>9. CASE Exit(d)
  <2>1. /\ proc[d].phase = "leaving" /\ proc'[d].phase = "exited"
        /\ lock' = IF lock = d THEN NoOne ELSE lock
        /\ UNCHANGED <<socket, state, sing>>
    BY <1>9, <1>p DEF Exit
  <2>2. LockInv' /\ SocketInv'
    BY <2>1, <1>t, <1>f, <1>n DEF LockInv, SocketInv, Holding, Past, Listening
  <2>3. OneEach' /\ RecordedInv'
    BY <2>1, <1>t, <1>f DEF OneEach, RecordedInv, Past
  <2> QED
    BY <2>2, <2>3, <1>t DEF Inv
<1> QED
  BY <1>1, <1>2, <1>3, <1>4, <1>5, <1>6, <1>7, <1>8, <1>9 DEF DaemonStep

\* What a client's step may do to daemons: start one, ask one to quit, or
\* ask one to connect.
LEMMA ClientMoves ==
    ASSUME ConstantsOK, TypeOK, NEW c \in Clients,
           ClientStep(c) \/ \E v \in Versions : Launch(c, v)
    PROVE  /\ UNCHANGED <<lock, socket, state, sing>>
           /\ proc' \in [Procs -> [phase : Phases, version : Versions,
                                   link : {"Idle", "Pending", "Started", "Connected"},
                                   quit : BOOLEAN]]
           /\ \A d \in Procs :
                /\ \/ proc'[d].phase = proc[d].phase /\ proc'[d].version = proc[d].version
                   \/ proc[d].phase = "none" /\ proc'[d].phase = "locking"
<1> DEFINE R == [phase : Phases, version : Versions,
                 link : {"Idle", "Pending", "Started", "Connected"}, quit : BOOLEAN]
<1>t. proc \in [Procs -> R]
  BY DEF TypeOK
<1>c. client[c].version \in Versions /\ Installed \in Versions
  BY DEF TypeOK, ConstantsOK
<1>1. UNCHANGED <<lock, socket, state, sing>>
  BY DEF ClientStep, Launch, Probe, WaitUp, Attach, ReadSnapshot, ReadFails, QuitOutdated,
      WaitExit, Lose, Reattach, Reattached, Leave, Still, files
<1>2. \/ UNCHANGED proc
      \/ \E v \in Versions : Spawned(v)
      \/ \E d : proc' = [proc EXCEPT ![d].link = "Pending"]
      \/ \E d : proc' = [proc EXCEPT ![d].quit = TRUE]
  BY <1>c DEF ClientStep, Launch, Probe, WaitUp, Attach, ReadSnapshot, ReadFails, QuitOutdated,
      WaitExit, Lose, Reattach, Reattached, Leave, Still
<1>3. CASE \E v \in Versions : Spawned(v)
  <2>1. PICK v \in Versions, d \in Fresh :
          proc' = [proc EXCEPT ![d] = [NoProc EXCEPT !.phase = "locking", !.version = v]]
    BY <1>3 DEF Spawned
  <2> DEFINE r == [NoProc EXCEPT !.phase = "locking", !.version = v]
  <2>2. NoProc \in R
    BY <1>c DEF NoProc, Phases
  <2>3. r \in R /\ r.phase = "locking"
    BY <2>2 DEF Phases
  <2>4. d \in Procs /\ proc[d].phase = "none"
    BY DEF Fresh
  <2> QED
    BY <1>1, <1>t, <2>1, <2>3, <2>4
<1>4. CASE \E d : proc' = [proc EXCEPT ![d].link = "Pending"]
  <2>1. PICK d : proc' = [proc EXCEPT ![d].link = "Pending"]
    BY <1>4
  <2>2. CASE d \in Procs
    <3>1. [proc[d] EXCEPT !.link = "Pending"] \in R
      BY <1>t, <2>2
    <3>2. proc' = [proc EXCEPT ![d] = [proc[d] EXCEPT !.link = "Pending"]]
      BY <2>1
    <3>3. [proc[d] EXCEPT !.link = "Pending"].phase = proc[d].phase
          /\ [proc[d] EXCEPT !.link = "Pending"].version = proc[d].version
      BY <1>t, <2>2
    <3> QED
      BY <1>1, <1>t, <2>2, <3>1, <3>2, <3>3
  <2>3. CASE d \notin Procs
    <3>1. proc' = proc
      BY <1>t, <2>1, <2>3
    <3> QED
      BY <1>1, <1>t, <3>1
  <2> QED
    BY <2>2, <2>3
<1>5. CASE \E d : proc' = [proc EXCEPT ![d].quit = TRUE]
  <2>1. PICK d : proc' = [proc EXCEPT ![d].quit = TRUE]
    BY <1>5
  <2>2. CASE d \in Procs
    <3>1. [proc[d] EXCEPT !.quit = TRUE] \in R
      BY <1>t, <2>2
    <3>2. proc' = [proc EXCEPT ![d] = [proc[d] EXCEPT !.quit = TRUE]]
      BY <2>1
    <3>3. [proc[d] EXCEPT !.quit = TRUE].phase = proc[d].phase
          /\ [proc[d] EXCEPT !.quit = TRUE].version = proc[d].version
      BY <1>t, <2>2
    <3> QED
      BY <1>1, <1>t, <2>2, <3>1, <3>2, <3>3
  <2>3. CASE d \notin Procs
    <3>1. proc' = proc
      BY <1>t, <2>1, <2>3
    <3> QED
      BY <1>1, <1>t, <3>1
  <2> QED
    BY <2>2, <2>3
<1>6. CASE UNCHANGED proc
  BY <1>1, <1>t, <1>6
<1> QED
  BY <1>2, <1>3, <1>4, <1>5, <1>6

\* A client's step leaves its own record in its type.
LEMMA ClientTyped ==
    ASSUME ConstantsOK, TypeOK, ClientInv, NEW c \in Clients,
           ClientStep(c) \/ \E v \in Versions : Launch(c, v)
    PROVE  /\ client' \in [Clients -> [pc : {"off", "probe", "wait", "attach", "read", "quit",
                                             "waitexit", "up", "lost", "gone"},
                                       version : Versions, conn : Procs \cup {NoOne},
                                       attempt : 0 .. 1, remembered : BOOLEAN, again : BOOLEAN]]
           /\ \A e \in Clients : e # c => client'[e] = client[e]
<1> DEFINE R == [pc : {"off", "probe", "wait", "attach", "read", "quit",
                       "waitexit", "up", "lost", "gone"},
                 version : Versions, conn : Procs \cup {NoOne},
                 attempt : 0 .. 1, remembered : BOOLEAN, again : BOOLEAN]
<1>t. client \in [Clients -> R] /\ client[c] \in R
  BY DEF TypeOK
<1>n. NoClient \in R
  BY DEF NoClient, ConstantsOK
<1> SUFFICES \E r \in R : client' = [client EXCEPT ![c] = r]
  BY <1>t
<1>o. socket.owner \in Procs \cup {NoOne}
  BY DEF TypeOK
<1>1. CASE \E v \in Versions : Launch(c, v)
  <2>1. PICK v \in Versions : Launch(c, v)
    BY <1>1
  <2>2. [NoClient EXCEPT !.pc = "probe", !.version = v] \in R
    BY <1>n
  <2> QED
    BY <2>1, <2>2 DEF Launch
<1>2. CASE Probe(c) \/ WaitUp(c) \/ ReadFails(c) \/ QuitOutdated(c) \/ \E q \in BOOLEAN : Leave(c, q)
  <2>1. PICK pc \in {"attach", "wait", "gone", "waitexit"} : client' = [client EXCEPT ![c].pc = pc]
    BY <1>2 DEF Probe, WaitUp, ReadFails, QuitOutdated, Leave, Goes
  <2>2. [client[c] EXCEPT !.pc = pc] \in R
    BY <1>t
  <2> QED
    BY <2>1, <2>2
<1>3. CASE Attach(c) \/ Lose(c)
  <2>1. PICK pc \in {"read", "gone", "lost"}, o \in Procs \cup {NoOne} :
          client' = [client EXCEPT ![c].pc = pc, ![c].conn = o]
    BY <1>3, <1>o DEF Attach, Lose
  <2>2. [client[c] EXCEPT !.pc = pc, !.conn = o] \in R
    BY <1>t
  <2>3. client' = [client EXCEPT ![c] = [client[c] EXCEPT !.pc = pc, !.conn = o]]
    BY <2>1, <1>t
  <2> QED
    BY <2>2, <2>3
<1>4. CASE ReadSnapshot(c)
  <2>1. CASE client' = [client EXCEPT ![c].pc = "gone"]
    <3>1. [client[c] EXCEPT !.pc = "gone"] \in R
      BY <1>t
    <3> QED
      BY <2>1, <3>1
  <2>2. CASE \E pc \in {"up", "quit"}, b \in BOOLEAN :
                 client' = [client EXCEPT ![c].pc = pc, ![c].remembered = b]
    <3>1. PICK pc \in {"up", "quit"}, b \in BOOLEAN :
                 client' = [client EXCEPT ![c].pc = pc, ![c].remembered = b]
      BY <2>2
    <3>2. [client[c] EXCEPT !.pc = pc, !.remembered = b] \in R
      BY <1>t
    <3>3. client' = [client EXCEPT ![c] = [client[c] EXCEPT !.pc = pc, !.remembered = b]]
      BY <3>1, <1>t
    <3> QED
      BY <3>2, <3>3
  <2>3. Remembers(c) \in BOOLEAN
    BY DEF Remembers
  <2> QED
    BY <1>4, <2>1, <2>2, <2>3 DEF ReadSnapshot, Goes
<1>5. CASE WaitExit(c)
  <2>1. CASE client' = [client EXCEPT ![c].pc = "gone"]
    <3>1. [client[c] EXCEPT !.pc = "gone"] \in R
      BY <1>t
    <3> QED
      BY <2>1, <3>1
  <2>2. CASE client' = [client EXCEPT ![c].pc = "wait", ![c].attempt = 1, ![c].conn = NoOne]
    <3>a. 1 \in 0 .. 1
      OBVIOUS
    <3>1. [client[c] EXCEPT !.pc = "wait", !.attempt = 1, !.conn = NoOne] \in R
      BY <1>t, <3>a, Zenon
    <3>2. client' = [client EXCEPT ![c] = [client[c] EXCEPT !.pc = "wait", !.attempt = 1,
                                                           !.conn = NoOne]]
      BY <2>2, <1>t
    <3> QED
      BY <3>1, <3>2
  <2> QED
    BY <1>5, <2>1, <2>2 DEF WaitExit, Goes
<1>6. CASE Reattach(c)
  <2>1. PICK pc \in {"read", "gone"}, o \in Procs \cup {NoOne} :
          client' = [client EXCEPT ![c].pc = pc, ![c].again = TRUE, ![c].conn = o]
    BY <1>6, <1>o DEF Reattach
  <2>2. [client[c] EXCEPT !.pc = pc, !.again = TRUE, !.conn = o] \in R
    BY <1>t
  <2>3. client' = [client EXCEPT ![c] = [client[c] EXCEPT !.pc = pc, !.again = TRUE, !.conn = o]]
    BY <2>1, <1>t
  <2> QED
    BY <2>2, <2>3
<1>7. CASE Reattached(c)
  <2>1. CASE Compatible(c)
    <3>1. [client[c] EXCEPT !.pc = "up", !.again = FALSE] \in R
      BY <1>t
    <3> QED
      BY <1>7, <2>1, <3>1 DEF Reattached
  <2>2. CASE ~Compatible(c)
    <3>1. proc[client[c].conn].version \in Versions
      BY <1>7 DEF Reattached, ClientInv, TypeOK
    <3>2. [NoClient EXCEPT !.pc = "probe", !.version = proc[client[c].conn].version] \in R
      BY <1>n, <3>1
    <3> QED
      BY <1>7, <2>2, <3>2 DEF Reattached
  <2> QED
    BY <2>1, <2>2
<1> QED
  BY <1>1, <1>2, <1>3, <1>4, <1>5, <1>6, <1>7 DEF ClientStep

\* A client's step keeps the lock, the socket and state.json in agreement.
LEMMA ClientKeeps ==
    ASSUME ConstantsOK, Inv, ClientInv, NEW c \in Clients,
           ClientStep(c) \/ \E v \in Versions : Launch(c, v)
    PROVE  Inv'
<1>1. TypeOK /\ LockInv /\ SocketInv /\ OneEach /\ RecordedInv
  BY DEF Inv
<1>2. /\ UNCHANGED <<lock, socket, state, sing>>
      /\ proc' \in [Procs -> [phase : Phases, version : Versions,
                              link : {"Idle", "Pending", "Started", "Connected"},
                              quit : BOOLEAN]]
      /\ \A d \in Procs :
           \/ proc'[d].phase = proc[d].phase
           \/ proc[d].phase = "none" /\ proc'[d].phase = "locking"
  BY <1>1, ClientMoves
<1>3. TypeOK'
  BY <1>1, <1>2, ClientTyped DEF TypeOK
<1>4. LockInv' /\ SocketInv'
  BY <1>1, <1>2 DEF LockInv, SocketInv, Holding, Past, Listening
<1>5. OneEach' /\ RecordedInv'
  BY <1>1, <1>2 DEF OneEach, RecordedInv, Past
<1> QED
  BY <1>3, <1>4, <1>5 DEF Inv

\* A daemon's step leaves every client what it was, and a process that once
\* started keeps its version.
LEMMA DaemonLeavesClients ==
    ASSUME ConstantsOK, Inv, ClientInv, NEW d \in Procs, DaemonStep(d)
    PROVE  ClientInv' /\ UNCHANGED client
<1>1. UNCHANGED client
  BY DEF DaemonStep, AcquireLock, LockTimeout, Recover, CheckSocket, Bind, TunnelStarts,
      TunnelRecorded, TunnelEnds, Disconnect, StopRetired, HandleQuit, StopTunnel,
      RemoveSocket, Exit, Crash, Signal
<1>2. TypeOK /\ \A e \in Procs : e # d => proc'[e] = proc[e]
  BY DaemonMoves DEF Inv
<1>3. proc'[d].version = proc[d].version
  BY <1>2 DEF TypeOK, DaemonStep, AcquireLock, LockTimeout, Recover, CheckSocket, Bind, TunnelStarts,
      TunnelRecorded, TunnelEnds, Disconnect, StopRetired, HandleQuit, StopTunnel,
      RemoveSocket, Exit, Crash, Signal
<1>4. proc'[d].phase # "none"
  BY <1>2 DEF TypeOK, DaemonStep, AcquireLock, LockTimeout, Recover, CheckSocket, Bind, TunnelStarts,
      TunnelRecorded, TunnelEnds, Disconnect, StopRetired, HandleQuit, StopTunnel,
      RemoveSocket, Exit, Crash, Signal, Serves
<1> QED
  BY <1>1, <1>2, <1>3, <1>4 DEF ClientInv

\* What a client remembers, and whom it asks to quit, through its own steps.
LEMMA ClientRemembers ==
    ASSUME ConstantsOK, Inv, ClientInv, NEW c \in Clients,
           ClientStep(c) \/ \E v \in Versions : Launch(c, v)
    PROVE  ClientInv'
<1>t. TypeOK /\ SocketInv
  BY DEF Inv
<1>1. /\ \A e \in Clients : e # c => client'[e] = client[e]
      /\ client \in [Clients -> [pc : {"off", "probe", "wait", "attach", "read", "quit",
                                       "waitexit", "up", "lost", "gone"},
                                 version : Versions, conn : Procs \cup {NoOne},
                                 attempt : 0 .. 1, remembered : BOOLEAN, again : BOOLEAN]]
  BY <1>t, ClientTyped DEF TypeOK
<1>2. \A d \in Procs : proc[d].phase # "none" =>
        proc'[d].phase = proc[d].phase /\ proc'[d].version = proc[d].version
  BY <1>t, ClientMoves
<1>3. Running => socket.owner \in Procs /\ proc[socket.owner].phase # "none"
  BY <1>t DEF Running, SocketInv, Listening
<1> DEFINE Good(e) ==
       /\ client[e].pc \in {"up", "lost"} \/ client[e].again => ~client[e].remembered
       /\ client[e].pc \in {"read", "up", "quit"} =>
            client[e].conn \in Procs /\ proc[client[e].conn].phase # "none"
       /\ client[e].pc = "quit" => proc[client[e].conn].version # client[e].version
<1>g. \A e \in Clients : Good(e)
  BY DEF ClientInv
<1>4. \A e \in Clients : e # c => Good(e)'
  BY <1>1, <1>2, <1>g
<1>5. Good(c)'
  <2>1. CASE \E v \in Versions : Launch(c, v)
    BY <2>1, <1>1 DEF Launch, NoClient
  <2>2. CASE Probe(c) \/ WaitUp(c) \/ ReadFails(c) \/ QuitOutdated(c) \/ WaitExit(c)
             \/ \E q \in BOOLEAN : Leave(c, q)
    <3>1. /\ client'[c].pc \in {"attach", "wait", "gone", "waitexit"}
          /\ client'[c].again = client[c].again /\ client'[c].remembered = client[c].remembered
      BY <2>2, <1>1 DEF Probe, WaitUp, ReadFails, QuitOutdated, WaitExit, Leave, Goes
    <3> QED
      BY <3>1, <1>g
  <2>3. CASE Attach(c)
    BY <2>3, <1>1, <1>2, <1>3, <1>g DEF Attach
  <2>4. CASE ReadSnapshot(c)
    BY <2>4, <1>1, <1>2, <1>g DEF ReadSnapshot, Goes, Compatible
  <2>5. CASE Lose(c)
    BY <2>5, <1>1, <1>g DEF Lose
  <2>6. CASE Reattach(c)
    BY <2>6, <1>1, <1>2, <1>3, <1>g DEF Reattach
  <2>7. CASE Reattached(c)
    BY <2>7, <1>1, <1>2, <1>g DEF Reattached, NoClient
  <2> QED
    BY <2>1, <2>2, <2>3, <2>4, <2>5, <2>6, <2>7 DEF ClientStep
<1> QED
  BY <1>4, <1>5 DEF ClientInv

-----------------------------------------------------------------------------

\* The invariant holds at the start.
LEMMA StartsRight ==
    ASSUME ConstantsOK, Init
    PROVE  Inv /\ ClientInv
BY DEF Init, Inv, ClientInv, ConstantsOK, TypeOK, LockInv, SocketInv, OneEach, RecordedInv,
    NoProc, NoClient, NoOne, Phases, Past, Holding, Listening

\* Every step keeps it.
LEMMA StepKeeps ==
    ASSUME ConstantsOK, Inv, ClientInv, Next
    PROVE  Inv' /\ ClientInv'
<1>1. CASE \E d \in Procs : DaemonStep(d)
  BY <1>1, DaemonKeeps, DaemonLeavesClients
<1>2. CASE \E c \in Clients : ClientStep(c) \/ \E v \in Versions : Launch(c, v)
  BY <1>2, ClientKeeps, ClientRemembers
<1> QED
  BY <1>1, <1>2 DEF Next

\* A step that changes nothing keeps it.
LEMMA StutterKeeps ==
    ASSUME Inv, ClientInv, UNCHANGED vars
    PROVE  Inv' /\ ClientInv'
BY DEF vars, files, Inv, ClientInv, TypeOK, LockInv, SocketInv, OneEach, RecordedInv

\* What a step from a state of the invariant does for a client that replaces
\* its daemon.
LEMMA StepReconnects ==
    ASSUME ConstantsOK, Inv, ClientInv, Next
    PROVE  ReplacementReconnects
<1> SUFFICES ASSUME NEW c \in Clients
             PROVE  /\ client[c].pc = "read" /\ client'[c].pc = "up" /\ client[c].remembered =>
                          proc'[client[c].conn].link # "Idle"
                    /\ client[c].pc = "quit" /\ client'[c].pc = "waitexit" =>
                          \A d \in Procs : proc'[d].quit # proc[d].quit =>
                              proc[d].version # client[c].version
  BY DEF ReplacementReconnects
<1>t. TypeOK /\ proc \in [Procs -> [phase : Phases, version : Versions,
                                    link : {"Idle", "Pending", "Started", "Connected"},
                                    quit : BOOLEAN]]
  BY DEF Inv, TypeOK
<1>c. client \in [Clients -> [pc : {"off", "probe", "wait", "attach", "read", "quit",
                                   "waitexit", "up", "lost", "gone"},
                             version : Versions, conn : Procs \cup {NoOne},
                             attempt : 0 .. 1, remembered : BOOLEAN, again : BOOLEAN]]
  BY <1>t DEF TypeOK
<1>1. CASE \E d \in Procs : DaemonStep(d)
  BY <1>1, DaemonLeavesClients
<1>2. CASE \E e \in Clients : e # c /\ (ClientStep(e) \/ \E v \in Versions : Launch(e, v))
  BY <1>2, <1>t, ClientTyped
<1>3. CASE ClientStep(c) \/ \E v \in Versions : Launch(c, v)
  <2>1. CASE ReadSnapshot(c)
    <3>1. client[c].conn \in Procs /\ client[c].pc = "read"
      BY <2>1 DEF ReadSnapshot, ClientInv
    <3> QED
      BY <2>1, <3>1, <1>t, <1>c DEF ReadSnapshot, Goes
  <2>2. CASE Reattached(c)
    BY <2>2 DEF Reattached, ClientInv
  <2>3. CASE QuitOutdated(c)
    BY <2>3, <1>t, <1>c DEF QuitOutdated, QuitTarget, ClientInv, Goes
  <2>4. CASE ~ReadSnapshot(c) /\ ~Reattached(c) /\ ~QuitOutdated(c)
    <3>1. client[c].pc = "read" => client'[c].pc # "up"
      BY <1>3, <2>4, <1>c DEF ClientStep, Launch, Probe, WaitUp, Attach, ReadFails, WaitExit,
          Lose, Reattach, Leave, Goes
    <3>2. client[c].pc # "quit"
      BY <1>3, <2>4 DEF ClientStep, Launch, Probe, WaitUp, Attach, ReadFails, WaitExit,
          Lose, Reattach, Leave, Goes
    <3> QED
      BY <3>1, <3>2
  <2> QED
    BY <2>1, <2>2, <2>3, <2>4
<1> QED
  BY <1>1, <1>2, <1>3 DEF Next

\* The two promises follow from the invariant.
LEMMA InvIsSafe ==
    ASSUME Inv
    PROVE  ServingDaemonIsReachable /\ RecordedTunnelsAreStopped
<1>1. ServingDaemonIsReachable
  BY DEF Inv, SocketInv, Listening, ServingDaemonIsReachable, Serves
<1>2. RecordedTunnelsAreStopped
  BY DEF Inv, RecordedInv, Past, RecordedTunnelsAreStopped, Serves
<1> QED
  BY <1>1, <1>2

-----------------------------------------------------------------------------

\* The lock, the socket, state.json and the clients' memory agree in every
\* reachable state, for any number of processes, clients and versions.
THEOREM RestartInvariant ==
    ASSUME ConstantsOK
    PROVE  Spec => [](Inv /\ ClientInv)
<1>1. Inv /\ ClientInv /\ [Next]_vars => (Inv /\ ClientInv)'
  BY StepKeeps, StutterKeeps
<1> QED
  BY <1>1, StartsRight, PTL DEF Spec

\* Whatever starts, stops or crashes around it, the daemon that serves is the
\* one behind the socket, and no tunnel that state.json named survives the
\* start of the next daemon unless stopping it failed.
THEOREM RestartsAreSafe ==
    ASSUME ConstantsOK
    PROVE  Spec => [](ServingDaemonIsReachable /\ RecordedTunnelsAreStopped)
BY InvIsSafe, RestartInvariant, PTL

\* A client that made a connected daemon quit ends on one that connects, and
\* asks no daemon of its own version to quit for it.
THEOREM ClientsReconnect ==
    ASSUME ConstantsOK
    PROVE  Spec => [][ReplacementReconnects]_vars
BY StepReconnects, RestartInvariant, PTL DEF Spec
=============================================================================
