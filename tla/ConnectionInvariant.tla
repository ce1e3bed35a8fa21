------------------------ MODULE ConnectionInvariant ------------------------
(***************************************************************************)
(* The inductive invariant of ConnectionLifecycle: why one coordinator     *)
(* mutex, a retired list and an attempt id are enough for one tunnel.      *)
(***************************************************************************)
EXTENDS ConnectionLifecycle

\* Threads between Lock and Unlock, and the main thread once it shuts down,
\* hold the coordinator.
LockInv ==
    /\ \A t \in Threads : pc[t] \notin {"free", "lock"} <=> coordinator = t
    /\ phase \in {"stopping", "exited"} <=> coordinator = Main

\* Handles wait to be stopped only where they are being stopped.
StoppingInv ==
    /\ \A t \in Threads : stopping[t] # {} => pc[t] = "stop"
    /\ stopping[Main] # {} => phase = "stopping"
    /\ phase \in {"stopping", "exited"} => slotHandle = None /\ slotRetired = {}
    /\ phase = "exited" => stopping[Main] = {}

\* No attempt id is ahead of the Model's, until run bumps the slot's.
AttemptInv ==
    /\ LoopRunning => slotAttempt <= attempt
    /\ \A t \in Threads : task[t].attempt <= slotAttempt
    /\ \A t \in Threads : pc[t] # "free" => task[t].kind # "none"
    /\ \A t \in Threads : pc[t] \notin {"free", "lock", "take", "stop", "unlock"}
                              => task[t].kind = "connect"

\* A queued connect is newer than every worker's.
QueuedIsNewest ==
    /\ effect.type = "Connect" => connection = "Connecting"
    /\ connection = "Connecting" /\ LoopRunning =>
         \A t \in Threads : task[t].kind = "connect" => task[t].attempt < attempt

\* No two workers share an attempt id.
DistinctAttempts ==
    \A t, u \in Threads :
        /\ task[t].kind = "connect" /\ task[u].kind = "connect"
        /\ task[t].attempt = task[u].attempt
        => t = u

\* While the current attempt has not installed its process, the slot is
\* empty, and once its worker took the retired list that list stays empty.
CurrentSlotInv ==
    \A t \in Threads :
        /\ task[t].kind = "connect"
        /\ ~Cancelled(t)
        => /\ pc[t] \in {"lock", "take", "stop", "check"} => slotHandle = None
           /\ pc[t] \in {"stop", "check"} => slotRetired = {}

\* A worker past the check has the slot to itself, cancelled or not.
StartingInv ==
    \A t \in Threads :
        pc[t] \in {"start", "spawn", "wait", "failed", "watch", "install", "discard"}
            => slotHandle = None /\ slotRetired = {}

\* Every process, running or not reaped yet, has an owner, and there is one.
ProcessInv ==
    /\ \A p \in Pids : procs[p].state # "free" => Supervised(p)
    /\ \A p, q \in Pids :
         procs[p].state # "free" /\ procs[q].state # "free" => p = q

\* A thread's child is the process of its own attempt.
ChildInv ==
    \A t \in Threads :
        pc[t] \in {"watch", "install", "discard"} =>
            /\ child[t] \in Pids
            /\ procs[child[t]].state # "free"
            /\ procs[child[t]].attempt = task[t].attempt

\* The conjunction is inductive.
IInv ==
    /\ TypeOK
    /\ LockInv
    /\ StoppingInv
    /\ AttemptInv
    /\ QueuedIsNewest
    /\ DistinctAttempts
    /\ CurrentSlotInv
    /\ StartingInv
    /\ ProcessInv
    /\ ChildInv

-----------------------------------------------------------------------------
(* What a report of success is worth: the part of the invariant behind     *)
(* ConnectedTunnelIsInSlot.                                                *)

\* The messages that wait in the channel.
Queued == {channel[i] : i \in 1 .. Len(channel)}

\* The process in the slot has not been reaped, and nobody else will.
SlotInv ==
    slotHandle \in Pids =>
        /\ procs[slotHandle].state # "free"
        /\ slotHandle \notin slotRetired
        /\ \A t \in Threads \cup {Main} : slotHandle \notin stopping[t]

\* A worker starts the profile it was given.
ChildProfileInv ==
    \A t \in Threads :
        pc[t] \in {"watch", "install"} => procs[child[t]].profile = task[t].profile

\* Process `pid` is in the slot and runs `profile`, or its exit is under way.
InService(pid, profile) ==
    \/ /\ pid \in Pids
       /\ slotHandle = pid
       /\ procs[pid].profile = profile
    \/ ExitReported

\* A success that is still to be reported, waits in the channel or has been
\* believed is, while its attempt is the current one, about the process in the
\* slot.  No report is ahead of the slot, and none is left for a queued connect.
ReportInv ==
    LoopRunning =>
        /\ \A m \in Queued : m.type = "Connected" =>
             /\ m.attempt <= slotAttempt
             /\ connection = "Connecting" => m.attempt < attempt
             /\ m.attempt = attempt => InService(m.pid, m.profile)
        /\ \A t \in Threads : pc[t] = "report" /\ task[t].attempt = attempt
             => InService(child[t], task[t].profile)
        /\ connection = "Connected" =>
             slotAttempt = attempt /\ InService(singboxPid, activeProfile)

\* IInv and what it says of reports; inductive as well.
ServiceInv == IInv /\ SlotInv /\ ChildProfileInv /\ ReportInv

-----------------------------------------------------------------------------
(* How connects are decided: the part of the invariant behind              *)
(* ConnectionHasProfile, IdleRunsNoTunnel and TunnelRunsCurrentSettings.   *)

EffectInv == phase = "recv" => effect = NoEffect

\* A pending connect is the one whose id is in the slot.
PendingInv == connection = "ConnectPending" /\ LoopRunning => slotAttempt = attempt

\* Thread t is a connect worker that has not reported yet.
AtWork(t) == task[t].kind = "connect" /\ pc[t] \notin {"free", "unlock"}

\* Message m is the outcome of attempt a.
IsOutcome(m, a) == m.type \in {"Connected", "ConnectFailed"} /\ m.attempt = a

\* The current attempt has one worker or one outcome, and only while it is
\* pending; both are about the profile the Model waits for.
OutcomeInv ==
    LoopRunning =>
        /\ \A t \in Threads : AtWork(t) /\ task[t].attempt = attempt =>
             /\ connection = "ConnectPending"
             /\ task[t].profile = connectingProfile
             /\ \A m \in Queued : ~IsOutcome(m, attempt)
        /\ \A m \in Queued : IsOutcome(m, attempt) =>
             /\ connection = "ConnectPending"
             /\ m.type = "Connected" => m.profile = connectingProfile
        /\ \A i, j \in 1 .. Len(channel) :
             IsOutcome(channel[i], attempt) /\ IsOutcome(channel[j], attempt) => i = j

\* No process is of an attempt that is still queued.
ProcsInv ==
    \A p \in Pids : procs[p].state # "free" =>
        /\ procs[p].attempt <= slotAttempt
        /\ connection = "Connecting" /\ LoopRunning => procs[p].attempt < attempt

\* A worker starts its process with the settings it was given.
ChildSettingsInv ==
    \A t \in Threads :
        pc[t] \in {"watch", "install"} => procs[child[t]].settings = task[t].settings

\* The slot is empty, and no worker will put a process there.
Settled ==
    /\ slotHandle = None
    /\ \A t \in Threads : task[t].kind = "connect" =>
         Cancelled(t) \/ pc[t] \in {"free", "report", "unlock"}

\* Report m that an attempt is over comes when no process is in its hands.
IsOver(m) ==
    LoopRunning =>
        /\ m.attempt <= slotAttempt
        /\ connection = "Connecting" => m.attempt < attempt
        /\ m.attempt = attempt => Settled

FailureInv == \A m \in Queued : m.type = "ConnectFailed" => IsOver(m)

\* ServiceInv and how connects are decided; inductive.
DecidedInv ==
    /\ ServiceInv
    /\ EffectInv
    /\ PendingInv
    /\ OutcomeInv
    /\ ProcsInv
    /\ ChildSettingsInv
    /\ FailureInv

\* Handling message m ends with a save.
Saves(m) ==
    \/ m.type = "Connected" /\ ~IsStale(m)
    \/ m.type \in {"SettingsApplied", "ModeSelected", "DeleteProfile",
                   "SubscriptionFetched"}

\* A save finds profiles.json as the Model knows it: nobody wrote the file
\* since the daemon read or wrote it, and no reload that was read before the
\* daemon's last save was handled after it.
SavesFindTheirFile ==
    phase = "recv" /\ channel # <<>> /\ Saves(Head(channel)) => profiles = disk

\* Until the effect that takes it down, a connection has its profile.
HasProfileInv ==
    LoopRunning /\ effect.type # "Disconnect" => ~ConnectionMissing(profiles)

\* The ticker stamps an exit with the attempt whose process exited.
ExitsAreStamped ==
    exitReport # NoMessage => exitReport.attempt = exitReport.started

ExitInv ==
    \A m \in Queued \cup {exitReport} : m.type = "SingBoxExited" => IsOver(m)

IdleInv == connection = "Idle" /\ LoopRunning => Settled

\* A message or an effect that changes what tunnels are started with also
\* restarts the connection it meets: a routing mode is selected while none is
\* pending, and there is none when routing.json is found invalid, or none up
\* or pending when the new route plan awaits a download.
ChangesRestart ==
    LET m == Head(channel)
        upOrPending == connection \in {"ConnectPending", "Connected"}
    IN /\ phase = "recv" /\ channel # <<>> =>
            /\ m.type = "ModeSelected" => connection # "ConnectPending"
            /\ m.type = "RoutingReloaded" =>
                 IF m.ok THEN upOrPending => m.plan # "awaitsDownload"
                         ELSE connection = "Idle"
       /\ effect.type = "CommitEditedRouting" /\ upOrPending =>
            effect.plan # "awaitsDownload"

\* While routing.json is invalid there is no connection.
RoutingErrorInv == routingError => connection = "Idle"

\* The worker of a pending connect and the process in the slot have the
\* settings of the Model.
SettingsInv ==
    /\ LoopRunning
    /\ effect.type # "Disconnect"
    /\ connection \in {"ConnectPending", "Connected"}
    => /\ slotHandle \in Pids => procs[slotHandle].settings = settings
       /\ \A t \in Threads : AtWork(t) /\ task[t].attempt = attempt =>
            task[t].settings = settings

-----------------------------------------------------------------------------
(* A daemon nobody else disturbs: sing-box does not die by itself, and     *)
(* configurations change through the daemon only.                          *)

OnlyDaemonWrites ==
    /\ DiskEdits = {}
    /\ \A m \in Inputs : m.type # "ConfigReloaded"

NoModeOrRouting ==
    \A m \in Inputs :
        m.type \notin {"ModeSelected", "RoutingReloaded", "ApplyEditedRouting"}

FileInv ==
    /\ profiles = disk
    /\ \A m \in Queued : m.type # "ConfigReloaded"

RoutingInv ==
    /\ \A m \in Queued :
         m.type \notin {"ModeSelected", "RoutingReloaded", "ApplyEditedRouting"}
    /\ effect.type # "CommitEditedRouting"

NoExitInv ==
    /\ exitReport = NoMessage
    /\ \A p \in Pids : procs[p].state # "exited"
=============================================================================
