------------------------- MODULE ConnectionLifecycle -------------------------
(***************************************************************************)
(* The life of the sing-box process under the kvn daemon.                  *)
(*                                                                         *)
(* The daemon's main loop takes one Msg at a time from a FIFO channel,     *)
(* runs `update` on the Model, writes the Model's attempt id into the      *)
(* shared ProcessSlot and then executes the effects update returned.  Each *)
(* of the three is a step here, because connect workers, stopper threads   *)
(* and the ticker run between them.  Workers start sing-box under the      *)
(* coordinator mutex; the ticker reports exits; both answer with messages. *)
(*                                                                         *)
(* Attempt ids are u64 counters in the code and never wrap in practice;    *)
(* here they are naturals, bounded through MaxInputs, MaxExits and         *)
(* MaxLateRuleSet.                                                         *)
(***************************************************************************)
EXTENDS Naturals, Sequences, FiniteSets

CONSTANTS
    Profiles,        \* ids of VPN profiles
    Pids,            \* process ids the kernel hands out
    Threads,         \* connect workers and stopper threads that may coexist
    Main,            \* the main thread
    None,            \* the None of an Option
    Inputs,          \* messages clients, logind and other workers may send
    DiskEdits,       \* profile sets another program may write to profiles.json
    MaxInputs,       \* bound: how many of them arrive
    MaxExits,        \* bound: how often sing-box dies by itself
    MaxLateRuleSet,  \* bound: a skipped rule-set turns up before this attempt
    MaxChannel,      \* bound: an input arrives only in a shorter channel
    MaxQueuedTicks,  \* bound: Ticks waiting in the channel at once
    StartAttempts,   \* CLASH_API_START_ATTEMPTS
    NotReady,        \* the NotReady errors that may occur
    RetryLimit       \* bound: retries a RetryBudget can grant per reason

\* What a new routing.json does to the route plan of the active mode.
Plan == {"same", "changed", "awaitsDownload"}

InputMessage ==
    [type : {"SystemResumed", "Disconnect", "Reconnect", "Toggle", "Quit",
             "SettingsApplied", "ModeSelected", "RuleSetsUpdated"}]
    \cup [type : {"ConnectProfile", "EnterOnProfile", "DeleteProfile"},
          profile : Profiles]
    \cup [type : {"ConfigReloaded", "ApplyEditedConfig", "SubscriptionFetched"},
          profiles : SUBSET Profiles, changed : BOOLEAN]
    \cup [type : {"RoutingReloaded"}, ok : BOOLEAN, plan : Plan]
    \cup [type : {"ApplyEditedRouting"}, plan : Plan]

\* What the ticker reports.
ExitMessage == [type : {"SingBoxExited"}, attempt : Nat, started : Nat]

Message ==
    InputMessage
    \cup [type : {"Tick"}]
    \cup [type : {"Connected"}, attempt : Nat, profile : Profiles \cup {None},
          pid : Pids \cup {None}]
    \cup [type : {"ConnectFailed", "ConnectRetrying"}, attempt : Nat]
    \cup ExitMessage

ASSUME ConstantsAssumption ==
    /\ None \notin Profiles \cup Pids \cup Threads \cup {Main}
    /\ Main \notin Threads
    /\ Inputs \subseteq InputMessage
    /\ DiskEdits \subseteq SUBSET Profiles
    /\ MaxInputs \in Nat /\ MaxExits \in Nat /\ MaxLateRuleSet \in Nat
    /\ MaxChannel \in Nat \ {0}
    /\ MaxQueuedTicks \in Nat \ {0}
    /\ NotReady \subseteq {"BinaryBeingWritten", "TunNotPermitted"}
    /\ StartAttempts \in Nat \ {0}
    /\ RetryLimit \in Nat \ {0}

VARIABLES
    \* Model (only the main loop changes it)
    connection, connectingProfile, activeProfile, singboxPid, attempt,
    profiles, routingError, settings,
    \* the profiles in profiles.json
    disk,
    \* the main loop: where it is and the effect left to execute
    phase, effect,
    \* the Msg channel, and the exit report the ticker has not sent yet
    channel, exitReport,
    \* ProcessSlot and the connect coordinator
    slotAttempt, slotHandle, slotRetired, coordinator,
    \* threads: program counter, task, process being started, handles to
    \* stop, port attempts and retry budget
    pc, task, child, stopping, tried, budget,
    \* the kernel's processes
    procs,
    \* bounds on the environment
    inputs, exits

modelVars == <<connection, connectingProfile, activeProfile, singboxPid, attempt>>
configVars == <<profiles, routingError, settings, disk>>
slotVars == <<slotAttempt, slotHandle, slotRetired>>
threadVars == <<pc, task, child, stopping, tried, budget>>
envVars == <<inputs, exits>>
vars == <<modelVars, configVars, phase, effect, channel, exitReport,
          slotVars, coordinator, threadVars, procs, envVars>>

-----------------------------------------------------------------------------
(* Types.                                                                  *)

NoProc == [state |-> "free", attempt |-> 0, profile |-> None, settings |-> 0]
NoTask == [kind |-> "none", attempt |-> 0, profile |-> None, settings |-> 0]
NoMessage == [type |-> "none"]
NoEffect == [type |-> "none"]
NoBudget == [r \in NotReady |-> 0]

Proc == [state : {"free", "up", "exited"}, attempt : Nat,
         profile : Profiles \cup {None}, settings : Nat]
Task == [kind : {"none", "connect", "stop"}, attempt : Nat,
         profile : Profiles \cup {None}, settings : Nat]
Effect ==
    [type : {"none", "Connect", "Disconnect", "Quit"}]
    \cup [type : {"CommitEditedConfig"},
          profiles : SUBSET Profiles, changed : BOOLEAN]
    \cup [type : {"CommitEditedRouting"}, plan : Plan]

\* Program counters of a thread, in the order the code runs through them.
Steps == {"free", "lock", "take", "stop", "check", "start", "spawn", "watch",
          "wait", "failed", "install", "discard", "report", "unlock"}

ModelTypeOK ==
    /\ connection \in {"Idle", "Connecting", "ConnectPending", "Connected"}
    /\ connectingProfile \in Profiles \cup {None}
    /\ activeProfile \in Profiles \cup {None}
    /\ singboxPid \in Pids \cup {None}
    /\ attempt \in Nat
    /\ profiles \in SUBSET Profiles
    /\ routingError \in BOOLEAN
    /\ settings \in Nat
    /\ disk \in SUBSET Profiles

LoopTypeOK ==
    /\ phase \in {"recv", "sync", "effect", "bump", "drain", "stopping", "exited"}
    /\ effect \in Effect
    /\ channel \in Seq(Message)
    /\ exitReport \in ExitMessage \cup {NoMessage}
    /\ inputs \in 0 .. MaxInputs
    /\ exits \in 0 .. MaxExits

SlotTypeOK ==
    /\ slotAttempt \in Nat
    /\ slotHandle \in Pids \cup {None}
    /\ slotRetired \in SUBSET Pids
    /\ coordinator \in Threads \cup {Main, None}
    /\ procs \in [Pids -> Proc]

ThreadTypeOK ==
    /\ pc \in [Threads -> Steps]
    /\ task \in [Threads -> Task]
    /\ child \in [Threads -> Pids \cup {None}]
    /\ stopping \in [Threads \cup {Main} -> SUBSET Pids]
    /\ tried \in [Threads -> 0 .. StartAttempts]
    /\ budget \in [Threads -> [NotReady -> 0 .. RetryLimit]]

\* Every variable stays in its type; among them the retired list holds only
\* handles and a worker's counters stay within their limits.
TypeOK == ModelTypeOK /\ LoopTypeOK /\ SlotTypeOK /\ ThreadTypeOK

Init ==
    /\ profiles = Profiles
    /\ disk = Profiles
    /\ routingError \in BOOLEAN
    /\ settings = 0
    \* auto-connect queues the last connected profile
    /\ \/ connection = "Idle" /\ connectingProfile = None /\ attempt = 0
       \/ /\ ~routingError
          /\ connection = "Connecting"
          /\ connectingProfile \in Profiles
          /\ attempt = 1
    /\ activeProfile = None
    /\ singboxPid = None
    /\ phase = "recv"
    /\ effect = NoEffect
    /\ channel = <<>>
    /\ exitReport = NoMessage
    /\ slotAttempt = attempt
    /\ slotHandle = None
    /\ slotRetired = {}
    /\ coordinator = None
    /\ pc = [t \in Threads |-> "free"]
    /\ task = [t \in Threads |-> NoTask]
    /\ child = [t \in Threads |-> None]
    /\ stopping = [t \in Threads \cup {Main} |-> {}]
    /\ tried = [t \in Threads |-> 0]
    /\ budget = [t \in Threads |-> NoBudget]
    /\ procs = [p \in Pids |-> NoProc]
    /\ inputs = 0
    /\ exits = 0

-----------------------------------------------------------------------------
(* The channel.  Once run_loop has returned its receiver is gone and a     *)
(* send is an error every sender ignores.                                  *)

LoopRunning == phase \in {"recv", "sync", "effect"}

Send(m) == channel' = IF LoopRunning THEN Append(channel, m) ELSE channel

\* IPC clients, the logind watcher, the signal handler and the workers of
\* other effects put a message on the channel.  The reload worker sends the
\* configuration it has just read.
SendInput ==
    /\ LoopRunning
    /\ inputs < MaxInputs
    /\ Len(channel) < MaxChannel
    /\ \E m \in Inputs :
         /\ m.type = "ConfigReloaded" => m.profiles = disk
         /\ Send(m)
    /\ inputs' = inputs + 1
    /\ UNCHANGED <<modelVars, configVars, phase, effect, exitReport, slotVars,
                   coordinator, threadVars, procs, exits>>

\* An editor or a CLI command rewrites profiles.json behind the daemon.
EditDisk ==
    /\ LoopRunning
    /\ inputs < MaxInputs
    /\ disk' \in DiskEdits
    /\ inputs' = inputs + 1
    /\ UNCHANGED <<modelVars, profiles, routingError, settings, phase, effect,
                   channel, exitReport, slotVars, coordinator, threadVars, procs,
                   exits>>

-----------------------------------------------------------------------------
(* update: one handler per message, run to completion by the main loop.    *)

Receive(type) ==
    /\ phase = "recv"
    /\ channel # <<>>
    /\ Head(channel).type = type
    /\ channel' = Tail(channel)
    /\ phase' = "sync"
    /\ UNCHANGED <<exitReport, slotVars, coordinator, threadVars, procs, envVars>>

Returns(e) == effect' = e

\* Seeded fault: a worker's or the ticker's report is believed unchecked.
IsStale_Never(m) == FALSE

\* The report belongs to an attempt the Model has left behind.
IsStale(m) == m.attempt # attempt

\* queue_connect under configuration P: the tunnel that is up stays up, and
\* stays active, until the Connect effect.
QueueConnect(P, blocked, p) ==
    /\ IF p \in P /\ ~blocked
       THEN /\ connection' = "Connecting"
            /\ connectingProfile' = p
            /\ attempt' = attempt + 1
       ELSE UNCHANGED <<connection, connectingProfile, attempt>>
    /\ UNCHANGED <<activeProfile, singboxPid>>

\* Seeded fault: a pending connect keeps the settings it started with.
ReconnectTarget_LiveOnly == IF connection = "Connected" THEN activeProfile ELSE None

\* The profile reconnect_with_new_settings restarts.
ReconnectTarget ==
    CASE connection = "Connected" -> activeProfile
      [] connection = "ConnectPending" -> connectingProfile
      [] OTHER -> None

\* merge_configs on the set of profile ids: an id survives when both sides
\* kept it or either side added it.
Merge(base, current, edited) ==
    (current \cap edited) \cup ((current \cup edited) \ base)

\* persist_config_changes after an update that edited the profiles to P: a
\* commit replaces the Model's configuration by the merge with the file; a
\* failed one restores the configuration update started from.
Persist(P, saved) ==
    LET merged == Merge(profiles, disk, P) IN
    /\ profiles' = IF saved THEN merged ELSE profiles
    /\ disk' = IF saved THEN merged ELSE disk

ClearConnection ==
    /\ connection' = "Idle"
    /\ connectingProfile' = None
    /\ activeProfile' = None
    /\ singboxPid' = None

OnTick ==
    /\ Receive("Tick")
    /\ IF connection = "Connecting" /\ connectingProfile \notin profiles
       THEN /\ connection' = "Idle"
            /\ connectingProfile' = None
            /\ UNCHANGED <<activeProfile, singboxPid, attempt>>
       ELSE UNCHANGED modelVars
    /\ Returns(IF connection = "Connecting" /\ connectingProfile \in profiles
               THEN [type |-> "Connect"] ELSE NoEffect)
    /\ UNCHANGED configVars

\* The last connected profile is saved when it changed.  A rule-set the
\* tunnel was started without may be on disk by now: then the profile is
\* queued again at once (fetch_skipped_rule_sets).
OnConnected ==
    LET m == Head(channel) IN
    /\ Receive("Connected")
    /\ IF IsStale(m)
       THEN UNCHANGED <<modelVars, profiles, disk>>
       ELSE /\ singboxPid' = m.pid
            /\ activeProfile' = m.profile
            /\ \E saved \in BOOLEAN : Persist(profiles, saved)
            /\ \/ /\ connection' = "Connected"
                  /\ connectingProfile' = None
                  /\ UNCHANGED attempt
               \/ /\ m.profile \in profiles /\ ~routingError
                  /\ attempt < MaxLateRuleSet
                  /\ connection' = "Connecting"
                  /\ connectingProfile' = m.profile
                  /\ attempt' = attempt + 1
    /\ Returns(NoEffect)
    /\ UNCHANGED <<routingError, settings>>

OnConnectFailed ==
    /\ Receive("ConnectFailed")
    /\ IF IsStale(Head(channel))
       THEN UNCHANGED modelVars
       ELSE ClearConnection /\ UNCHANGED attempt
    /\ Returns(NoEffect)
    /\ UNCHANGED configVars

\* Only the status line changes.
OnConnectRetrying ==
    /\ Receive("ConnectRetrying")
    /\ Returns(NoEffect)
    /\ UNCHANGED <<modelVars, configVars>>

OnSingBoxExited ==
    /\ Receive("SingBoxExited")
    /\ IF IsStale(Head(channel))
       THEN UNCHANGED modelVars
       ELSE ClearConnection /\ attempt' = attempt + 1
    /\ Returns(NoEffect)
    /\ UNCHANGED configVars

OnSystemResumed ==
    /\ Receive("SystemResumed")
    /\ QueueConnect(IF connection = "Connected" THEN profiles ELSE {},
                    routingError, activeProfile)
    /\ Returns(NoEffect)
    /\ UNCHANGED configVars

\* `kvn connect`, which also restarts the active profile.
OnConnectProfile ==
    /\ Receive("ConnectProfile")
    /\ QueueConnect(profiles, routingError, Head(channel).profile)
    /\ Returns(NoEffect)
    /\ UNCHANGED configVars

\* Enter on a profile row does nothing when the row is the active profile.
OnEnterOnProfile ==
    /\ Receive("EnterOnProfile")
    /\ QueueConnect(profiles \ {activeProfile}, routingError, Head(channel).profile)
    /\ Returns(NoEffect)
    /\ UNCHANGED configVars

\* `kvn disconnect` and the s key.
OnDisconnect ==
    /\ Receive("Disconnect")
    /\ Returns(IF connection = "Idle" THEN NoEffect ELSE [type |-> "Disconnect"])
    /\ UNCHANGED <<modelVars, configVars>>

\* `kvn reconnect` and the r key.
OnReconnect ==
    /\ Receive("Reconnect")
    /\ QueueConnect(IF connection = "Idle" THEN {} ELSE profiles, routingError,
                    IF connection = "Connected" THEN activeProfile
                                                ELSE connectingProfile)
    /\ Returns(NoEffect)
    /\ UNCHANGED configVars

\* `kvn toggle`.  The last connected profile of the settings is any profile.
OnToggle ==
    /\ Receive("Toggle")
    /\ \E last \in Profiles \cup {None} :
         QueueConnect(IF connection = "Idle" THEN profiles ELSE {},
                      routingError, last)
    /\ Returns(IF connection = "Idle" THEN NoEffect ELSE [type |-> "Disconnect"])
    /\ UNCHANGED configVars

OnQuit ==
    /\ Receive("Quit")
    /\ Returns([type |-> "Quit"])
    /\ UNCHANGED <<modelVars, configVars>>

-----------------------------------------------------------------------------
(* Handlers that change the configuration under the tunnel.                *)

\* DNS and connection settings: saved, and applied by a reconnect that a
\* failed save does not take back.
OnSettingsApplied ==
    /\ Receive("SettingsApplied")
    /\ QueueConnect(profiles, routingError, ReconnectTarget)
    /\ \E saved \in BOOLEAN :
         /\ Persist(profiles, saved)
         /\ settings' = IF saved THEN settings + 1 ELSE settings
    /\ Returns(NoEffect)
    /\ UNCHANGED routingError

\* The routing mode is saved the same way but restarts only a live tunnel.
OnModeSelected ==
    /\ Receive("ModeSelected")
    /\ QueueConnect(IF connection = "Connected" THEN profiles ELSE {},
                    routingError, activeProfile)
    /\ \E saved \in BOOLEAN :
         /\ Persist(profiles, saved)
         /\ settings' = IF saved THEN settings + 1 ELSE settings
    /\ Returns(NoEffect)
    /\ UNCHANGED routingError

\* Confirming a deletion is refused for the active and the queued profile; the
\* row of a profile that is gone cannot be selected.
OnDeleteProfile ==
    LET p == Head(channel).profile IN
    /\ Receive("DeleteProfile")
    /\ IF p \in {activeProfile, connectingProfile} \/ p \notin profiles
       THEN UNCHANGED <<profiles, disk>>
       ELSE \E saved \in BOOLEAN : Persist(profiles \ {p}, saved)
    /\ Returns(NoEffect)
    /\ UNCHANGED <<modelVars, routingError, settings>>

\* Seeded fault: only a live tunnel's profile is looked for.
ConnectionMissing_LiveOnly(P) == connection = "Connected" /\ activeProfile \notin P

\* The profile a connection depends on is not in P.
ConnectionMissing(P) ==
    \/ connection = "Connected" /\ activeProfile \notin P
    \/ /\ connection \in {"Connecting", "ConnectPending"}
       /\ connectingProfile \notin P

\* handle_config_reloaded: P replaces the profiles; `changed` says that the
\* connection's settings or profile differ from the old ones.
ConfigReloaded(P, changed) ==
    /\ profiles' = P
    /\ settings' = IF changed THEN settings + 1 ELSE settings
    /\ QueueConnect(IF changed /\ ~ConnectionMissing(P) THEN P ELSE {},
                    routingError, ReconnectTarget)

OnConfigReloaded ==
    LET m == Head(channel) IN
    /\ Receive("ConfigReloaded")
    /\ ConfigReloaded(m.profiles, m.changed)
    /\ Returns(IF ConnectionMissing(m.profiles) THEN [type |-> "Disconnect"]
                                               ELSE NoEffect)
    /\ UNCHANGED <<routingError, disk>>

\* An edit from the TUI's editor is committed by an effect, after update.
OnApplyEditedConfig ==
    LET m == Head(channel) IN
    /\ Receive("ApplyEditedConfig")
    /\ Returns([type |-> "CommitEditedConfig",
                profiles |-> m.profiles, changed |-> m.changed])
    /\ UNCHANGED <<modelVars, configVars>>

\* handle_routing_reloaded with a readable file.  A plan that needs rule-sets
\* the daemon has to download first is applied when they arrive.
RoutingReloaded(plan) ==
    /\ routingError' = FALSE
    /\ settings' = IF plan = "same" THEN settings ELSE settings + 1
    /\ QueueConnect(IF plan = "changed" THEN profiles ELSE {}, FALSE,
                    ReconnectTarget)

OnRoutingReloaded ==
    LET m == Head(channel) IN
    /\ Receive("RoutingReloaded")
    /\ \/ m.ok /\ RoutingReloaded(m.plan)
       \/ /\ ~m.ok
          /\ routingError' = TRUE
          /\ UNCHANGED <<modelVars, settings>>
    /\ Returns(NoEffect)
    /\ UNCHANGED <<profiles, disk>>

OnApplyEditedRouting ==
    /\ Receive("ApplyEditedRouting")
    /\ Returns([type |-> "CommitEditedRouting", plan |-> Head(channel).plan])
    /\ UNCHANGED <<modelVars, configVars>>

\* A rule-set the live tunnel routes by, or waits for, was downloaded.
OnRuleSetsUpdated ==
    /\ Receive("RuleSetsUpdated")
    /\ QueueConnect(IF connection = "Connected" THEN profiles ELSE {},
                    routingError, activeProfile)
    /\ Returns(NoEffect)
    /\ UNCHANGED configVars

\* A subscription's new list: unlike a reload, a vanished active profile
\* disconnects in every state, also while another profile is being started.
OnSubscriptionFetched ==
    LET m == Head(channel)
        missing == \/ activeProfile \notin m.profiles \cup {None}
                   \/ ConnectionMissing(m.profiles) /\ connection # "Connected"
    IN
    /\ Receive("SubscriptionFetched")
    /\ \E saved \in BOOLEAN :
         /\ Persist(m.profiles, saved)
         /\ settings' = IF saved /\ m.changed THEN settings + 1 ELSE settings
         /\ Returns(IF missing /\ saved THEN [type |-> "Disconnect"] ELSE NoEffect)
    /\ QueueConnect(IF m.changed /\ ~missing THEN m.profiles ELSE {},
                    routingError, ReconnectTarget)
    /\ UNCHANGED routingError

-----------------------------------------------------------------------------
(* The rest of a turn of the main loop: the slot learns the attempt id,    *)
(* then the effect is executed.                                            *)

SyncAttempt ==
    /\ phase = "sync"
    /\ slotAttempt' = attempt
    /\ phase' = IF effect = NoEffect THEN "recv" ELSE "effect"
    /\ UNCHANGED <<modelVars, configVars, effect, channel, exitReport, slotHandle,
                   slotRetired, coordinator, threadVars, procs, envVars>>

\* Seeded fault: an empty slot retires the absent handle.
RetireHandle_None ==
    /\ slotHandle' = None
    /\ slotRetired' = slotRetired \cup {slotHandle}

\* Seeded fault: the process stays in the slot.
RetireHandle_Skipped == UNCHANGED <<slotHandle, slotRetired>>

RetireHandle ==
    /\ slotHandle' = None
    /\ slotRetired' = slotRetired \cup ({slotHandle} \ {None})

Spawn(t, k) ==
    /\ pc[t] = "free"
    /\ pc' = [pc EXCEPT ![t] = "lock"]
    /\ task' = [task EXCEPT ![t] = k]

Executes(type) ==
    /\ phase = "effect"
    /\ effect.type = type
    /\ effect' = NoEffect

\* connect: the old process is retired, and a worker captures the profile,
\* the settings and the attempt id.
ExecuteConnect ==
    /\ Executes("Connect")
    /\ phase' = "recv"
    /\ slotAttempt' = attempt
    /\ RetireHandle
    /\ connection' = "ConnectPending"
    /\ \E t \in Threads :
         Spawn(t, [kind |-> "connect", attempt |-> attempt,
                   profile |-> connectingProfile, settings |-> settings])
    /\ UNCHANGED <<connectingProfile, activeProfile, singboxPid, attempt, configVars,
                   channel, exitReport, coordinator, child, stopping, tried,
                   budget, procs, envVars>>

\* disconnect: a stopper thread is spawned only when a handle was retired.
Disconnect ==
    /\ attempt' = attempt + 1
    /\ slotAttempt' = attempt + 1
    /\ RetireHandle
    /\ IF slotHandle = None
       THEN UNCHANGED <<pc, task>>
       ELSE \E t \in Threads :
              Spawn(t, [kind |-> "stop", attempt |-> 0, profile |-> None,
                        settings |-> 0])
    /\ ClearConnection

ExecuteDisconnect ==
    /\ Executes("Disconnect")
    /\ phase' = "recv"
    /\ Disconnect
    /\ UNCHANGED <<configVars, channel, exitReport, coordinator, child, stopping,
                   tried, budget, procs, envVars>>

\* commit_edited: a conflict or a failed write changes nothing; otherwise the
\* merged configuration is written and goes through handle_config_reloaded,
\* whose effects are executed on the spot.  Nothing writes the attempt id of
\* a connect queued here into the slot.
ExecuteCommitEditedConfig ==
    /\ Executes("CommitEditedConfig")
    /\ phase' = "recv"
    /\ \/ UNCHANGED <<modelVars, profiles, settings, disk, slotVars, pc, task>>
       \/ /\ disk' = effect.profiles  \* any set merges some base and edit
          /\ ConnectionMissing(effect.profiles)
          /\ profiles' = effect.profiles
          /\ settings' = IF effect.changed THEN settings + 1 ELSE settings
          /\ Disconnect
       \/ /\ disk' = effect.profiles
          /\ ~ConnectionMissing(effect.profiles)
          /\ ConfigReloaded(effect.profiles, effect.changed)
          /\ UNCHANGED <<slotVars, pc, task>>
    /\ UNCHANGED <<routingError, channel, exitReport, coordinator,
                   child, stopping, tried, budget, procs, envVars>>

\* commit_edited_routing works the same way.
ExecuteCommitEditedRouting ==
    /\ Executes("CommitEditedRouting")
    /\ phase' = "recv"
    /\ \/ RoutingReloaded(effect.plan)
       \/ UNCHANGED <<modelVars, routingError, settings>>
    /\ UNCHANGED <<profiles, disk, channel, exitReport, slotVars, coordinator,
                   threadVars, procs, envVars>>

\* Seeded fault: the loop is not told to stop.
ExecuteQuit_Stays ==
    /\ Executes("Quit")
    /\ phase' = "recv"
    /\ attempt' = attempt + 1
    /\ slotAttempt' = attempt + 1
    /\ UNCHANGED <<connection, connectingProfile, activeProfile, singboxPid,
                   configVars, channel, exitReport, slotHandle, slotRetired,
                   coordinator, threadVars, procs, envVars>>

ExecuteQuit ==
    /\ Executes("Quit")
    /\ phase' = "bump"
    /\ attempt' = attempt + 1
    /\ slotAttempt' = attempt + 1
    /\ channel' = <<>>
    /\ UNCHANGED <<connection, connectingProfile, activeProfile, singboxPid,
                   configVars, exitReport, slotHandle, slotRetired, coordinator,
                   threadVars, procs, envVars>>

-----------------------------------------------------------------------------
(* run, after the loop: cancel the workers, wait for the one that holds    *)
(* the coordinator, stop what is left.  The process then exits, and every  *)
(* thread with it.                                                         *)

ShutdownBump ==
    /\ phase = "bump"
    /\ phase' = "drain"
    /\ slotAttempt' = slotAttempt + 1
    /\ UNCHANGED <<modelVars, configVars, effect, channel, exitReport, slotHandle,
                   slotRetired, coordinator, threadVars, procs, envVars>>

\* Seeded fault: handles retired but not stopped yet are left to themselves.
SlotHandles_CurrentOnly == {slotHandle} \ {None}

SlotHandles == slotRetired \cup ({slotHandle} \ {None})

ShutdownTake ==
    /\ phase = "drain"
    /\ coordinator = None
    /\ coordinator' = Main
    /\ phase' = "stopping"
    /\ slotHandle' = None
    /\ slotRetired' = {}
    /\ stopping' = [stopping EXCEPT ![Main] = SlotHandles]
    /\ UNCHANGED <<modelVars, configVars, effect, channel, exitReport, slotAttempt,
                   pc, task, child, tried, budget, procs, envVars>>

\* Seeded fault: a handle is dropped, which does not kill its process.
Reap_DropsHandle(p) == UNCHANGED procs

\* ProcessHandle::stop returns once the child is reaped: SIGTERM, the grace
\* period, SIGKILL.
Reap(p) == procs' = [procs EXCEPT ![p] = NoProc]

ShutdownStop ==
    /\ phase = "stopping"
    /\ \E p \in stopping[Main] :
         /\ Reap(p)
         /\ stopping' = [stopping EXCEPT ![Main] = @ \ {p}]
    /\ UNCHANGED <<modelVars, configVars, phase, effect, channel, exitReport,
                   slotVars, coordinator, pc, task, child, tried, budget, envVars>>

ShutdownExit ==
    /\ phase = "stopping"
    /\ stopping[Main] = {}
    /\ phase' = "exited"
    /\ UNCHANGED <<modelVars, configVars, effect, channel, exitReport, slotVars,
                   coordinator, threadVars, procs, envVars>>

-----------------------------------------------------------------------------
(* Threads.  From "take" to "unlock" a thread holds the coordinator.       *)

\* Seeded fault: a worker does not look at the slot's attempt id.
Cancelled_Never(t) == FALSE

Cancelled(t) == task[t].attempt # slotAttempt

\* Thread t moves from one program counter to another.
Step(t, from, to) ==
    /\ phase # "exited"
    /\ pc[t] = from
    /\ pc' = [pc EXCEPT ![t] = to]
    /\ UNCHANGED <<modelVars, configVars, phase, effect, exitReport, slotAttempt,
                   task, envVars>>

Lock(t) ==
    /\ Step(t, "lock", "take")
    /\ coordinator = None
    /\ coordinator' = t
    /\ UNCHANGED <<channel, slotHandle, slotRetired, child, stopping, tried,
                   budget, procs>>

\* Seeded fault: a superseded worker returns before stop_retired.
TakeRetired_CurrentOnly(t) ==
    /\ Step(t, "take", IF Cancelled(t) THEN "unlock" ELSE "stop")
    /\ stopping' = [stopping EXCEPT ![t] = IF Cancelled(t) THEN {} ELSE slotRetired]
    /\ slotRetired' = IF Cancelled(t) THEN slotRetired ELSE {}
    /\ UNCHANGED <<channel, slotHandle, coordinator, child, tried, budget, procs>>

\* stop_retired empties the list under the slot lock and stops what it took.
TakeRetired(t) ==
    /\ Step(t, "take", "stop")
    /\ stopping' = [stopping EXCEPT ![t] = slotRetired]
    /\ slotRetired' = {}
    /\ UNCHANGED <<channel, slotHandle, coordinator, child, tried, budget, procs>>

StopRetired(t) ==
    /\ Step(t, "stop", "stop")
    /\ \E p \in stopping[t] :
         /\ Reap(p)
         /\ stopping' = [stopping EXCEPT ![t] = @ \ {p}]
    /\ UNCHANGED <<channel, slotHandle, slotRetired, coordinator, child, tried,
                   budget>>

\* Seeded fault: SIGTERM is sent but the exit is not waited for.
StoppedRetired_NoWait(t) ==
    /\ Step(t, "stop", IF task[t].kind = "connect" THEN "check" ELSE "unlock")
    /\ UNCHANGED <<channel, slotHandle, slotRetired, coordinator, child, stopping,
                   tried, budget, procs>>

StoppedRetired(t) ==
    /\ Step(t, "stop", IF task[t].kind = "connect" THEN "check" ELSE "unlock")
    /\ stopping[t] = {}
    /\ UNCHANGED <<channel, slotHandle, slotRetired, coordinator, child, stopping,
                   tried, budget, procs>>

CheckCurrent(t) ==
    /\ Step(t, "check", IF Cancelled(t) THEN "unlock" ELSE "start")
    /\ UNCHANGED <<channel, slotHandle, slotRetired, coordinator, child, stopping,
                   tried, budget, procs>>

\* start_retrying_until_ready after a NotReady error.  RetryBudget::step
\* measures time from a reason's first failure; here it grants up to
\* RetryLimit retries and may give up after the first.
RetryNotReady(t, from, r) ==
    \/ /\ Cancelled(t)
       /\ Step(t, from, "unlock")
       /\ UNCHANGED <<channel, budget>>
    \/ /\ ~Cancelled(t)
       /\ budget[t][r] = 0
       /\ Step(t, from, "wait")
       /\ budget' = [budget EXCEPT ![t][r] = 1]
       /\ Send([type |-> "ConnectRetrying", attempt |-> task[t].attempt])
    \/ /\ ~Cancelled(t)
       /\ budget[t][r] \in 1 .. RetryLimit - 1
       /\ Step(t, from, "wait")
       /\ budget' = [budget EXCEPT ![t][r] = @ + 1]
       /\ UNCHANGED channel
    \/ /\ ~Cancelled(t)
       /\ budget[t][r] > 0
       /\ Step(t, from, "failed")
       /\ UNCHANGED <<channel, budget>>

\* The config cannot be generated or checked, sing-box cannot be spawned, or
\* the start was cancelled.
StartFails(t) ==
    /\ \E from \in {"start", "spawn"} :
         \/ /\ Step(t, from, IF Cancelled(t) THEN "unlock" ELSE "failed")
            /\ UNCHANGED <<channel, budget>>
         \/ \E r \in NotReady : RetryNotReady(t, from, r)
    /\ UNCHANGED <<slotHandle, slotRetired, coordinator, child, stopping, tried,
                   procs>>

\* The attempt id is looked at a last time before the spawn.
CheckedConfig(t) ==
    /\ Step(t, "start", "spawn")
    /\ ~Cancelled(t)
    /\ UNCHANGED <<channel, slotHandle, slotRetired, coordinator, child, stopping,
                   tried, budget, procs>>

SpawnSingBox(t) ==
    /\ Step(t, "spawn", "watch")
    /\ \E p \in Pids :
         /\ procs[p].state = "free"
         /\ procs' = [procs EXCEPT ![p] =
                         [state |-> "up", attempt |-> task[t].attempt,
                          profile |-> task[t].profile,
                          settings |-> task[t].settings]]
         /\ child' = [child EXCEPT ![t] = p]
    /\ UNCHANGED <<channel, slotHandle, slotRetired, coordinator, stopping, tried,
                   budget>>

\* sing-box died during the watch: the Clash port was taken (another port is
\* tried), the TUN device was refused (retried later), or it is an error.
WatchExited(t) ==
    /\ child[t] \in Pids
    /\ procs[child[t]].state = "exited"
    /\ Reap(child[t])
    /\ child' = [child EXCEPT ![t] = None]
    /\ \/ /\ Step(t, "watch", "start")
          /\ tried[t] + 1 < StartAttempts
          /\ tried' = [tried EXCEPT ![t] = @ + 1]
          /\ UNCHANGED <<channel, budget>>
       \/ /\ "TunNotPermitted" \in NotReady
          /\ RetryNotReady(t, "watch", "TunNotPermitted")
          /\ UNCHANGED tried
       \/ /\ Step(t, "watch", "failed")
          /\ UNCHANGED <<channel, tried, budget>>
    /\ UNCHANGED <<slotHandle, slotRetired, coordinator, stopping>>

WatchCancelled(t) ==
    /\ Step(t, "watch", "unlock")
    /\ Cancelled(t)
    /\ child[t] \in Pids
    /\ procs[child[t]].state = "up"
    /\ Reap(child[t])
    /\ child' = [child EXCEPT ![t] = None]
    /\ UNCHANGED <<channel, slotHandle, slotRetired, coordinator, stopping, tried,
                   budget>>

WatchReady(t) ==
    /\ Step(t, "watch", "install")
    /\ ~Cancelled(t)
    /\ child[t] \in Pids
    /\ procs[child[t]].state = "up"
    /\ UNCHANGED <<channel, slotHandle, slotRetired, coordinator, child, stopping,
                   tried, budget, procs>>

WaitCancelled(t) ==
    /\ Step(t, "wait", "unlock")
    /\ Cancelled(t)
    /\ UNCHANGED <<channel, slotHandle, slotRetired, coordinator, child, stopping,
                   tried, budget, procs>>

WaitElapsed(t) ==
    /\ Step(t, "wait", "start")
    /\ tried' = [tried EXCEPT ![t] = 0]
    /\ UNCHANGED <<channel, slotHandle, slotRetired, coordinator, child, stopping,
                   budget, procs>>

\* Seeded fault: the worker gives up without a report.
ReportFailed_Silent(t) ==
    /\ Step(t, "failed", "unlock")
    /\ UNCHANGED <<channel, slotHandle, slotRetired, coordinator, child, stopping,
                   tried, budget, procs>>

ReportFailed(t) ==
    /\ Step(t, "failed", "unlock")
    /\ IF Cancelled(t)
       THEN UNCHANGED channel
       ELSE Send([type |-> "ConnectFailed", attempt |-> task[t].attempt])
    /\ UNCHANGED <<slotHandle, slotRetired, coordinator, child, stopping, tried,
                   budget, procs>>

Install(t) ==
    /\ Step(t, "install", IF Cancelled(t) THEN "discard" ELSE "report")
    /\ slotHandle' = IF Cancelled(t) THEN slotHandle ELSE child[t]
    /\ UNCHANGED <<channel, slotRetired, coordinator, child, stopping, tried,
                   budget, procs>>

\* Seeded fault: the superseded process is forgotten.
Discard_Leaks(t) ==
    /\ Step(t, "discard", "unlock")
    /\ child' = [child EXCEPT ![t] = None]
    /\ UNCHANGED <<channel, slotHandle, slotRetired, coordinator, stopping, tried,
                   budget, procs>>

Discard(t) ==
    /\ Step(t, "discard", "unlock")
    /\ child[t] \in Pids
    /\ Reap(child[t])
    /\ child' = [child EXCEPT ![t] = None]
    /\ UNCHANGED <<channel, slotHandle, slotRetired, coordinator, stopping, tried,
                   budget>>

ReportConnected(t) ==
    /\ Step(t, "report", "unlock")
    /\ Send([type |-> "Connected", attempt |-> task[t].attempt,
             profile |-> task[t].profile, pid |-> child[t]])
    /\ child' = [child EXCEPT ![t] = None]
    /\ UNCHANGED <<slotHandle, slotRetired, coordinator, stopping, tried, budget,
                   procs>>

\* The thread returns, and its guard releases the coordinator.
Unlock(t) ==
    /\ phase # "exited"
    /\ pc[t] = "unlock"
    /\ pc' = [pc EXCEPT ![t] = "free"]
    /\ task' = [task EXCEPT ![t] = NoTask]
    /\ tried' = [tried EXCEPT ![t] = 0]
    /\ budget' = [budget EXCEPT ![t] = NoBudget]
    /\ coordinator' = None
    /\ UNCHANGED <<modelVars, configVars, phase, effect, channel, exitReport,
                   slotVars, child, stopping, procs, envVars>>

-----------------------------------------------------------------------------
(* The ticker, and the kernel.                                             *)

\* poll_process_exit: the report carries the slot's attempt id.  `started`
\* is auxiliary, the attempt whose worker started the process that exited.
PollExit ==
    /\ phase # "exited"
    /\ exitReport = NoMessage
    /\ slotHandle \in Pids
    /\ procs[slotHandle].state = "exited"
    /\ exitReport' = [type |-> "SingBoxExited", attempt |-> slotAttempt,
                      started |-> procs[slotHandle].attempt]
    /\ Reap(slotHandle)
    /\ slotHandle' = None
    /\ UNCHANGED <<modelVars, configVars, phase, effect, channel, slotAttempt,
                   slotRetired, coordinator, threadVars, envVars>>

SendExit ==
    /\ phase # "exited"
    /\ exitReport # NoMessage
    /\ Send(exitReport)
    /\ exitReport' = NoMessage
    /\ UNCHANGED <<modelVars, configVars, phase, effect, slotVars, coordinator,
                   threadVars, procs, envVars>>

QueuedTicks == {i \in 1 .. Len(channel) : channel[i].type = "Tick"}

SendTick ==
    /\ LoopRunning
    /\ exitReport = NoMessage
    /\ Cardinality(QueuedTicks) < MaxQueuedTicks
    /\ Send([type |-> "Tick"])
    /\ UNCHANGED <<modelVars, configVars, phase, effect, exitReport, slotVars,
                   coordinator, threadVars, procs, envVars>>

\* sing-box dies by itself; it stays a zombie until its parent waits for it.
ProcessExits ==
    /\ exits < MaxExits
    /\ exits' = exits + 1
    /\ \E p \in Pids :
         /\ procs[p].state = "up"
         /\ procs' = [procs EXCEPT ![p].state = "exited"]
    /\ UNCHANGED <<modelVars, configVars, phase, effect, channel, exitReport,
                   slotVars, coordinator, threadVars, inputs>>

\* The daemon has exited: nothing more happens.
Terminated == phase = "exited" /\ UNCHANGED vars

-----------------------------------------------------------------------------

Update ==
    \/ OnTick \/ OnConnected \/ OnConnectFailed \/ OnConnectRetrying
    \/ OnSingBoxExited \/ OnSystemResumed \/ OnConnectProfile
    \/ OnEnterOnProfile \/ OnDisconnect \/ OnReconnect \/ OnToggle \/ OnQuit
    \/ OnSettingsApplied \/ OnModeSelected \/ OnDeleteProfile
    \/ OnConfigReloaded \/ OnApplyEditedConfig \/ OnRoutingReloaded
    \/ OnSubscriptionFetched \/ OnApplyEditedRouting \/ OnRuleSetsUpdated

MainLoop ==
    \/ Update
    \/ SyncAttempt
    \/ ExecuteConnect \/ ExecuteDisconnect \/ ExecuteCommitEditedConfig
    \/ ExecuteCommitEditedRouting \/ ExecuteQuit
    \/ ShutdownBump \/ ShutdownTake \/ ShutdownStop \/ ShutdownExit

Thread(t) ==
    \/ Lock(t) \/ TakeRetired(t) \/ StopRetired(t) \/ StoppedRetired(t)
    \/ CheckCurrent(t) \/ StartFails(t) \/ CheckedConfig(t)
    \/ SpawnSingBox(t) \/ WatchExited(t) \/ WatchCancelled(t) \/ WatchReady(t)
    \/ WaitCancelled(t) \/ WaitElapsed(t)
    \/ ReportFailed(t) \/ Install(t) \/ Discard(t) \/ ReportConnected(t)
    \/ Unlock(t)

Ticker == PollExit \/ SendExit \/ SendTick

Next ==
    \/ MainLoop
    \/ \E t \in Threads : Thread(t)
    \/ Ticker
    \/ SendInput \/ EditDisk \/ ProcessExits \/ Terminated

Spec == Init /\ [][Next]_vars

\* The main loop blocks only on an empty channel, on a free worker thread or
\* on the coordinator; the ticker wakes every 250 ms; a worker's calls all
\* return (config check, 300 ms watch, retry sleeps, SIGTERM then SIGKILL).
\* Nothing makes clients send, files change or sing-box die.
Fairness ==
    /\ WF_vars(MainLoop)
    /\ WF_vars(LoopRunning /\ PollExit) /\ WF_vars(SendExit) /\ WF_vars(SendTick)
    /\ \A t \in Threads : WF_vars(Thread(t))

FairSpec == Spec /\ Fairness

-----------------------------------------------------------------------------
(* Properties.                                                             *)

Running == {p \in Pids : procs[p].state = "up"}

\* Two sing-box processes never run at once: the coordinator mutex, the
\* retired list and the attempt check together keep a reconnect, however it
\* interleaves with disconnects and exits, from starting a second tunnel
\* before the first is gone (daemon/connection.rs connect).
AtMostOneSingBox == \A p, q \in Running : p = q

\* Whoever is responsible for stopping or reporting process p.
Supervised(p) ==
    \/ p = slotHandle
    \/ p \in slotRetired
    \/ \E t \in Threads \cup {Main} : p \in stopping[t]
    \/ \E t \in Threads :
         pc[t] \in {"watch", "install", "discard"} /\ p = child[t]

\* No running sing-box is ever forgotten: the slot holds it, it waits to be
\* stopped, or a worker is still starting it.  An install that overwrote a
\* handle, or a superseded worker that returned without killing its child,
\* would leave one behind.
NoForgottenProcess == \A p \in Running : Supervised(p)

\* An exit of the current process that the Model has not handled yet.
ExitReported ==
    LET IsCurrentExit(m) == m.type = "SingBoxExited" /\ m.attempt = attempt
    IN \/ IsCurrentExit(exitReport)
       \/ \E i \in 1 .. Len(channel) : IsCurrentExit(channel[i])

\* While the Model says Connected, its pid and active profile are those of
\* the process in the slot, or that process's exit is on its way to the
\* Model.  A worker installs before it reports, so an exit can overtake
\* Connected; both orders end well.
ConnectedTunnelIsInSlot ==
    connection = "Connected" /\ LoopRunning =>
        \/ /\ slotHandle = singboxPid
           /\ procs[singboxPid].profile = activeProfile
        \/ ExitReported

\* After a clean exit no sing-box is left, whatever was being started,
\* retried, replaced or stopped when Quit arrived (daemon.rs run).
CleanExitLeavesNoProcess ==
    phase = "exited" => \A p \in Pids : procs[p].state = "free"

\* A report of success is believed only for the connect that is pending:
\* after a disconnect, an exit or a newer request the Model never turns
\* Connected on behalf of the superseded attempt (on_connected).
ConnectedOnlyFromPending ==
    [][ /\ connection # "Connected"
        /\ connection' = "Connected"
        => /\ connection = "ConnectPending"
           /\ activeProfile' = connectingProfile ]_vars

\* Once nothing is left to do, Idle means that no tunnel is up in the slot:
\* `kvn disconnect` does nothing when the Model says Idle (semantic.rs
\* disconnect), so a tunnel it forgot could not be taken down.
IdleRunsNoTunnel ==
    connection = "Idle" /\ phase = "recv" =>
        slotHandle = None \/ procs[slotHandle].state = "exited"

\* A connection never outlives its profile: when a reload, an edit or a
\* subscription update drops the profile, the tunnel goes down or the queued
\* connect is taken back in the same turn of the main loop.
ConnectionHasProfile ==
    phase = "recv" =>
        /\ connection = "Connected" => activeProfile \in profiles
        /\ connection \in {"Connecting", "ConnectPending"}
              => connectingProfile \in profiles

\* A live tunnel was started with the settings of the Model, or a reconnect
\* is on its way: every change of them restarts it (configuration.md).
TunnelRunsCurrentSettings ==
    connection = "Connected" /\ phase = "recv" /\ slotHandle # None =>
        procs[slotHandle].settings = settings

\* The exit of a process that was started for an older attempt does not
\* touch the connection that has replaced it (on_singbox_exited).
StaleExitIsIgnored ==
    [][ /\ phase = "recv" /\ phase' = "sync"
        /\ Head(channel).type = "SingBoxExited"
        /\ Head(channel).started < attempt
        => UNCHANGED modelVars ]_vars

\* While routing.json is invalid no new connection is started.
InvalidRoutingStartsNothing ==
    [][ routingError => ~(\E t \in Threads : task'[t].kind = "connect"
                                            /\ task[t].kind # "connect") ]_vars

\* A connect that is queued or pending is decided: it ends in a tunnel, in
\* Idle with an error, or with the daemon.
ConnectSettles ==
    connection \in {"Connecting", "ConnectPending"}
        ~> connection \in {"Idle", "Connected"} \/ ~LoopRunning

\* A process taken out of the slot is stopped in the end, even when the
\* worker that should replace it was cancelled before it got the coordinator.
RetiredIsStopped ==
    \A p \in Pids : p \in slotRetired ~> procs[p].state = "free"

\* Quit always gets through: the worker that holds the coordinator notices
\* the bumped attempt id and lets go of it.
QuitTerminates == effect.type = "Quit" ~> phase = "exited"

-----------------------------------------------------------------------------
(* The abstract specification.                                             *)

\* Process p is still in the hands of the worker that started it.
IsStarting(p) ==
    \E t \in Threads : pc[t] \in {"watch", "install", "discard"} /\ child[t] = p

Tunnel ==
    IF Running = {}
    THEN [attempt |-> 0, phase |-> "none"]
    ELSE LET p == CHOOSE p \in Running : TRUE
         IN [attempt |-> procs[p].attempt,
             phase |-> IF IsStarting(p) THEN "starting" ELSE "serving"]

Promise ==
    INSTANCE SingleTunnel
        WITH current <- slotAttempt, tunnel <- Tunnel, down <- (phase = "exited")

\* Seen through the slot, the daemon is the one tunnel of SingleTunnel: what
\* its workers, stoppers and ticker do to sing-box is a start, a publication,
\* an end or nothing.
ImplementsSingleTunnel == Promise!Spec
=============================================================================
