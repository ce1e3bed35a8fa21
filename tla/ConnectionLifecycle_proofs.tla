--------------------- MODULE ConnectionLifecycle_proofs ---------------------
(***************************************************************************)
(* Type correctness of ConnectionLifecycle and what every handler of       *)
(* update guarantees (UpdateStep); on them rests that IInv is inductive,   *)
(* and on that: there is never a second sing-box, no running one is        *)
(* forgotten, and a clean exit leaves none.                                *)
(*                                                                         *)
(* A step of the system is a step of a thread, of the main loop or of the  *)
(* environment; each has a lemma that says it keeps IInv, with one case    *)
(* per action and in it one step per group of conjuncts.                   *)
(*                                                                         *)
(* The second part: the module implements SingleTunnel (Refinement), and   *)
(* a connection that is up has its process in the slot (ServiceInv).       *)
(*                                                                         *)
(* The third part: an attempt is decided once, by its worker or by a newer *)
(* attempt (DecidedInv); so a connection has its profile, an idle Model no *)
(* tunnel, and a live tunnel the settings of the Model.                    *)
(***************************************************************************)
EXTENDS ConnectionInvariant, TLAPS

\* The fields a handler reads from a message are there and typed.
LEMMA MessageFields ==
    ASSUME NEW m \in Message
    PROVE  /\ m.type = "Connected" => /\ m.profile \in Profiles \cup {None}
                                      /\ m.pid \in Pids \cup {None}
           /\ m.type \in {"ConfigReloaded", "ApplyEditedConfig", "SubscriptionFetched"}
                => /\ m.profiles \in SUBSET Profiles
                   /\ m.changed \in BOOLEAN
           /\ m.type \in {"RoutingReloaded", "ApplyEditedRouting"}
                => m.plan \in Plan
BY DEF Message, InputMessage, ExitMessage, Plan

\* What workers, ticker and clients send are messages.
LEMMA NewMessages ==
    ASSUME NEW a \in Nat, NEW b \in Nat,
           NEW p \in Profiles \cup {None}, NEW k \in Pids \cup {None}
    PROVE  /\ [type |-> "Tick"] \in Message
           /\ [type |-> "Connected", attempt |-> a, profile |-> p, pid |-> k]
                \in Message
           /\ [type |-> "ConnectFailed", attempt |-> a] \in Message
           /\ [type |-> "ConnectRetrying", attempt |-> a] \in Message
           /\ [type |-> "SingBoxExited", attempt |-> a, started |-> b] \in Message
           /\ Inputs \subseteq Message
BY ConstantsAssumption DEF Message, ExitMessage

\* Appending to the channel and receiving from it keep it a channel.
LEMMA SeqFacts ==
    ASSUME NEW s \in Seq(Message)
    PROVE  /\ \A m \in Message : Append(s, m) \in Seq(Message)
           /\ s # <<>> => Head(s) \in Message /\ Tail(s) \in Seq(Message)
           /\ <<>> \in Seq(Message)
OBVIOUS

\* Every effect a handler returns is one, and its fields are typed.
LEMMA EffectFacts ==
    /\ NoEffect \in Effect
    /\ [type |-> "Connect"] \in Effect
    /\ [type |-> "Disconnect"] \in Effect
    /\ [type |-> "Quit"] \in Effect
    /\ \A P \in SUBSET Profiles, c \in BOOLEAN :
         [type |-> "CommitEditedConfig", profiles |-> P, changed |-> c] \in Effect
    /\ \A l \in Plan : [type |-> "CommitEditedRouting", plan |-> l] \in Effect
    /\ \A e \in Effect :
         /\ e.type = "CommitEditedConfig" =>
              e.profiles \in SUBSET Profiles /\ e.changed \in BOOLEAN
         /\ e.type = "CommitEditedRouting" => e.plan \in Plan
BY DEF Effect, NoEffect, Plan

\* What any handler may do to the state that threads and slot depend on.
UpdateStep ==
    /\ phase = "recv" /\ phase' = "sync"
    /\ attempt' \in Nat /\ attempt' >= attempt
    /\ connection' = "Connecting" =>
         attempt' > attempt \/ (connection = "Connecting" /\ attempt' = attempt)
    /\ effect'.type = "Connect" => connection' = "Connecting"
    /\ UNCHANGED <<exitReport, slotVars, coordinator, threadVars, procs, envVars>>

\* queue_connect moves the Model to Connecting only with a new attempt id
\* (app/update/connection.rs).
LEMMA QueueConnectFacts ==
    ASSUME ModelTypeOK, NEW P \in SUBSET Profiles, NEW blocked, NEW p,
           QueueConnect(P, blocked, p)
    PROVE  /\ connection' \in {"Idle", "Connecting", "ConnectPending", "Connected"}
           /\ connectingProfile' \in Profiles \cup {None}
           /\ attempt' \in Nat /\ attempt' >= attempt
           /\ connection' = "Connecting" =>
                attempt' > attempt \/ (connection = "Connecting" /\ attempt' = attempt)
           /\ activeProfile' = activeProfile
           /\ singboxPid' = singboxPid
BY DEF ModelTypeOK, QueueConnect

\* handle_routing_reloaded does no more to the connection than queue_connect.
LEMMA RoutingReloadedFacts ==
    ASSUME ModelTypeOK, NEW plan, RoutingReloaded(plan)
    PROVE  /\ connection' \in {"Idle", "Connecting", "ConnectPending", "Connected"}
           /\ connectingProfile' \in Profiles \cup {None}
           /\ attempt' \in Nat /\ attempt' >= attempt
           /\ connection' = "Connecting" =>
                attempt' > attempt \/ (connection = "Connecting" /\ attempt' = attempt)
           /\ activeProfile' = activeProfile
           /\ singboxPid' = singboxPid
           /\ routingError' \in BOOLEAN
           /\ settings' \in Nat
<1> DEFINE P == IF plan = "changed" THEN profiles ELSE {}
<1>1. P \in SUBSET Profiles
  BY DEF ModelTypeOK
<1>2. QueueConnect(P, FALSE, ReconnectTarget)
  BY DEF RoutingReloaded
<1>3. settings' \in Nat
  BY DEF RoutingReloaded, ModelTypeOK
<1>4. routingError' \in BOOLEAN
  BY Zenon DEF RoutingReloaded
<1> HIDE DEF P
<1> QED
  BY <1>1, <1>2, <1>3, <1>4, QueueConnectFacts

\* Every handler of update keeps the types and is an UpdateStep.
LEMMA UpdateFacts ==
    ASSUME TypeOK, Update
    PROVE  TypeOK' /\ UpdateStep
<1>a. ModelTypeOK /\ LoopTypeOK
  BY DEF TypeOK
<1>b. /\ channel # <<>> => Head(channel) \in Message /\ Tail(channel) \in Seq(Message)
  BY <1>a, SeqFacts DEF LoopTypeOK
<1>c. SlotTypeOK' /\ ThreadTypeOK' /\ exitReport' = exitReport /\ inputs' = inputs
      /\ exits' = exits /\ phase = "recv" /\ phase' = "sync" /\ channel # <<>>
      /\ channel' = Tail(channel)
      /\ UNCHANGED <<exitReport, slotVars, coordinator, threadVars, procs, envVars>>
  <2>1. PICK ty : Receive(ty)
    BY
    DEF Update, OnTick, OnConnected, OnConnectFailed, OnConnectRetrying,
        OnSingBoxExited, OnSystemResumed, OnConnectProfile, OnEnterOnProfile,
        OnDisconnect, OnReconnect, OnToggle, OnQuit, OnSettingsApplied,
        OnModeSelected, OnDeleteProfile, OnConfigReloaded, OnApplyEditedConfig,
        OnRoutingReloaded, OnSubscriptionFetched, OnApplyEditedRouting,
        OnRuleSetsUpdated
  <2> QED
    BY <2>1 DEF TypeOK, Receive, slotVars, threadVars, envVars, SlotTypeOK,
                ThreadTypeOK
<1> DEFINE G == /\ ModelTypeOK' /\ effect' \in Effect
                /\ attempt' >= attempt
                /\ connection' = "Connecting" =>
                     \/ attempt' > attempt
                     \/ connection = "Connecting" /\ attempt' = attempt
                /\ effect'.type = "Connect" => connection' = "Connecting"
<1>1. ASSUME OnTick PROVE G
  BY <1>a, <1>1, EffectFacts
  DEF OnTick, Receive, Returns, modelVars, configVars, ModelTypeOK, NoEffect
<1>2. ASSUME OnConnected PROVE G
  BY <1>a, <1>b, <1>c, <1>2, MessageFields, EffectFacts
  DEF OnConnected, Receive, Returns, modelVars, configVars, ModelTypeOK,
      NoEffect, IsStale, Persist, Merge
<1>3. ASSUME OnConnectFailed PROVE G
  BY <1>a, <1>3, EffectFacts
  DEF OnConnectFailed, Receive, Returns, modelVars, configVars, ModelTypeOK,
      NoEffect, IsStale, ClearConnection
<1>4. ASSUME OnConnectRetrying PROVE G
  BY <1>a, <1>4, EffectFacts
  DEF OnConnectRetrying, Receive, Returns, modelVars, configVars, ModelTypeOK,
      NoEffect
<1>5. ASSUME OnSingBoxExited PROVE G
  BY <1>a, <1>5, EffectFacts
  DEF OnSingBoxExited, Receive, Returns, modelVars, configVars, ModelTypeOK,
      NoEffect, IsStale, ClearConnection
<1>6. ASSUME OnSystemResumed PROVE G
  BY <1>a, <1>6, EffectFacts, QueueConnectFacts
  DEF OnSystemResumed, Receive, Returns, modelVars, configVars, ModelTypeOK,
      NoEffect
<1>7. ASSUME OnConnectProfile PROVE G
  BY <1>a, <1>7, EffectFacts, QueueConnectFacts
  DEF OnConnectProfile, Receive, Returns, modelVars, configVars, ModelTypeOK,
      NoEffect
<1>8. ASSUME OnEnterOnProfile PROVE G
  BY <1>a, <1>8, EffectFacts, QueueConnectFacts
  DEF OnEnterOnProfile, Receive, Returns, modelVars, configVars, ModelTypeOK,
      NoEffect
<1>9. ASSUME OnDisconnect PROVE G
  BY <1>a, <1>9, EffectFacts
  DEF OnDisconnect, Receive, Returns, modelVars, configVars, ModelTypeOK, NoEffect
<1>10. ASSUME OnReconnect PROVE G
  BY <1>a, <1>10, EffectFacts, QueueConnectFacts
  DEF OnReconnect, Receive, Returns, modelVars, configVars, ModelTypeOK, NoEffect
<1>11. ASSUME OnToggle PROVE G
  BY <1>a, <1>11, EffectFacts, QueueConnectFacts
  DEF OnToggle, Receive, Returns, modelVars, configVars, ModelTypeOK, NoEffect
<1>12. ASSUME OnQuit PROVE G
  BY <1>a, <1>12, EffectFacts
  DEF OnQuit, Receive, Returns, modelVars, configVars, ModelTypeOK, NoEffect
<1>13. ASSUME OnSettingsApplied PROVE G
  BY <1>a, <1>13, EffectFacts, QueueConnectFacts
  DEF OnSettingsApplied, Receive, Returns, modelVars, configVars, ModelTypeOK,
      NoEffect, Persist, Merge, ReconnectTarget
<1>14. ASSUME OnModeSelected PROVE G
  BY <1>a, <1>14, EffectFacts, QueueConnectFacts
  DEF OnModeSelected, Receive, Returns, modelVars, configVars, ModelTypeOK,
      NoEffect, Persist, Merge
<1>15. ASSUME OnDeleteProfile PROVE G
  BY <1>a, <1>15, EffectFacts
  DEF OnDeleteProfile, Receive, Returns, modelVars, configVars, ModelTypeOK,
      NoEffect, Persist, Merge
<1>16. ASSUME OnConfigReloaded PROVE G
  BY <1>a, <1>b, <1>c, <1>16, MessageFields, EffectFacts, QueueConnectFacts
  DEF OnConfigReloaded, Receive, Returns, modelVars, configVars, ModelTypeOK,
      NoEffect, ConfigReloaded, ReconnectTarget
<1>17. ASSUME OnApplyEditedConfig PROVE G
  <2>1. Head(channel).profiles \in SUBSET Profiles /\ Head(channel).changed \in BOOLEAN
    BY <1>b, <1>c, <1>17, MessageFields DEF OnApplyEditedConfig, Receive
  <2>2. effect' = [type |-> "CommitEditedConfig",
                   profiles |-> Head(channel).profiles,
                   changed |-> Head(channel).changed]
    BY <1>17 DEF OnApplyEditedConfig, Returns
  <2>3. effect' \in Effect /\ effect'.type # "Connect"
    BY <2>1, <2>2, EffectFacts
  <2>4. UNCHANGED <<modelVars, configVars>>
    BY <1>17 DEF OnApplyEditedConfig
  <2> QED
    BY <1>a, <2>3, <2>4 DEF modelVars, configVars, ModelTypeOK
<1>18. ASSUME OnRoutingReloaded PROVE G
  <2>1. effect' = NoEffect /\ profiles' = profiles /\ disk' = disk
    BY <1>18 DEF OnRoutingReloaded, Returns
  <2>2. CASE RoutingReloaded(Head(channel).plan)
    BY <1>a, <2>1, <2>2, EffectFacts, RoutingReloadedFacts DEF ModelTypeOK, NoEffect
  <2>3. CASE routingError' = TRUE /\ UNCHANGED <<modelVars, settings>>
    BY <1>a, <2>1, <2>3, EffectFacts DEF ModelTypeOK, modelVars, NoEffect
  <2> QED
    BY <1>18, <2>2, <2>3, Zenon DEF OnRoutingReloaded
<1>19. ASSUME OnSubscriptionFetched PROVE G
  BY <1>a, <1>b, <1>c, <1>19, MessageFields, EffectFacts, QueueConnectFacts
  DEF OnSubscriptionFetched, Receive, Returns, modelVars, configVars,
      ModelTypeOK, NoEffect, Persist, Merge, ReconnectTarget
<1>20. ASSUME OnApplyEditedRouting PROVE G
  <2>1. Head(channel).plan \in Plan
    BY <1>b, <1>c, <1>20, MessageFields DEF OnApplyEditedRouting, Receive
  <2>2. effect' \in Effect /\ effect'.type # "Connect"
    BY <1>20, <2>1, EffectFacts DEF OnApplyEditedRouting, Returns
  <2>3. UNCHANGED <<modelVars, configVars>>
    BY <1>20 DEF OnApplyEditedRouting
  <2> QED
    BY <1>a, <2>2, <2>3 DEF modelVars, configVars, ModelTypeOK
<1>21. ASSUME OnRuleSetsUpdated PROVE G
  BY <1>a, <1>21, EffectFacts, QueueConnectFacts
  DEF OnRuleSetsUpdated, Receive, Returns, modelVars, configVars, ModelTypeOK,
      NoEffect
<1>g. G
  BY <1>1, <1>2, <1>3, <1>4, <1>5, <1>6, <1>7, <1>8, <1>9, <1>10, <1>11, <1>12,
      <1>13, <1>14, <1>15, <1>16, <1>17, <1>18, <1>19, <1>20, <1>21
  DEF Update
<1> QED
  BY <1>a, <1>b, <1>c, <1>g DEF TypeOK, LoopTypeOK, UpdateStep, ModelTypeOK

\* A send keeps the channel well typed, also once the receiver is gone.
LEMMA SendFacts ==
    ASSUME LoopTypeOK, NEW m \in Message, Send(m)
    PROVE  channel' \in Seq(Message)
BY SeqFacts DEF LoopTypeOK, Send

\* A thread's move changes nothing of the Model, the loop or its own task.
LEMMA StepFacts ==
    ASSUME TypeOK, NEW t \in Threads, NEW from, NEW to \in Steps, Step(t, from, to)
    PROVE  /\ ModelTypeOK'
           /\ pc' \in [Threads -> Steps] /\ task' \in [Threads -> Task]
           /\ phase' \in {"recv", "sync", "effect", "bump", "drain", "stopping", "exited"}
           /\ effect' \in Effect
           /\ exitReport' \in ExitMessage \cup {NoMessage}
           /\ inputs' \in 0 .. MaxInputs /\ exits' \in 0 .. MaxExits
           /\ slotAttempt' \in Nat
BY DEF TypeOK, ModelTypeOK, LoopTypeOK, SlotTypeOK, ThreadTypeOK, Step, modelVars,
       configVars, envVars

\* A NotReady error ends in one of three places and within the retry budget
\* (start_retrying_until_ready).
LEMMA RetryFacts ==
    ASSUME TypeOK, NEW t \in Threads, NEW from, NEW r \in NotReady,
           RetryNotReady(t, from, r)
    PROVE  /\ \E to \in {"unlock", "wait", "failed"} : Step(t, from, to)
           /\ channel' \in Seq(Message)
           /\ budget' \in [Threads -> [NotReady -> 0 .. RetryLimit]]
<1>1. /\ task[t].attempt \in Nat /\ budget[t] \in [NotReady -> 0 .. RetryLimit]
      /\ LoopTypeOK /\ budget \in [Threads -> [NotReady -> 0 .. RetryLimit]]
  BY DEF TypeOK, ThreadTypeOK, Task
<1>2. [type |-> "ConnectRetrying", attempt |-> task[t].attempt] \in Message
  BY <1>1, NewMessages
<1>3. channel' \in Seq(Message)
  BY <1>1, <1>2, SendFacts DEF RetryNotReady, LoopTypeOK
<1>4. \E to \in {"unlock", "wait", "failed"} : Step(t, from, to)
  BY DEF RetryNotReady
<1>5. budget' \in [Threads -> [NotReady -> 0 .. RetryLimit]]
  BY <1>1, ConstantsAssumption DEF RetryNotReady
<1> QED
  BY <1>3, <1>4, <1>5

\* Workers and stoppers keep the types.
LEMMA ThreadTypes ==
    ASSUME TypeOK, NEW t \in Threads, Thread(t)
    PROVE  TypeOK'
<1> USE DEF SlotTypeOK, ThreadTypeOK
<1>n. NoTask \in Task /\ NoProc \in Proc /\ NoBudget \in [NotReady -> 0 .. RetryLimit]
  BY ConstantsAssumption DEF NoTask, Task, NoProc, Proc, NoBudget
<1>s. /\ LoopTypeOK /\ SlotTypeOK /\ ThreadTypeOK
      /\ task[t].attempt \in Nat /\ task[t].profile \in Profiles \cup {None}
      /\ task[t].settings \in Nat
  BY DEF TypeOK, Task
<1>l. ASSUME UNCHANGED channel PROVE channel' \in Seq(Message)
  BY <1>s, <1>l DEF LoopTypeOK
<1>1. CASE Lock(t)
  BY <1>1, <1>s, <1>l, StepFacts
  DEF Lock, TypeOK, LoopTypeOK, Steps
<1>2. CASE TakeRetired(t)
  BY <1>2, <1>s, <1>l, StepFacts
  DEF TakeRetired, TypeOK, LoopTypeOK, Steps
<1>3. CASE StopRetired(t)
  BY <1>3, <1>n, <1>s, <1>l, StepFacts
  DEF StopRetired, TypeOK, LoopTypeOK, Steps, Reap
<1>4. CASE StoppedRetired(t)
  BY <1>4, <1>s, <1>l, StepFacts
  DEF StoppedRetired, TypeOK, LoopTypeOK, Steps
<1>5. CASE CheckCurrent(t)
  BY <1>5, <1>s, <1>l, StepFacts
  DEF CheckCurrent, TypeOK, LoopTypeOK, Steps
<1>6. CASE StartFails(t)
  <2>1. /\ \E from \in {"start", "spawn"}, to \in Steps : Step(t, from, to)
        /\ channel' \in Seq(Message)
        /\ budget' \in [Threads -> [NotReady -> 0 .. RetryLimit]]
    BY <1>6, <1>s, <1>l, RetryFacts DEF StartFails, Steps
  <2> QED
    BY <1>6, <1>s, <2>1, StepFacts DEF StartFails, TypeOK, LoopTypeOK
<1>7. CASE CheckedConfig(t)
  BY <1>7, <1>s, <1>l, StepFacts
  DEF CheckedConfig, TypeOK, LoopTypeOK, Steps
<1>8. CASE SpawnSingBox(t)
  <2>1. PICK p \in Pids :
          /\ procs' = [procs EXCEPT ![p] =
                          [state |-> "up", attempt |-> task[t].attempt,
                           profile |-> task[t].profile,
                           settings |-> task[t].settings]]
          /\ child' = [child EXCEPT ![t] = p]
    BY <1>8 DEF SpawnSingBox
  <2>2. [state |-> "up", attempt |-> task[t].attempt, profile |-> task[t].profile,
         settings |-> task[t].settings] \in Proc
    BY <1>s DEF Proc
  <2>3. procs' \in [Pids -> Proc] /\ child' \in [Threads -> Pids \cup {None}]
    BY <1>s, <2>1, <2>2
  <2>4. Step(t, "spawn", "watch") /\ channel' \in Seq(Message)
    BY <1>8, <1>l DEF SpawnSingBox
  <2> QED
    BY <1>8, <1>s, <2>3, <2>4, StepFacts DEF SpawnSingBox, TypeOK, LoopTypeOK, Steps
<1>9. CASE WatchExited(t)
  <2>1. /\ \E to \in Steps : Step(t, "watch", to)
        /\ channel' \in Seq(Message)
        /\ budget' \in [Threads -> [NotReady -> 0 .. RetryLimit]]
    BY <1>9, <1>s, <1>l, RetryFacts DEF WatchExited, Steps
  <2>2. tried' \in [Threads -> 0 .. StartAttempts]
    BY <1>9, <1>s, ConstantsAssumption DEF WatchExited
  <2>3. procs' \in [Pids -> Proc] /\ child' \in [Threads -> Pids \cup {None}]
    BY <1>9, <1>n, <1>s DEF WatchExited, Reap
  <2> QED
    BY <1>9, <1>s, <2>1, <2>2, <2>3, StepFacts DEF WatchExited, TypeOK, LoopTypeOK
<1>10. CASE WatchCancelled(t)
  BY <1>10, <1>n, <1>s, <1>l, StepFacts
  DEF WatchCancelled, TypeOK, LoopTypeOK, Steps, Reap
<1>11. CASE WatchReady(t)
  BY <1>11, <1>s, <1>l, StepFacts
  DEF WatchReady, TypeOK, LoopTypeOK, Steps
<1>12. CASE WaitCancelled(t)
  BY <1>12, <1>s, <1>l, StepFacts
  DEF WaitCancelled, TypeOK, LoopTypeOK, Steps
<1>13. CASE WaitElapsed(t)
  BY <1>13, <1>s, <1>l, StepFacts, ConstantsAssumption
  DEF WaitElapsed, TypeOK, LoopTypeOK, Steps
<1>14. CASE ReportFailed(t)
  BY <1>14, <1>s, <1>l, StepFacts, SendFacts, NewMessages
  DEF ReportFailed, TypeOK, LoopTypeOK, Steps
<1>15. CASE Install(t)
  BY <1>15, <1>s, <1>l, StepFacts
  DEF Install, TypeOK, LoopTypeOK, Steps
<1>16. CASE Discard(t)
  BY <1>16, <1>n, <1>s, <1>l, StepFacts
  DEF Discard, TypeOK, LoopTypeOK, Steps, Reap
<1>17. CASE ReportConnected(t)
  BY <1>17, <1>s, StepFacts, SendFacts, NewMessages
  DEF ReportConnected, TypeOK, LoopTypeOK, Steps
<1>18. CASE Unlock(t)
  BY <1>18, <1>n, <1>s, <1>l, ConstantsAssumption
  DEF Unlock, TypeOK, LoopTypeOK, Steps, modelVars, configVars, slotVars,
      envVars, ModelTypeOK
<1> QED
  BY <1>1, <1>2, <1>3, <1>4, <1>5, <1>6, <1>7, <1>8, <1>9, <1>10, <1>11, <1>12,
      <1>13, <1>14, <1>15, <1>16, <1>17, <1>18
  DEF Thread

\* disconnect empties the slot and clears the connection.
LEMMA DisconnectFacts ==
    ASSUME TypeOK, Disconnect
    PROVE  /\ attempt' = attempt + 1 /\ slotAttempt' = attempt + 1
           /\ slotHandle' = None /\ slotRetired' \in SUBSET Pids
           /\ pc' \in [Threads -> Steps] /\ task' \in [Threads -> Task]
           /\ connection' = "Idle" /\ connectingProfile' = None
           /\ activeProfile' = None /\ singboxPid' = None
<1> DEFINE k == [kind |-> "stop", attempt |-> 0, profile |-> None, settings |-> 0]
<1>1. k \in Task
  BY DEF Task
<1>2. \/ UNCHANGED <<pc, task>>
      \/ \E t \in Threads : Spawn(t, k)
  BY DEF Disconnect
<1> HIDE DEF k
<1>3. pc' \in [Threads -> Steps] /\ task' \in [Threads -> Task]
  BY <1>1, <1>2 DEF Spawn, TypeOK, ThreadTypeOK, Steps
<1> QED
  BY <1>3 DEF Disconnect, RetireHandle, ClearConnection, TypeOK, SlotTypeOK

\* The main loop and the shutdown after it keep the types.
LEMMA MainTypes ==
    ASSUME TypeOK, MainLoop
    PROVE  TypeOK'
<1> USE DEF LoopTypeOK, SlotTypeOK, ThreadTypeOK
<1>s. /\ ModelTypeOK /\ LoopTypeOK /\ SlotTypeOK /\ ThreadTypeOK
  BY DEF TypeOK
<1>n. NoProc \in Proc /\ <<>> \in Seq(Message) /\ NoEffect \in Effect
  BY EffectFacts, SeqFacts DEF NoProc, Proc
<1>0. CASE Update
  BY <1>0, UpdateFacts
<1>1. CASE SyncAttempt
  BY <1>1, <1>n, <1>s, EffectFacts, QueueConnectFacts, RoutingReloadedFacts
  DEF SyncAttempt, TypeOK, ModelTypeOK, modelVars, configVars, slotVars,
      threadVars, envVars
<1>2. CASE ExecuteConnect
  BY <1>2, <1>n, <1>s, EffectFacts, QueueConnectFacts, RoutingReloadedFacts
  DEF ExecuteConnect, TypeOK, ModelTypeOK, modelVars, configVars, slotVars,
      threadVars, envVars, Executes, RetireHandle, Spawn, Steps, Task
<1>3. CASE ExecuteDisconnect
  BY <1>3, <1>n, <1>s, DisconnectFacts
  DEF ExecuteDisconnect, Executes, TypeOK, ModelTypeOK, configVars, envVars
<1>4. CASE ExecuteCommitEditedConfig
  <2>1. effect.profiles \in SUBSET Profiles /\ effect.changed \in BOOLEAN
    BY <1>4, <1>s, EffectFacts DEF ExecuteCommitEditedConfig, Executes
  <2>2. /\ phase' = "recv" /\ effect' = NoEffect
        /\ UNCHANGED <<routingError, channel, exitReport, coordinator, child, stopping,
                       tried, budget, procs, envVars>>
    BY <1>4 DEF ExecuteCommitEditedConfig, Executes
  <2>3. CASE /\ disk' = effect.profiles /\ profiles' = effect.profiles
             /\ settings' = IF effect.changed THEN settings + 1 ELSE settings
             /\ Disconnect
    BY <1>n, <1>s, <2>1, <2>2, <2>3, DisconnectFacts DEF TypeOK, ModelTypeOK, envVars
  <2>4. CASE /\ disk' = effect.profiles
             /\ ConfigReloaded(effect.profiles, effect.changed)
             /\ UNCHANGED <<slotVars, pc, task>>
    BY <1>n, <1>s, <2>1, <2>2, <2>4, QueueConnectFacts
    DEF TypeOK, ModelTypeOK, envVars, slotVars, ConfigReloaded
  <2>5. CASE UNCHANGED <<modelVars, profiles, settings, disk, slotVars, pc, task>>
    BY <1>n, <1>s, <2>2, <2>5 DEF TypeOK, ModelTypeOK, modelVars, slotVars, envVars
  <2> QED
    BY <1>4, <2>3, <2>4, <2>5 DEF ExecuteCommitEditedConfig
<1>5. CASE ExecuteCommitEditedRouting
  <2>1. /\ phase' = "recv" /\ effect' = NoEffect
        /\ UNCHANGED <<profiles, disk, channel, exitReport, slotVars, coordinator,
                       threadVars, procs, envVars>>
    BY <1>5 DEF ExecuteCommitEditedRouting, Executes
  <2>2. CASE RoutingReloaded(effect.plan)
    BY <1>n, <1>s, <2>1, <2>2, RoutingReloadedFacts
    DEF TypeOK, ModelTypeOK, slotVars, threadVars, envVars
  <2>3. CASE UNCHANGED <<modelVars, routingError, settings>>
    BY <1>n, <1>s, <2>1, <2>3
    DEF TypeOK, ModelTypeOK, modelVars, slotVars, threadVars, envVars
  <2> QED
    BY <1>5, <2>2, <2>3, Zenon DEF ExecuteCommitEditedRouting
<1>6. CASE ExecuteQuit
  BY <1>6, <1>n, <1>s, EffectFacts, QueueConnectFacts, RoutingReloadedFacts
  DEF ExecuteQuit, TypeOK, ModelTypeOK, modelVars, configVars, slotVars,
      threadVars, envVars, Executes
<1>7. CASE ShutdownBump
  BY <1>7, <1>n, <1>s, EffectFacts, QueueConnectFacts, RoutingReloadedFacts
  DEF ShutdownBump, TypeOK, ModelTypeOK, modelVars, configVars, slotVars,
      threadVars, envVars
<1>8. CASE ShutdownTake
  BY <1>8, <1>n, <1>s, EffectFacts, QueueConnectFacts, RoutingReloadedFacts
  DEF ShutdownTake, TypeOK, ModelTypeOK, modelVars, configVars, slotVars,
      threadVars, envVars, SlotHandles
<1>9. CASE ShutdownStop
  BY <1>9, <1>n, <1>s, EffectFacts, QueueConnectFacts, RoutingReloadedFacts
  DEF ShutdownStop, TypeOK, ModelTypeOK, modelVars, configVars, slotVars,
      threadVars, envVars, Reap
<1>10. CASE ShutdownExit
  BY <1>10, <1>n, <1>s, EffectFacts, QueueConnectFacts, RoutingReloadedFacts
  DEF ShutdownExit, TypeOK, ModelTypeOK, modelVars, configVars, slotVars,
      threadVars, envVars
<1> QED
  BY <1>0, <1>1, <1>2, <1>3, <1>4, <1>5, <1>6, <1>7, <1>8, <1>9, <1>10 DEF MainLoop

\* Ticker, clients, editors and dying processes keep the types.
LEMMA EnvironmentTypes ==
    ASSUME TypeOK, Ticker \/ SendInput \/ EditDisk \/ ProcessExits \/ UNCHANGED vars
    PROVE  TypeOK'
<1> USE DEF LoopTypeOK, SlotTypeOK, ThreadTypeOK
<1>s. /\ ModelTypeOK /\ LoopTypeOK /\ SlotTypeOK /\ ThreadTypeOK
  BY DEF TypeOK
<1>n. NoProc \in Proc /\ Inputs \subseteq Message /\ [type |-> "Tick"] \in Message
      /\ \A p \in Pids : procs[p].attempt \in Nat
  BY NewMessages DEF NoProc, Proc, TypeOK
<1>1. CASE PollExit
  <2>1. exitReport' \in ExitMessage
    BY <1>1, <1>n, <1>s DEF PollExit, ExitMessage
  <2>2. procs' \in [Pids -> Proc]
    BY <1>1, <1>n, <1>s DEF PollExit, Reap
  <2> QED
    BY <1>1, <1>s, <2>1, <2>2
    DEF PollExit, TypeOK, ModelTypeOK, modelVars, configVars, threadVars, envVars
<1>2. CASE SendExit
  <2>0. exitReport \in Message
    BY <1>2, <1>s DEF SendExit, Message
  <2>1. channel' \in Seq(Message)
    BY <1>2, <1>s, <2>0, SendFacts DEF SendExit
  <2> QED
    BY <1>2, <1>s, <2>1
    DEF SendExit, TypeOK, ModelTypeOK, modelVars, configVars, slotVars,
        threadVars, envVars
<1>3. CASE SendTick
  <2>1. channel' \in Seq(Message)
    BY <1>3, <1>n, <1>s, SendFacts DEF SendTick
  <2> QED
    BY <1>3, <1>s, <2>1
    DEF SendTick, TypeOK, ModelTypeOK, modelVars, configVars, slotVars,
        threadVars, envVars
<1>4. CASE SendInput
  <2>1. channel' \in Seq(Message)
    BY <1>4, <1>n, <1>s, SendFacts DEF SendInput
  <2>2. inputs' \in 0 .. MaxInputs
    BY <1>4, <1>s, ConstantsAssumption DEF SendInput
  <2> QED
    BY <1>4, <1>s, <2>1, <2>2
    DEF SendInput, TypeOK, ModelTypeOK, modelVars, configVars, slotVars, threadVars
<1>5. CASE EditDisk
  BY <1>5, <1>s, ConstantsAssumption
  DEF EditDisk, TypeOK, ModelTypeOK, modelVars, configVars, slotVars,
      threadVars, envVars
<1>6. CASE ProcessExits
  <2>1. PICK p \in Pids : procs' = [procs EXCEPT ![p].state = "exited"]
    BY <1>6 DEF ProcessExits
  <2>2. \A r \in Proc : [r EXCEPT !.state = "exited"] \in Proc
    BY DEF Proc
  <2>3. procs[p] \in Proc
    BY <1>s, <2>1
  <2>4. [procs[p] EXCEPT !.state = "exited"] \in Proc
    BY <2>2, <2>3
  <2>5. procs' \in [Pids -> Proc]
    BY <1>s, <2>1, <2>4
  <2>6. exits' \in 0 .. MaxExits
    BY <1>6, <1>s, ConstantsAssumption DEF ProcessExits
  <2> QED
    BY <1>6, <1>s, <2>5, <2>6
    DEF ProcessExits, TypeOK, ModelTypeOK, modelVars, configVars, slotVars,
        threadVars
<1>7. CASE UNCHANGED vars
  BY <1>7, <1>s DEF TypeOK, ModelTypeOK, vars, modelVars, configVars, slotVars,
                    threadVars, envVars
<1> QED
  BY <1>1, <1>2, <1>3, <1>4, <1>5, <1>6, <1>7 DEF Ticker

\* TypeOK is inductive by itself.
LEMMA NextTypes ==
    ASSUME TypeOK, [Next]_vars
    PROVE  TypeOK'
BY MainTypes, ThreadTypes, EnvironmentTypes DEF Next, Terminated

\* The daemon starts well typed.
LEMMA InitTypes == Init => TypeOK
<1> SUFFICES ASSUME Init PROVE TypeOK
  OBVIOUS
<1>1. ModelTypeOK
  <2>1. routingError \in BOOLEAN
    BY Zenon DEF Init
  <2> QED
    BY <2>1 DEF Init, ModelTypeOK
<1>2. LoopTypeOK
  BY ConstantsAssumption, SeqFacts, EffectFacts DEF Init, LoopTypeOK, NoMessage
<1>3. NoTask \in Task /\ NoProc \in Proc
  BY DEF NoTask, Task, NoProc, Proc
<1>4. SlotTypeOK
  BY <1>3 DEF Init, SlotTypeOK
<1>5. NoBudget \in [NotReady -> 0 .. RetryLimit]
  BY ConstantsAssumption DEF NoBudget
<1>6. ThreadTypeOK
  BY <1>3, <1>5, ConstantsAssumption DEF Init, ThreadTypeOK, Steps
<1> QED
  BY <1>1, <1>2, <1>4, <1>6 DEF TypeOK

\* Every reachable state is well typed, whatever the bounds.
THEOREM TypeCorrect == Spec => []TypeOK
BY InitTypes, NextTypes, PTL DEF Spec

-----------------------------------------------------------------------------
\* Whatever a worker or a stopper does next, IInv survives: the coordinator
\* keeps the others out of "take" .. "unlock" (daemon/connection.rs connect).
LEMMA ThreadKeeps ==
    ASSUME IInv, TypeOK', NEW t \in Threads, Thread(t)
    PROVE  IInv'
<1>t. /\ SlotTypeOK /\ ThreadTypeOK /\ SlotTypeOK' /\ ThreadTypeOK'
      /\ attempt \in Nat /\ attempt' \in Nat
  BY DEF IInv, TypeOK, ModelTypeOK
<1>f. /\ LockInv /\ StoppingInv /\ AttemptInv /\ QueuedIsNewest /\ DistinctAttempts
      /\ CurrentSlotInv /\ StartingInv /\ ProcessInv /\ ChildInv
  BY DEF IInv
<1>a. \A u \in Threads : task[u].attempt \in Nat /\ task'[u].attempt \in Nat
  BY <1>t DEF ThreadTypeOK, Task
<1> USE ConstantsAssumption DEF SlotTypeOK, ThreadTypeOK
<1>1. CASE Lock(t)
  <2>1. LockInv' /\ StoppingInv'
    BY <1>1, <1>t, <1>f
    DEF LockInv, StoppingInv, Lock, Step, modelVars
  <2>2. AttemptInv' /\ QueuedIsNewest' /\ DistinctAttempts'
    BY <1>1, <1>t, <1>a, <1>f
    DEF AttemptInv, QueuedIsNewest, DistinctAttempts, LoopRunning, Lock, Step,
        modelVars
  <2>3. CurrentSlotInv' /\ StartingInv'
    BY <1>1, <1>t, <1>a, <1>f
    DEF LockInv, AttemptInv, DistinctAttempts, CurrentSlotInv, StartingInv,
        Cancelled, LoopRunning, Lock, Step, modelVars
  <2>4. ProcessInv'
    BY <1>1, <1>t, <1>f
    DEF LockInv, StoppingInv, StartingInv, ProcessInv, Supervised, Lock, Step,
        modelVars
  <2>5. ChildInv'
    BY <1>1, <1>t, <1>f
    DEF LockInv, StoppingInv, StartingInv, ProcessInv, Supervised, ChildInv,
        Lock, Step, modelVars
  <2> QED
    BY <2>1, <2>2, <2>3, <2>4, <2>5 DEF IInv
<1>2. CASE TakeRetired(t)
  <2>1. LockInv' /\ StoppingInv'
    BY <1>2, <1>t, <1>f
    DEF LockInv, StoppingInv, TakeRetired, Step, modelVars
  <2>2. AttemptInv' /\ QueuedIsNewest' /\ DistinctAttempts'
    BY <1>2, <1>t, <1>a, <1>f
    DEF AttemptInv, QueuedIsNewest, DistinctAttempts, LoopRunning,
        TakeRetired, Step, modelVars
  <2>3. CurrentSlotInv' /\ StartingInv'
    BY <1>2, <1>t, <1>a, <1>f
    DEF LockInv, AttemptInv, DistinctAttempts, CurrentSlotInv, StartingInv,
        Cancelled, LoopRunning, TakeRetired, Step, modelVars
  <2>4. ProcessInv'
    BY <1>2, <1>t, <1>f
    DEF LockInv, StoppingInv, StartingInv, ProcessInv, Supervised,
        TakeRetired, Step, modelVars
  <2>5. ChildInv'
    BY <1>2, <1>t, <1>f
    DEF LockInv, StoppingInv, StartingInv, ProcessInv, Supervised, ChildInv,
        TakeRetired, Step, modelVars
  <2> QED
    BY <2>1, <2>2, <2>3, <2>4, <2>5 DEF IInv
<1>3. CASE StopRetired(t)
  <2>1. LockInv' /\ StoppingInv'
    BY <1>3, <1>t, <1>f
    DEF LockInv, StoppingInv, StopRetired, Step, modelVars, Reap, NoProc
  <2>2. AttemptInv' /\ QueuedIsNewest' /\ DistinctAttempts'
    BY <1>3, <1>t, <1>a, <1>f
    DEF AttemptInv, QueuedIsNewest, DistinctAttempts, LoopRunning,
        StopRetired, Step, modelVars, Reap, NoProc
  <2>3. CurrentSlotInv' /\ StartingInv'
    BY <1>3, <1>t, <1>a, <1>f
    DEF LockInv, AttemptInv, DistinctAttempts, CurrentSlotInv, StartingInv,
        Cancelled, LoopRunning, StopRetired, Step, modelVars, Reap, NoProc
  <2>4. ProcessInv'
    BY <1>3, <1>t, <1>f
    DEF LockInv, StoppingInv, StartingInv, ProcessInv, Supervised,
        StopRetired, Step, modelVars, Reap, NoProc
  <2>5. ChildInv'
    BY <1>3, <1>t, <1>f
    DEF LockInv, StoppingInv, StartingInv, ProcessInv, Supervised, ChildInv,
        StopRetired, Step, modelVars, Reap, NoProc
  <2> QED
    BY <2>1, <2>2, <2>3, <2>4, <2>5 DEF IInv
<1>4. CASE StoppedRetired(t)
  <2>1. LockInv' /\ StoppingInv'
    BY <1>4, <1>t, <1>f
    DEF LockInv, StoppingInv, StoppedRetired, Step, modelVars
  <2>2. AttemptInv' /\ QueuedIsNewest' /\ DistinctAttempts'
    BY <1>4, <1>t, <1>a, <1>f
    DEF AttemptInv, QueuedIsNewest, DistinctAttempts, LoopRunning,
        StoppedRetired, Step, modelVars
  <2>3. CurrentSlotInv' /\ StartingInv'
    BY <1>4, <1>t, <1>a, <1>f
    DEF LockInv, AttemptInv, DistinctAttempts, CurrentSlotInv, StartingInv,
        Cancelled, LoopRunning, StoppedRetired, Step, modelVars
  <2>4. ProcessInv'
    BY <1>4, <1>t, <1>f
    DEF LockInv, StoppingInv, StartingInv, ProcessInv, Supervised,
        StoppedRetired, Step, modelVars
  <2>5. ChildInv'
    BY <1>4, <1>t, <1>f
    DEF LockInv, StoppingInv, StartingInv, ProcessInv, Supervised, ChildInv,
        StoppedRetired, Step, modelVars
  <2> QED
    BY <2>1, <2>2, <2>3, <2>4, <2>5 DEF IInv
<1>5. CASE CheckCurrent(t)
  <2>1. LockInv' /\ StoppingInv'
    BY <1>5, <1>t, <1>f
    DEF LockInv, StoppingInv, CheckCurrent, Step, modelVars
  <2>2. AttemptInv' /\ QueuedIsNewest' /\ DistinctAttempts'
    BY <1>5, <1>t, <1>a, <1>f
    DEF AttemptInv, QueuedIsNewest, DistinctAttempts, LoopRunning,
        CheckCurrent, Step, modelVars
  <2>3. CurrentSlotInv' /\ StartingInv'
    BY <1>5, <1>t, <1>a, <1>f
    DEF LockInv, AttemptInv, DistinctAttempts, CurrentSlotInv, StartingInv,
        Cancelled, LoopRunning, CheckCurrent, Step, modelVars
  <2>4. ProcessInv'
    BY <1>5, <1>t, <1>f
    DEF LockInv, StoppingInv, StartingInv, ProcessInv, Supervised,
        CheckCurrent, Step, modelVars
  <2>5. ChildInv'
    BY <1>5, <1>t, <1>f
    DEF LockInv, StoppingInv, StartingInv, ProcessInv, Supervised, ChildInv,
        CheckCurrent, Step, modelVars
  <2> QED
    BY <2>1, <2>2, <2>3, <2>4, <2>5 DEF IInv
<1>6. CASE StartFails(t)
  <2>0. /\ \E from \in {"start", "spawn"}, to \in {"unlock", "wait", "failed"} :
             Step(t, from, to)
        /\ UNCHANGED <<slotHandle, slotRetired, coordinator, child, stopping, procs>>
    BY <1>6, RetryFacts DEF IInv, StartFails
  <2>1. LockInv' /\ StoppingInv'
    BY <2>0, <1>t, <1>f
    DEF LockInv, StoppingInv, Step, modelVars
  <2>2. AttemptInv' /\ QueuedIsNewest' /\ DistinctAttempts'
    BY <2>0, <1>t, <1>a, <1>f
    DEF AttemptInv, QueuedIsNewest, DistinctAttempts, LoopRunning, Step,
        modelVars
  <2>3. CurrentSlotInv' /\ StartingInv'
    BY <2>0, <1>t, <1>a, <1>f
    DEF LockInv, AttemptInv, DistinctAttempts, CurrentSlotInv, StartingInv,
        Cancelled, LoopRunning, Step, modelVars
  <2>4. ProcessInv'
    BY <2>0, <1>t, <1>f
    DEF LockInv, StoppingInv, StartingInv, ProcessInv, Supervised, Step,
        modelVars
  <2>5. ChildInv'
    BY <2>0, <1>t, <1>f
    DEF LockInv, StoppingInv, StartingInv, ProcessInv, Supervised, ChildInv,
        Step, modelVars
  <2> QED
    BY <2>1, <2>2, <2>3, <2>4, <2>5 DEF IInv
<1>7. CASE CheckedConfig(t)
  <2>1. LockInv' /\ StoppingInv'
    BY <1>7, <1>t, <1>f
    DEF LockInv, StoppingInv, CheckedConfig, Step, modelVars
  <2>2. AttemptInv' /\ QueuedIsNewest' /\ DistinctAttempts'
    BY <1>7, <1>t, <1>a, <1>f
    DEF AttemptInv, QueuedIsNewest, DistinctAttempts, LoopRunning,
        CheckedConfig, Step, modelVars
  <2>3. CurrentSlotInv' /\ StartingInv'
    BY <1>7, <1>t, <1>a, <1>f
    DEF LockInv, AttemptInv, DistinctAttempts, CurrentSlotInv, StartingInv,
        Cancelled, LoopRunning, CheckedConfig, Step, modelVars
  <2>4. ProcessInv'
    BY <1>7, <1>t, <1>f
    DEF LockInv, StoppingInv, StartingInv, ProcessInv, Supervised,
        CheckedConfig, Step, modelVars
  <2>5. ChildInv'
    BY <1>7, <1>t, <1>f
    DEF LockInv, StoppingInv, StartingInv, ProcessInv, Supervised, ChildInv,
        CheckedConfig, Step, modelVars
  <2> QED
    BY <2>1, <2>2, <2>3, <2>4, <2>5 DEF IInv
<1>8. CASE SpawnSingBox(t)
  <2>1. LockInv' /\ StoppingInv'
    BY <1>8, <1>t, <1>f
    DEF LockInv, StoppingInv, SpawnSingBox, Step, modelVars
  <2>2. AttemptInv' /\ QueuedIsNewest' /\ DistinctAttempts'
    BY <1>8, <1>t, <1>a, <1>f
    DEF AttemptInv, QueuedIsNewest, DistinctAttempts, LoopRunning,
        SpawnSingBox, Step, modelVars
  <2>3. CurrentSlotInv' /\ StartingInv'
    BY <1>8, <1>t, <1>a, <1>f
    DEF LockInv, AttemptInv, DistinctAttempts, CurrentSlotInv, StartingInv,
        Cancelled, LoopRunning, SpawnSingBox, Step, modelVars
  <2>4. ProcessInv'
    <3>1. \A p \in Pids : procs[p].state = "free"
      <4> SUFFICES ASSUME NEW p \in Pids, procs[p].state # "free" PROVE FALSE
        OBVIOUS
      <4>1. pc[t] = "spawn" /\ coordinator = t /\ coordinator # Main
        BY <1>8, <1>t, <1>f DEF SpawnSingBox, Step, LockInv
      <4>2. slotHandle = None /\ slotRetired = {}
        BY <4>1, <1>f DEF StartingInv
      <4>3. \A u \in Threads : pc[u] \in {"free", "lock", "spawn"}
        BY <4>1, <1>f DEF LockInv
      <4>4. \A u \in Threads \cup {Main} : stopping[u] = {}
        BY <4>1, <4>3, <1>t, <1>f DEF LockInv, StoppingInv
      <4>5. Supervised(p)
        BY <1>f DEF ProcessInv
      <4> QED
        BY <4>2, <4>3, <4>4, <4>5 DEF Supervised
    <3>2. PICK p \in Pids :
            /\ \A q \in Pids : q # p => procs'[q] = procs[q]
            /\ child'[t] = p
      BY <1>8, <1>t DEF SpawnSingBox
    <3>3. pc'[t] = "watch"
      BY <1>8, <1>t DEF SpawnSingBox, Step
    <3> QED
      BY <3>1, <3>2, <3>3 DEF ProcessInv, Supervised
  <2>5. ChildInv'
    BY <1>8, <1>t, <1>f
    DEF LockInv, StoppingInv, StartingInv, ProcessInv, Supervised, ChildInv,
        SpawnSingBox, Step, modelVars
  <2> QED
    BY <2>1, <2>2, <2>3, <2>4, <2>5 DEF IInv
<1>9. CASE WatchExited(t)
  <2>0. /\ \E to \in {"start", "unlock", "wait", "failed"} : Step(t, "watch", to)
        /\ child[t] \in Pids
        /\ procs' = [procs EXCEPT ![child[t]] = NoProc]
        /\ child' = [child EXCEPT ![t] = None]
        /\ UNCHANGED <<slotHandle, slotRetired, coordinator, stopping>>
    BY <1>9, RetryFacts DEF IInv, WatchExited, Reap
  <2>1. LockInv' /\ StoppingInv'
    BY <2>0, <1>t, <1>f
    DEF LockInv, StoppingInv, Step, modelVars, NoProc
  <2>2. AttemptInv' /\ QueuedIsNewest' /\ DistinctAttempts'
    BY <2>0, <1>t, <1>a, <1>f
    DEF AttemptInv, QueuedIsNewest, DistinctAttempts, LoopRunning, Step,
        modelVars, NoProc
  <2>3. CurrentSlotInv' /\ StartingInv'
    BY <2>0, <1>t, <1>a, <1>f
    DEF LockInv, AttemptInv, DistinctAttempts, CurrentSlotInv, StartingInv,
        Cancelled, LoopRunning, Step, modelVars, NoProc
  <2>4. ProcessInv'
    <3>1. \A q \in Pids : procs'[q].state = "free"
      <4>1. pc[t] = "watch"
        BY <2>0 DEF Step
      <4>2. procs[child[t]].state # "free"
        BY <4>1, <1>f DEF ChildInv
      <4>3. \A q \in Pids : q # child[t] => procs[q].state = "free"
        BY <2>0, <4>2, <1>f DEF ProcessInv
      <4> QED
        BY <2>0, <4>3, <1>t DEF NoProc
    <3> QED
      BY <3>1 DEF ProcessInv
  <2>5. ChildInv'
    <3>1. \A u \in Threads : pc'[u] \notin {"watch", "install", "discard"}
      BY <2>0, <1>t, <1>f DEF LockInv, Step
    <3> QED
      BY <3>1 DEF ChildInv
  <2> QED
    BY <2>1, <2>2, <2>3, <2>4, <2>5 DEF IInv
<1>10. CASE WatchCancelled(t)
  <2>1. LockInv' /\ StoppingInv'
    BY <1>10, <1>t, <1>f
    DEF LockInv, StoppingInv, WatchCancelled, Step, modelVars, Reap, NoProc
  <2>2. AttemptInv' /\ QueuedIsNewest' /\ DistinctAttempts'
    BY <1>10, <1>t, <1>a, <1>f
    DEF AttemptInv, QueuedIsNewest, DistinctAttempts, LoopRunning,
        WatchCancelled, Step, modelVars, Reap, NoProc
  <2>3. CurrentSlotInv' /\ StartingInv'
    BY <1>10, <1>t, <1>a, <1>f
    DEF LockInv, AttemptInv, DistinctAttempts, CurrentSlotInv, StartingInv,
        Cancelled, LoopRunning, WatchCancelled, Step, modelVars, Reap, NoProc
  <2>4. ProcessInv'
    BY <1>10, <1>t, <1>f
    DEF LockInv, StoppingInv, StartingInv, ProcessInv, Supervised,
        WatchCancelled, Step, modelVars, Reap, NoProc
  <2>5. ChildInv'
    BY <1>10, <1>t, <1>f
    DEF LockInv, StoppingInv, StartingInv, ProcessInv, Supervised, ChildInv,
        WatchCancelled, Step, modelVars, Reap, NoProc
  <2> QED
    BY <2>1, <2>2, <2>3, <2>4, <2>5 DEF IInv
<1>11. CASE WatchReady(t)
  <2>1. LockInv' /\ StoppingInv'
    BY <1>11, <1>t, <1>f
    DEF LockInv, StoppingInv, WatchReady, Step, modelVars
  <2>2. AttemptInv' /\ QueuedIsNewest' /\ DistinctAttempts'
    BY <1>11, <1>t, <1>a, <1>f
    DEF AttemptInv, QueuedIsNewest, DistinctAttempts, LoopRunning, WatchReady,
        Step, modelVars
  <2>3. CurrentSlotInv' /\ StartingInv'
    BY <1>11, <1>t, <1>a, <1>f
    DEF LockInv, AttemptInv, DistinctAttempts, CurrentSlotInv, StartingInv,
        Cancelled, LoopRunning, WatchReady, Step, modelVars
  <2>4. ProcessInv'
    BY <1>11, <1>t, <1>f
    DEF LockInv, StoppingInv, StartingInv, ProcessInv, Supervised, WatchReady,
        Step, modelVars
  <2>5. ChildInv'
    BY <1>11, <1>t, <1>f
    DEF LockInv, StoppingInv, StartingInv, ProcessInv, Supervised, ChildInv,
        WatchReady, Step, modelVars
  <2> QED
    BY <2>1, <2>2, <2>3, <2>4, <2>5 DEF IInv
<1>12. CASE WaitCancelled(t)
  <2>1. LockInv' /\ StoppingInv'
    BY <1>12, <1>t, <1>f
    DEF LockInv, StoppingInv, WaitCancelled, Step, modelVars
  <2>2. AttemptInv' /\ QueuedIsNewest' /\ DistinctAttempts'
    BY <1>12, <1>t, <1>a, <1>f
    DEF AttemptInv, QueuedIsNewest, DistinctAttempts, LoopRunning,
        WaitCancelled, Step, modelVars
  <2>3. CurrentSlotInv' /\ StartingInv'
    BY <1>12, <1>t, <1>a, <1>f
    DEF LockInv, AttemptInv, DistinctAttempts, CurrentSlotInv, StartingInv,
        Cancelled, LoopRunning, WaitCancelled, Step, modelVars
  <2>4. ProcessInv'
    BY <1>12, <1>t, <1>f
    DEF LockInv, StoppingInv, StartingInv, ProcessInv, Supervised,
        WaitCancelled, Step, modelVars
  <2>5. ChildInv'
    BY <1>12, <1>t, <1>f
    DEF LockInv, StoppingInv, StartingInv, ProcessInv, Supervised, ChildInv,
        WaitCancelled, Step, modelVars
  <2> QED
    BY <2>1, <2>2, <2>3, <2>4, <2>5 DEF IInv
<1>13. CASE WaitElapsed(t)
  <2>1. LockInv' /\ StoppingInv'
    BY <1>13, <1>t, <1>f
    DEF LockInv, StoppingInv, WaitElapsed, Step, modelVars
  <2>2. AttemptInv' /\ QueuedIsNewest' /\ DistinctAttempts'
    BY <1>13, <1>t, <1>a, <1>f
    DEF AttemptInv, QueuedIsNewest, DistinctAttempts, LoopRunning,
        WaitElapsed, Step, modelVars
  <2>3. CurrentSlotInv' /\ StartingInv'
    BY <1>13, <1>t, <1>a, <1>f
    DEF LockInv, AttemptInv, DistinctAttempts, CurrentSlotInv, StartingInv,
        Cancelled, LoopRunning, WaitElapsed, Step, modelVars
  <2>4. ProcessInv'
    BY <1>13, <1>t, <1>f
    DEF LockInv, StoppingInv, StartingInv, ProcessInv, Supervised,
        WaitElapsed, Step, modelVars
  <2>5. ChildInv'
    BY <1>13, <1>t, <1>f
    DEF LockInv, StoppingInv, StartingInv, ProcessInv, Supervised, ChildInv,
        WaitElapsed, Step, modelVars
  <2> QED
    BY <2>1, <2>2, <2>3, <2>4, <2>5 DEF IInv
<1>14. CASE ReportFailed(t)
  <2>1. LockInv' /\ StoppingInv'
    BY <1>14, <1>t, <1>f
    DEF LockInv, StoppingInv, ReportFailed, Step, modelVars
  <2>2. AttemptInv' /\ QueuedIsNewest' /\ DistinctAttempts'
    BY <1>14, <1>t, <1>a, <1>f
    DEF AttemptInv, QueuedIsNewest, DistinctAttempts, LoopRunning,
        ReportFailed, Step, modelVars
  <2>3. CurrentSlotInv' /\ StartingInv'
    BY <1>14, <1>t, <1>a, <1>f
    DEF LockInv, AttemptInv, DistinctAttempts, CurrentSlotInv, StartingInv,
        Cancelled, LoopRunning, ReportFailed, Step, modelVars
  <2>4. ProcessInv'
    BY <1>14, <1>t, <1>f
    DEF LockInv, StoppingInv, StartingInv, ProcessInv, Supervised,
        ReportFailed, Step, modelVars
  <2>5. ChildInv'
    BY <1>14, <1>t, <1>f
    DEF LockInv, StoppingInv, StartingInv, ProcessInv, Supervised, ChildInv,
        ReportFailed, Step, modelVars
  <2> QED
    BY <2>1, <2>2, <2>3, <2>4, <2>5 DEF IInv
<1>15. CASE Install(t)
  <2>1. LockInv' /\ StoppingInv'
    BY <1>15, <1>t, <1>f
    DEF LockInv, StoppingInv, Install, Step, modelVars
  <2>2. AttemptInv' /\ QueuedIsNewest' /\ DistinctAttempts'
    BY <1>15, <1>t, <1>a, <1>f
    DEF AttemptInv, QueuedIsNewest, DistinctAttempts, LoopRunning, Install,
        Step, modelVars
  <2>3. CurrentSlotInv' /\ StartingInv'
    BY <1>15, <1>t, <1>a, <1>f
    DEF LockInv, AttemptInv, DistinctAttempts, CurrentSlotInv, StartingInv,
        Cancelled, LoopRunning, Install, Step, modelVars
  <2>4. ProcessInv'
    BY <1>15, <1>t, <1>f
    DEF LockInv, StoppingInv, StartingInv, ProcessInv, Supervised, Install,
        Step, modelVars
  <2>5. ChildInv'
    BY <1>15, <1>t, <1>f
    DEF LockInv, StoppingInv, StartingInv, ProcessInv, Supervised, ChildInv,
        Install, Step, modelVars
  <2> QED
    BY <2>1, <2>2, <2>3, <2>4, <2>5 DEF IInv
<1>16. CASE Discard(t)
  <2>1. LockInv' /\ StoppingInv'
    BY <1>16, <1>t, <1>f
    DEF LockInv, StoppingInv, Discard, Step, modelVars, Reap, NoProc
  <2>2. AttemptInv' /\ QueuedIsNewest' /\ DistinctAttempts'
    BY <1>16, <1>t, <1>a, <1>f
    DEF AttemptInv, QueuedIsNewest, DistinctAttempts, LoopRunning, Discard,
        Step, modelVars, Reap, NoProc
  <2>3. CurrentSlotInv' /\ StartingInv'
    BY <1>16, <1>t, <1>a, <1>f
    DEF LockInv, AttemptInv, DistinctAttempts, CurrentSlotInv, StartingInv,
        Cancelled, LoopRunning, Discard, Step, modelVars, Reap, NoProc
  <2>4. ProcessInv'
    BY <1>16, <1>t, <1>f
    DEF LockInv, StoppingInv, StartingInv, ProcessInv, Supervised, Discard,
        Step, modelVars, Reap, NoProc
  <2>5. ChildInv'
    BY <1>16, <1>t, <1>f
    DEF LockInv, StoppingInv, StartingInv, ProcessInv, Supervised, ChildInv,
        Discard, Step, modelVars, Reap, NoProc
  <2> QED
    BY <2>1, <2>2, <2>3, <2>4, <2>5 DEF IInv
<1>17. CASE ReportConnected(t)
  <2>1. LockInv' /\ StoppingInv'
    BY <1>17, <1>t, <1>f
    DEF LockInv, StoppingInv, ReportConnected, Step, modelVars
  <2>2. AttemptInv' /\ QueuedIsNewest' /\ DistinctAttempts'
    BY <1>17, <1>t, <1>a, <1>f
    DEF AttemptInv, QueuedIsNewest, DistinctAttempts, LoopRunning,
        ReportConnected, Step, modelVars
  <2>3. CurrentSlotInv' /\ StartingInv'
    BY <1>17, <1>t, <1>a, <1>f
    DEF LockInv, AttemptInv, DistinctAttempts, CurrentSlotInv, StartingInv,
        Cancelled, LoopRunning, ReportConnected, Step, modelVars
  <2>4. ProcessInv'
    BY <1>17, <1>t, <1>f
    DEF LockInv, StoppingInv, StartingInv, ProcessInv, Supervised,
        ReportConnected, Step, modelVars
  <2>5. ChildInv'
    BY <1>17, <1>t, <1>f
    DEF LockInv, StoppingInv, StartingInv, ProcessInv, Supervised, ChildInv,
        ReportConnected, Step, modelVars
  <2> QED
    BY <2>1, <2>2, <2>3, <2>4, <2>5 DEF IInv
<1>18. CASE Unlock(t)
  <2>1. LockInv' /\ StoppingInv'
    BY <1>18, <1>t, <1>f
    DEF LockInv, StoppingInv, Unlock, Step, modelVars, slotVars, NoTask
  <2>2. AttemptInv' /\ QueuedIsNewest' /\ DistinctAttempts'
    BY <1>18, <1>t, <1>a, <1>f
    DEF AttemptInv, QueuedIsNewest, DistinctAttempts, LoopRunning, Unlock,
        Step, modelVars, slotVars, NoTask
  <2>3. CurrentSlotInv' /\ StartingInv'
    BY <1>18, <1>t, <1>a, <1>f
    DEF LockInv, AttemptInv, DistinctAttempts, CurrentSlotInv, StartingInv,
        Cancelled, LoopRunning, Unlock, Step, modelVars, slotVars, NoTask
  <2>4. ProcessInv'
    BY <1>18, <1>t, <1>f
    DEF LockInv, StoppingInv, StartingInv, ProcessInv, Supervised, Unlock,
        Step, modelVars, slotVars, NoTask
  <2>5. ChildInv'
    BY <1>18, <1>t, <1>f
    DEF LockInv, StoppingInv, StartingInv, ProcessInv, Supervised, ChildInv,
        Unlock, Step, modelVars, slotVars, NoTask
  <2> QED
    BY <2>1, <2>2, <2>3, <2>4, <2>5 DEF IInv
<1> QED
  BY <1>1, <1>2, <1>3, <1>4, <1>5, <1>6, <1>7, <1>8, <1>9, <1>10, <1>11,
      <1>12, <1>13, <1>14, <1>15, <1>16, <1>17, <1>18 DEF Thread

\* A disconnect by an effect, and what else the step leaves alone.
DisconnectStep ==
    /\ phase = "effect" /\ phase' = "recv"
    /\ effect' = NoEffect
    /\ Disconnect
    /\ UNCHANGED <<coordinator, child, stopping, procs>>

\* An effect that at most queues a connect.
QueueStep ==
    /\ phase = "effect" /\ phase' = "recv"
    /\ effect' = NoEffect
    /\ attempt' >= attempt
    /\ connection' = "Connecting" =>
         attempt' > attempt \/ (connection = "Connecting" /\ attempt' = attempt)
    /\ UNCHANGED <<slotVars, coordinator, pc, task, child, stopping, procs>>

\* A disconnect outdates every worker at once, and its handle is retired.
LEMMA DisconnectKeeps ==
    ASSUME IInv, TypeOK', DisconnectStep
    PROVE  IInv'
<1>t. /\ SlotTypeOK /\ ThreadTypeOK /\ SlotTypeOK' /\ ThreadTypeOK'
      /\ attempt \in Nat /\ attempt' \in Nat
  BY DEF IInv, TypeOK, ModelTypeOK
<1>f. /\ LockInv /\ StoppingInv /\ AttemptInv /\ QueuedIsNewest /\ DistinctAttempts
      /\ CurrentSlotInv /\ StartingInv /\ ProcessInv /\ ChildInv
  BY DEF IInv
<1>a. \A u \in Threads : task[u].attempt \in Nat /\ task'[u].attempt \in Nat
  BY <1>t DEF ThreadTypeOK, Task
<1> USE ConstantsAssumption DEF SlotTypeOK, ThreadTypeOK
<1>d. /\ phase = "effect" /\ phase' = "recv"
      /\ effect' = NoEffect /\ connection' = "Idle"
      /\ attempt' = attempt + 1 /\ slotAttempt' = attempt + 1
      /\ slotHandle' = None
      /\ slotRetired' = slotRetired \cup ({slotHandle} \ {None})
      /\ UNCHANGED <<coordinator, child, stopping, procs>>
  BY DEF DisconnectStep, Disconnect, ClearConnection, RetireHandle
<1>p. \A u \in Threads :
        \/ pc'[u] = pc[u] /\ task'[u] = task[u]
        \/ /\ pc[u] = "free" /\ pc'[u] = "lock"
           /\ task'[u].kind = "stop" /\ task'[u].attempt = 0
  BY <1>t DEF DisconnectStep, Disconnect, Spawn
<1>1. LockInv' /\ StoppingInv'
  BY <1>d, <1>p, <1>t, <1>f
  DEF LockInv, StoppingInv, NoEffect
<1>2. AttemptInv' /\ QueuedIsNewest' /\ DistinctAttempts'
  <2>1. \A u \in Threads : task'[u].attempt <= attempt
    BY <1>d, <1>p, <1>t, <1>a, <1>f DEF AttemptInv, LoopRunning
  <2>2. AttemptInv'
    <3>1. \A u \in Threads : task'[u].attempt <= slotAttempt'
      BY <1>d, <1>t, <1>a, <2>1
    <3>2. \A u \in Threads : pc'[u] # "free" => task'[u].kind # "none"
      BY <1>p, <1>f DEF AttemptInv
    <3>3. \A u \in Threads :
            pc'[u] \notin {"free", "lock", "take", "stop", "unlock"}
                => task'[u].kind = "connect"
      BY <1>p, <1>f DEF AttemptInv
    <3> QED
      BY <1>d, <1>t, <3>1, <3>2, <3>3 DEF AttemptInv
  <2>3. QueuedIsNewest'
    BY <1>d DEF QueuedIsNewest, NoEffect
  <2>4. DistinctAttempts'
    BY <1>p, <1>f DEF DistinctAttempts
  <2> QED
    BY <2>2, <2>3, <2>4
<1>3. CurrentSlotInv' /\ StartingInv'
  <2>1. \A u \in Threads : task'[u].attempt # slotAttempt'
    BY <1>d, <1>p, <1>t, <1>a, <1>f DEF AttemptInv, LoopRunning
  <2>2. CurrentSlotInv'
    BY <2>1 DEF CurrentSlotInv, Cancelled
  <2>3. StartingInv'
    BY <1>d, <1>p, <1>t, <1>f DEF StartingInv
  <2> QED
    BY <2>2, <2>3
<1>4. ProcessInv'
  BY <1>d, <1>p, <1>t, <1>f
  DEF LockInv, StoppingInv, StartingInv, ProcessInv, Supervised, NoEffect
<1>5. ChildInv'
  BY <1>d, <1>p, <1>t, <1>f
  DEF LockInv, StoppingInv, StartingInv, ProcessInv, Supervised, ChildInv,
      NoEffect
<1> QED
  BY <1>1, <1>2, <1>3, <1>4, <1>5 DEF IInv

\* Queueing a connect only raises the Model's attempt id.
LEMMA QueueKeeps ==
    ASSUME IInv, TypeOK', QueueStep
    PROVE  IInv'
<1>t. /\ SlotTypeOK /\ ThreadTypeOK /\ SlotTypeOK' /\ ThreadTypeOK'
      /\ attempt \in Nat /\ attempt' \in Nat
  BY DEF IInv, TypeOK, ModelTypeOK
<1>f. /\ LockInv /\ StoppingInv /\ AttemptInv /\ QueuedIsNewest /\ DistinctAttempts
      /\ CurrentSlotInv /\ StartingInv /\ ProcessInv /\ ChildInv
  BY DEF IInv
<1>a. \A u \in Threads : task[u].attempt \in Nat /\ task'[u].attempt \in Nat
  BY <1>t DEF ThreadTypeOK, Task
<1> USE ConstantsAssumption DEF SlotTypeOK, ThreadTypeOK
<1>1. LockInv' /\ StoppingInv'
  BY <1>t, <1>f
  DEF LockInv, StoppingInv, QueueStep, slotVars, NoEffect
<1>2. AttemptInv' /\ QueuedIsNewest' /\ DistinctAttempts'
  BY <1>t, <1>a, <1>f
  DEF AttemptInv, QueuedIsNewest, DistinctAttempts, LoopRunning, QueueStep,
      slotVars, NoEffect
<1>3. CurrentSlotInv' /\ StartingInv'
  BY <1>t, <1>a, <1>f
  DEF LockInv, AttemptInv, DistinctAttempts, CurrentSlotInv, StartingInv,
      Cancelled, LoopRunning, QueueStep, slotVars, NoEffect
<1>4. ProcessInv'
  BY <1>t, <1>f
  DEF LockInv, StoppingInv, StartingInv, ProcessInv, Supervised, QueueStep,
      slotVars, NoEffect
<1>5. ChildInv'
  BY <1>t, <1>f
  DEF LockInv, StoppingInv, StartingInv, ProcessInv, Supervised, ChildInv,
      QueueStep, slotVars, NoEffect
<1> QED
  BY <1>1, <1>2, <1>3, <1>4, <1>5 DEF IInv

\* Between two messages the main loop changes the attempt id, the slot and the
\* set of threads; it retires a handle before a newer worker can be current.
LEMMA MainKeeps ==
    ASSUME IInv, TypeOK', MainLoop
    PROVE  IInv'
<1>t. /\ SlotTypeOK /\ ThreadTypeOK /\ SlotTypeOK' /\ ThreadTypeOK'
      /\ attempt \in Nat /\ attempt' \in Nat
  BY DEF IInv, TypeOK, ModelTypeOK
<1>f. /\ LockInv /\ StoppingInv /\ AttemptInv /\ QueuedIsNewest /\ DistinctAttempts
      /\ CurrentSlotInv /\ StartingInv /\ ProcessInv /\ ChildInv
  BY DEF IInv
<1>a. \A u \in Threads : task[u].attempt \in Nat /\ task'[u].attempt \in Nat
  BY <1>t DEF ThreadTypeOK, Task
<1> USE ConstantsAssumption DEF SlotTypeOK, ThreadTypeOK
<1>1. CASE Update
  <2>0. UpdateStep
    BY <1>1, UpdateFacts DEF IInv
  <2>1. LockInv' /\ StoppingInv'
    BY <2>0, <1>t, <1>f
    DEF LockInv, StoppingInv, modelVars, slotVars, threadVars, UpdateStep
  <2>2. AttemptInv' /\ QueuedIsNewest' /\ DistinctAttempts'
    BY <2>0, <1>t, <1>a, <1>f
    DEF AttemptInv, QueuedIsNewest, DistinctAttempts, LoopRunning, modelVars,
        slotVars, threadVars, UpdateStep
  <2>3. CurrentSlotInv' /\ StartingInv'
    BY <2>0, <1>t, <1>a, <1>f
    DEF LockInv, AttemptInv, DistinctAttempts, CurrentSlotInv, StartingInv,
        Cancelled, LoopRunning, modelVars, slotVars, threadVars, UpdateStep
  <2>4. ProcessInv'
    BY <2>0, <1>t, <1>f
    DEF LockInv, StoppingInv, StartingInv, ProcessInv, Supervised, modelVars,
        slotVars, threadVars, UpdateStep
  <2>5. ChildInv'
    BY <2>0, <1>t, <1>f
    DEF LockInv, StoppingInv, StartingInv, ProcessInv, Supervised, ChildInv,
        modelVars, slotVars, threadVars, UpdateStep
  <2> QED
    BY <2>1, <2>2, <2>3, <2>4, <2>5 DEF IInv
<1>2. CASE SyncAttempt
  <2>1. LockInv' /\ StoppingInv'
    BY <1>2, <1>t, <1>f
    DEF LockInv, StoppingInv, SyncAttempt, modelVars, slotVars, threadVars
  <2>2. AttemptInv' /\ QueuedIsNewest' /\ DistinctAttempts'
    BY <1>2, <1>t, <1>a, <1>f
    DEF AttemptInv, QueuedIsNewest, DistinctAttempts, LoopRunning,
        SyncAttempt, modelVars, slotVars, threadVars
  <2>3. CurrentSlotInv' /\ StartingInv'
    <3>1. /\ slotAttempt <= attempt /\ slotAttempt' = attempt
          /\ UNCHANGED <<slotHandle, slotRetired, pc, task>>
      BY <1>2, <1>f DEF SyncAttempt, AttemptInv, LoopRunning, threadVars
    <3>2. CASE slotAttempt = attempt
      BY <3>1, <3>2, <1>f DEF CurrentSlotInv, StartingInv, Cancelled
    <3>3. CASE slotAttempt < attempt
      <4>1. \A u \in Threads : task'[u].attempt # slotAttempt'
        BY <3>1, <3>3, <1>t, <1>a, <1>f DEF AttemptInv
      <4> QED
        BY <3>1, <4>1, <1>f DEF CurrentSlotInv, StartingInv, Cancelled
    <3> QED
      BY <3>1, <3>2, <3>3, <1>t
  <2>4. ProcessInv'
    BY <1>2, <1>t, <1>f
    DEF LockInv, StoppingInv, StartingInv, ProcessInv, Supervised,
        SyncAttempt, modelVars, slotVars, threadVars
  <2>5. ChildInv'
    BY <1>2, <1>t, <1>f
    DEF LockInv, StoppingInv, StartingInv, ProcessInv, Supervised, ChildInv,
        SyncAttempt, modelVars, slotVars, threadVars
  <2> QED
    BY <2>1, <2>2, <2>3, <2>4, <2>5 DEF IInv
<1>3. CASE ExecuteConnect
  <2>1. LockInv' /\ StoppingInv'
    BY <1>3, <1>t, <1>f
    DEF LockInv, StoppingInv, ExecuteConnect, modelVars, slotVars, threadVars,
        Executes, RetireHandle, Spawn, NoEffect
  <2>2. AttemptInv' /\ QueuedIsNewest' /\ DistinctAttempts'
    BY <1>3, <1>t, <1>a, <1>f
    DEF AttemptInv, QueuedIsNewest, DistinctAttempts, LoopRunning,
        ExecuteConnect, modelVars, slotVars, threadVars, Executes,
        RetireHandle, Spawn, NoEffect
  <2>3. CurrentSlotInv' /\ StartingInv'
    BY <1>3, <1>t, <1>a, <1>f
    DEF LockInv, AttemptInv, DistinctAttempts, CurrentSlotInv, StartingInv,
        Cancelled, LoopRunning, ExecuteConnect, modelVars, slotVars,
        threadVars, Executes, RetireHandle, Spawn, NoEffect
  <2>4. ProcessInv'
    BY <1>3, <1>t, <1>f
    DEF LockInv, StoppingInv, StartingInv, ProcessInv, Supervised,
        ExecuteConnect, modelVars, slotVars, threadVars, Executes,
        RetireHandle, Spawn, NoEffect
  <2>5. ChildInv'
    BY <1>3, <1>t, <1>f
    DEF LockInv, StoppingInv, StartingInv, ProcessInv, Supervised, ChildInv,
        ExecuteConnect, modelVars, slotVars, threadVars, Executes,
        RetireHandle, Spawn, NoEffect
  <2> QED
    BY <2>1, <2>2, <2>3, <2>4, <2>5 DEF IInv
<1>4. CASE ExecuteDisconnect
  <2>1. DisconnectStep
    BY <1>4 DEF ExecuteDisconnect, Executes, DisconnectStep
  <2> QED
    BY <2>1, DisconnectKeeps
<1>5. CASE ExecuteCommitEditedConfig
  <2>1. /\ effect.profiles \in SUBSET Profiles
        /\ phase = "effect" /\ phase' = "recv" /\ effect' = NoEffect
        /\ UNCHANGED <<coordinator, child, stopping, procs>>
    BY <1>5, EffectFacts DEF ExecuteCommitEditedConfig, Executes, IInv, TypeOK, LoopTypeOK
  <2>2. CASE Disconnect
    <3>1. DisconnectStep
      BY <2>1, <2>2 DEF DisconnectStep
    <3> QED
      BY <3>1, DisconnectKeeps
  <2>3. CASE /\ ConfigReloaded(effect.profiles, effect.changed)
             /\ UNCHANGED <<slotVars, pc, task>>
    <3>1. QueueStep
      BY <2>1, <2>3, QueueConnectFacts DEF ConfigReloaded, QueueStep, IInv, TypeOK
    <3> QED
      BY <3>1, QueueKeeps
  <2>4. CASE UNCHANGED <<modelVars, slotVars, pc, task>>
    <3>1. QueueStep
      BY <1>t, <2>1, <2>4 DEF QueueStep, modelVars
    <3> QED
      BY <3>1, QueueKeeps
  <2> QED
    BY <1>5, <2>2, <2>3, <2>4 DEF ExecuteCommitEditedConfig
<1>6. CASE ExecuteCommitEditedRouting
  <2>1. QueueStep
    <3>1. CASE RoutingReloaded(effect.plan)
      BY <1>6, <3>1, RoutingReloadedFacts
      DEF ExecuteCommitEditedRouting, Executes, QueueStep, IInv, TypeOK, threadVars
    <3>2. CASE UNCHANGED <<modelVars, routingError, settings>>
      BY <1>6, <1>t, <3>2
      DEF ExecuteCommitEditedRouting, Executes, QueueStep, modelVars, threadVars
    <3> QED
      BY <1>6, <3>1, <3>2, Zenon DEF ExecuteCommitEditedRouting
  <2> QED
    BY <2>1, QueueKeeps
<1>7. CASE ExecuteQuit
  <2>1. LockInv' /\ StoppingInv'
    BY <1>7, <1>t, <1>f
    DEF LockInv, StoppingInv, ExecuteQuit, modelVars, slotVars, threadVars,
        Executes, NoEffect
  <2>2. AttemptInv' /\ QueuedIsNewest' /\ DistinctAttempts'
    BY <1>7, <1>t, <1>a, <1>f
    DEF AttemptInv, QueuedIsNewest, DistinctAttempts, LoopRunning,
        ExecuteQuit, modelVars, slotVars, threadVars, Executes, NoEffect
  <2>3. CurrentSlotInv' /\ StartingInv'
    BY <1>7, <1>t, <1>a, <1>f
    DEF LockInv, AttemptInv, DistinctAttempts, CurrentSlotInv, StartingInv,
        Cancelled, LoopRunning, ExecuteQuit, modelVars, slotVars, threadVars,
        Executes, NoEffect
  <2>4. ProcessInv'
    BY <1>7, <1>t, <1>f
    DEF LockInv, StoppingInv, StartingInv, ProcessInv, Supervised,
        ExecuteQuit, modelVars, slotVars, threadVars, Executes, NoEffect
  <2>5. ChildInv'
    BY <1>7, <1>t, <1>f
    DEF LockInv, StoppingInv, StartingInv, ProcessInv, Supervised, ChildInv,
        ExecuteQuit, modelVars, slotVars, threadVars, Executes, NoEffect
  <2> QED
    BY <2>1, <2>2, <2>3, <2>4, <2>5 DEF IInv
<1>8. CASE ShutdownBump
  <2>1. LockInv' /\ StoppingInv'
    BY <1>8, <1>t, <1>f
    DEF LockInv, StoppingInv, ShutdownBump, modelVars, slotVars, threadVars
  <2>2. AttemptInv' /\ QueuedIsNewest' /\ DistinctAttempts'
    BY <1>8, <1>t, <1>a, <1>f
    DEF AttemptInv, QueuedIsNewest, DistinctAttempts, LoopRunning,
        ShutdownBump, modelVars, slotVars, threadVars
  <2>3. CurrentSlotInv' /\ StartingInv'
    BY <1>8, <1>t, <1>a, <1>f
    DEF LockInv, AttemptInv, DistinctAttempts, CurrentSlotInv, StartingInv,
        Cancelled, LoopRunning, ShutdownBump, modelVars, slotVars, threadVars
  <2>4. ProcessInv'
    BY <1>8, <1>t, <1>f
    DEF LockInv, StoppingInv, StartingInv, ProcessInv, Supervised,
        ShutdownBump, modelVars, slotVars, threadVars
  <2>5. ChildInv'
    BY <1>8, <1>t, <1>f
    DEF LockInv, StoppingInv, StartingInv, ProcessInv, Supervised, ChildInv,
        ShutdownBump, modelVars, slotVars, threadVars
  <2> QED
    BY <2>1, <2>2, <2>3, <2>4, <2>5 DEF IInv
<1>9. CASE ShutdownTake
  <2>1. LockInv' /\ StoppingInv'
    BY <1>9, <1>t, <1>f
    DEF LockInv, StoppingInv, ShutdownTake, modelVars, slotVars, threadVars,
        SlotHandles
  <2>2. AttemptInv' /\ QueuedIsNewest' /\ DistinctAttempts'
    BY <1>9, <1>t, <1>a, <1>f
    DEF AttemptInv, QueuedIsNewest, DistinctAttempts, LoopRunning,
        ShutdownTake, modelVars, slotVars, threadVars, SlotHandles
  <2>3. CurrentSlotInv' /\ StartingInv'
    BY <1>9, <1>t, <1>a, <1>f
    DEF LockInv, AttemptInv, DistinctAttempts, CurrentSlotInv, StartingInv,
        Cancelled, LoopRunning, ShutdownTake, modelVars, slotVars, threadVars,
        SlotHandles
  <2>4. ProcessInv'
    BY <1>9, <1>t, <1>f
    DEF LockInv, StoppingInv, StartingInv, ProcessInv, Supervised,
        ShutdownTake, modelVars, slotVars, threadVars, SlotHandles
  <2>5. ChildInv'
    BY <1>9, <1>t, <1>f
    DEF LockInv, StoppingInv, StartingInv, ProcessInv, Supervised, ChildInv,
        ShutdownTake, modelVars, slotVars, threadVars, SlotHandles
  <2> QED
    BY <2>1, <2>2, <2>3, <2>4, <2>5 DEF IInv
<1>10. CASE ShutdownStop
  <2>1. LockInv' /\ StoppingInv'
    BY <1>10, <1>t, <1>f
    DEF LockInv, StoppingInv, ShutdownStop, modelVars, slotVars, threadVars,
        Reap, NoProc
  <2>2. AttemptInv' /\ QueuedIsNewest' /\ DistinctAttempts'
    BY <1>10, <1>t, <1>a, <1>f
    DEF AttemptInv, QueuedIsNewest, DistinctAttempts, LoopRunning,
        ShutdownStop, modelVars, slotVars, threadVars, Reap, NoProc
  <2>3. CurrentSlotInv' /\ StartingInv'
    BY <1>10, <1>t, <1>a, <1>f
    DEF LockInv, AttemptInv, DistinctAttempts, CurrentSlotInv, StartingInv,
        Cancelled, LoopRunning, ShutdownStop, modelVars, slotVars, threadVars,
        Reap, NoProc
  <2>4. ProcessInv'
    BY <1>10, <1>t, <1>f
    DEF LockInv, StoppingInv, StartingInv, ProcessInv, Supervised,
        ShutdownStop, modelVars, slotVars, threadVars, Reap, NoProc
  <2>5. ChildInv'
    BY <1>10, <1>t, <1>f
    DEF LockInv, StoppingInv, StartingInv, ProcessInv, Supervised, ChildInv,
        ShutdownStop, modelVars, slotVars, threadVars, Reap, NoProc
  <2> QED
    BY <2>1, <2>2, <2>3, <2>4, <2>5 DEF IInv
<1>11. CASE ShutdownExit
  <2>1. LockInv' /\ StoppingInv'
    BY <1>11, <1>t, <1>f
    DEF LockInv, StoppingInv, ShutdownExit, modelVars, slotVars, threadVars
  <2>2. AttemptInv' /\ QueuedIsNewest' /\ DistinctAttempts'
    BY <1>11, <1>t, <1>a, <1>f
    DEF AttemptInv, QueuedIsNewest, DistinctAttempts, LoopRunning,
        ShutdownExit, modelVars, slotVars, threadVars
  <2>3. CurrentSlotInv' /\ StartingInv'
    BY <1>11, <1>t, <1>a, <1>f
    DEF LockInv, AttemptInv, DistinctAttempts, CurrentSlotInv, StartingInv,
        Cancelled, LoopRunning, ShutdownExit, modelVars, slotVars, threadVars
  <2>4. ProcessInv'
    BY <1>11, <1>t, <1>f
    DEF LockInv, StoppingInv, StartingInv, ProcessInv, Supervised,
        ShutdownExit, modelVars, slotVars, threadVars
  <2>5. ChildInv'
    BY <1>11, <1>t, <1>f
    DEF LockInv, StoppingInv, StartingInv, ProcessInv, Supervised, ChildInv,
        ShutdownExit, modelVars, slotVars, threadVars
  <2> QED
    BY <2>1, <2>2, <2>3, <2>4, <2>5 DEF IInv
<1> QED
  BY <1>1, <1>2, <1>3, <1>4, <1>5, <1>6, <1>7, <1>8, <1>9, <1>10, <1>11 DEF
      MainLoop

\* The ticker empties the slot only of a process it has reaped, and nothing
\* outside the daemon touches slot, threads or attempt id.
LEMMA EnvironmentKeeps ==
    ASSUME IInv, TypeOK',
           Ticker \/ SendInput \/ EditDisk \/ ProcessExits \/ UNCHANGED vars
    PROVE  IInv'
<1>t. /\ SlotTypeOK /\ ThreadTypeOK /\ SlotTypeOK' /\ ThreadTypeOK'
      /\ attempt \in Nat /\ attempt' \in Nat
  BY DEF IInv, TypeOK, ModelTypeOK
<1>f. /\ LockInv /\ StoppingInv /\ AttemptInv /\ QueuedIsNewest /\ DistinctAttempts
      /\ CurrentSlotInv /\ StartingInv /\ ProcessInv /\ ChildInv
  BY DEF IInv
<1>a. \A u \in Threads : task[u].attempt \in Nat /\ task'[u].attempt \in Nat
  BY <1>t DEF ThreadTypeOK, Task
<1> USE ConstantsAssumption DEF SlotTypeOK, ThreadTypeOK
<1>1. CASE PollExit
  <2>1. LockInv' /\ StoppingInv'
    BY <1>1, <1>t, <1>f
    DEF LockInv, StoppingInv, PollExit, modelVars, slotVars, threadVars, Reap,
        NoProc
  <2>2. AttemptInv' /\ QueuedIsNewest' /\ DistinctAttempts'
    BY <1>1, <1>t, <1>a, <1>f
    DEF AttemptInv, QueuedIsNewest, DistinctAttempts, LoopRunning, PollExit,
        modelVars, slotVars, threadVars, Reap, NoProc
  <2>3. CurrentSlotInv' /\ StartingInv'
    BY <1>1, <1>t, <1>a, <1>f
    DEF LockInv, AttemptInv, DistinctAttempts, CurrentSlotInv, StartingInv,
        Cancelled, LoopRunning, PollExit, modelVars, slotVars, threadVars,
        Reap, NoProc
  <2>4. ProcessInv'
    BY <1>1, <1>t, <1>f
    DEF LockInv, StoppingInv, StartingInv, ProcessInv, Supervised, PollExit,
        modelVars, slotVars, threadVars, Reap, NoProc
  <2>5. ChildInv'
    BY <1>1, <1>t, <1>f
    DEF LockInv, StoppingInv, StartingInv, ProcessInv, Supervised, ChildInv,
        PollExit, modelVars, slotVars, threadVars, Reap, NoProc
  <2> QED
    BY <2>1, <2>2, <2>3, <2>4, <2>5 DEF IInv
<1>2. CASE ProcessExits
  <2>1. LockInv' /\ StoppingInv'
    BY <1>2, <1>t, <1>f
    DEF LockInv, StoppingInv, ProcessExits, modelVars, slotVars, threadVars
  <2>2. AttemptInv' /\ QueuedIsNewest' /\ DistinctAttempts'
    BY <1>2, <1>t, <1>a, <1>f
    DEF AttemptInv, QueuedIsNewest, DistinctAttempts, LoopRunning,
        ProcessExits, modelVars, slotVars, threadVars
  <2>3. CurrentSlotInv' /\ StartingInv'
    BY <1>2, <1>t, <1>a, <1>f
    DEF LockInv, AttemptInv, DistinctAttempts, CurrentSlotInv, StartingInv,
        Cancelled, LoopRunning, ProcessExits, modelVars, slotVars, threadVars
  <2>4. ProcessInv'
    BY <1>2, <1>t, <1>f
    DEF LockInv, StoppingInv, StartingInv, ProcessInv, Supervised,
        ProcessExits, modelVars, slotVars, threadVars
  <2>5. ChildInv'
    BY <1>2, <1>t, <1>f
    DEF LockInv, StoppingInv, StartingInv, ProcessInv, Supervised, ChildInv,
        ProcessExits, modelVars, slotVars, threadVars
  <2> QED
    BY <2>1, <2>2, <2>3, <2>4, <2>5 DEF IInv
<1>3. CASE SendExit \/ SendTick \/ SendInput \/ EditDisk \/ UNCHANGED vars
  <2>0. UNCHANGED <<modelVars, phase, effect, slotVars, coordinator, threadVars, procs>>
    BY <1>3 DEF SendExit, SendTick, SendInput, EditDisk, vars
  <2>1. LockInv' /\ StoppingInv'
    BY <2>0, <1>t, <1>f
    DEF LockInv, StoppingInv, modelVars, slotVars, threadVars
  <2>2. AttemptInv' /\ QueuedIsNewest' /\ DistinctAttempts'
    BY <2>0, <1>t, <1>a, <1>f
    DEF AttemptInv, QueuedIsNewest, DistinctAttempts, LoopRunning, modelVars,
        slotVars, threadVars
  <2>3. CurrentSlotInv' /\ StartingInv'
    BY <2>0, <1>t, <1>a, <1>f
    DEF LockInv, AttemptInv, DistinctAttempts, CurrentSlotInv, StartingInv,
        Cancelled, LoopRunning, modelVars, slotVars, threadVars
  <2>4. ProcessInv'
    BY <2>0, <1>t, <1>f
    DEF LockInv, StoppingInv, StartingInv, ProcessInv, Supervised, modelVars,
        slotVars, threadVars
  <2>5. ChildInv'
    BY <2>0, <1>t, <1>f
    DEF LockInv, StoppingInv, StartingInv, ProcessInv, Supervised, ChildInv,
        modelVars, slotVars, threadVars
  <2> QED
    BY <2>1, <2>2, <2>3, <2>4, <2>5 DEF IInv
<1> QED
  BY <1>1, <1>2, <1>3 DEF Ticker

\* The daemon starts with an empty slot, no thread and no process.
LEMMA InitKeeps == Init => IInv
<1> SUFFICES ASSUME Init PROVE IInv
  OBVIOUS
<1>1. TypeOK
  BY InitTypes
<1>2. LockInv /\ StoppingInv
  BY ConstantsAssumption DEF Init, LockInv, StoppingInv
<1>3. AttemptInv /\ QueuedIsNewest /\ DistinctAttempts
  BY DEF Init, AttemptInv, QueuedIsNewest, DistinctAttempts, NoTask, NoEffect
<1>4. CurrentSlotInv /\ StartingInv /\ ProcessInv /\ ChildInv
  BY DEF Init, CurrentSlotInv, StartingInv, ProcessInv, ChildInv, NoTask, NoProc
<1> QED
  BY <1>1, <1>2, <1>3, <1>4 DEF IInv

\* The invariant behind the tunnel's safety holds in every reachable state.
THEOREM Invariant == Spec => []IInv
<1>1. IInv /\ [Next]_vars => IInv'
  <2> SUFFICES ASSUME IInv, [Next]_vars PROVE IInv'
    OBVIOUS
  <2>1. TypeOK'
    BY NextTypes DEF IInv
  <2> QED
    BY <2>1, ThreadKeeps, MainKeeps, EnvironmentKeeps DEF Next, Terminated
<1> QED
  BY <1>1, InitKeeps, PTL DEF Spec

\* For any number of threads, pids, profiles and messages, two sing-box
\* processes never run at once.
THEOREM OneSingBox == Spec => []AtMostOneSingBox
<1>1. IInv => AtMostOneSingBox
  BY DEF IInv, ProcessInv, AtMostOneSingBox, Running
<1> QED
  BY <1>1, Invariant, PTL

\* Every running sing-box has an owner that will stop or report it.
THEOREM NoneForgotten == Spec => []NoForgottenProcess
<1>1. IInv => NoForgottenProcess
  BY DEF IInv, ProcessInv, NoForgottenProcess, Running
<1> QED
  BY <1>1, Invariant, PTL

\* When run has returned, every process was stopped and reaped.
THEOREM CleanExit == Spec => []CleanExitLeavesNoProcess
<1>1. IInv => CleanExitLeavesNoProcess
  <2> SUFFICES ASSUME IInv, phase = "exited", NEW p \in Pids,
                      procs[p].state # "free"
               PROVE  FALSE
    BY DEF CleanExitLeavesNoProcess
  <2>1. coordinator = Main /\ slotHandle = None /\ slotRetired = {}
        /\ stopping[Main] = {}
    BY DEF IInv, LockInv, StoppingInv
  <2>2. \A t \in Threads : pc[t] \in {"free", "lock"} /\ stopping[t] = {}
    BY <2>1, ConstantsAssumption DEF IInv, LockInv, StoppingInv
  <2>3. Supervised(p)
    BY DEF IInv, ProcessInv
  <2> QED
    BY <2>1, <2>2, <2>3, ConstantsAssumption DEF Supervised
<1> QED
  BY <1>1, Invariant, PTL

-----------------------------------------------------------------------------
(* ConnectionLifecycle implements SingleTunnel: seen through the slot,     *)
(* every step of a worker, of the main loop or of the environment          *)
(* supersedes, starts, publishes or ends the one tunnel, or changes        *)
(* nothing.                                                                *)
(*                                                                         *)
(* ServiceInv is inductive: a report of success is, as long as the Model   *)
(* would believe it, about the process in the slot.  A worker installs its *)
(* process before it reports, the ticker stamps an exit with the slot's    *)
(* attempt id, and every handler that gives up the slot's process takes a  *)
(* new attempt id, which makes older reports stale.                        *)

\* There being one process at most, Tunnel is that process.
LEMMA TheOnlyOne ==
    ASSUME NEW S, NEW p \in S, \A q \in S : q = p
    PROVE  (CHOOSE q \in S : TRUE) = p
OBVIOUS

\* The tunnel of SingleTunnel is the process that runs, if one does.
LEMMA TunnelValue ==
    ASSUME ProcessInv, ProcessInv'
    PROVE  /\ Running = {} => Tunnel = [attempt |-> 0, phase |-> "none"]
           /\ \A p \in Running :
                Tunnel = [attempt |-> procs[p].attempt,
                          phase |-> IF IsStarting(p) THEN "starting" ELSE "serving"]
           /\ Running' = {} => Tunnel' = [attempt |-> 0, phase |-> "none"]
           /\ \A p \in Running' :
                Tunnel' = [attempt |-> procs'[p].attempt,
                           phase |-> IF IsStarting(p)' THEN "starting" ELSE "serving"]
<1>1. \A p, q \in Running : p = q
  BY DEF ProcessInv, Running
<1>2. \A p, q \in Running' : p = q
  BY DEF ProcessInv, Running
<1>3. ASSUME NEW p \in Running
      PROVE  (CHOOSE q \in Running : TRUE) = p
  BY <1>1, TheOnlyOne
<1>4. ASSUME NEW p \in Running'
      PROVE  (CHOOSE q \in Running' : TRUE) = p
  BY <1>2, TheOnlyOne
<1>5. ASSUME NEW p \in Running
      PROVE  Tunnel = [attempt |-> procs[p].attempt,
                       phase |-> IF IsStarting(p) THEN "starting" ELSE "serving"]
  BY <1>3 DEF Tunnel
<1>6. ASSUME NEW p \in Running'
      PROVE  Tunnel' = [attempt |-> procs'[p].attempt,
                        phase |-> IF IsStarting(p)' THEN "starting" ELSE "serving"]
  BY <1>4 DEF Tunnel
<1>7. /\ Running = {} => Tunnel = [attempt |-> 0, phase |-> "none"]
      /\ Running' = {} => Tunnel' = [attempt |-> 0, phase |-> "none"]
  BY DEF Tunnel
<1> QED
  BY <1>5, <1>6, <1>7

\* A step that leaves the running process to its owner leaves the tunnel
\* alone.
LEMMA TunnelKept ==
    ASSUME ProcessInv, ProcessInv', Running' = Running,
           \A p \in Running : /\ procs'[p].attempt = procs[p].attempt
                              /\ IsStarting(p)' <=> IsStarting(p)
    PROVE  Tunnel' = Tunnel
<1>2. CASE Running = {}
  BY <1>2, TunnelValue
<1>3. CASE Running # {}
  <2>1. PICK p \in Running : TRUE
    BY <1>3
  <2> QED
    BY <2>1, TunnelValue
<1> QED
  BY <1>2, <1>3

\* A step that reaps or loses process q ends the tunnel, when q was running.
LEMMA TunnelEnds ==
    ASSUME ProcessInv, ProcessInv', NEW q \in Pids,
           procs'[q].state # "up",
           \A p \in Pids \ {q} : procs'[p] = procs[p] /\ (IsStarting(p)' <=> IsStarting(p)),
           UNCHANGED <<slotAttempt, phase>>
    PROVE  Promise!End \/ UNCHANGED <<slotAttempt, Tunnel, phase>>
<1>1. CASE procs[q].state = "up"
  <2>1. q \in Running /\ Running' = {}
    BY <1>1 DEF Running, ProcessInv
  <2>2. Tunnel' = [attempt |-> 0, phase |-> "none"]
    BY <2>1, TunnelValue
  <2>3. Tunnel # [attempt |-> 0, phase |-> "none"]
    BY <2>1, TunnelValue
  <2> QED
    BY <2>2, <2>3 DEF Promise!End, Promise!NoTunnel
<1>2. CASE procs[q].state # "up"
  <2>1. Running' = Running /\ \A p \in Running : p \in Pids \ {q}
    BY <1>2 DEF Running
  <2>2. Tunnel' = Tunnel
    BY <2>1, TunnelKept
  <2> QED
    BY <2>2
<1> QED
  BY <1>1, <1>2

\* When run has returned, no process is left.
LEMMA ExitedIsEmpty ==
    ASSUME IInv', phase' = "exited"
    PROVE  \A p \in Pids : procs'[p].state = "free"
<1> SUFFICES ASSUME NEW p \in Pids, procs'[p].state # "free" PROVE FALSE
  OBVIOUS
<1>1. coordinator' = Main /\ slotHandle' = None /\ slotRetired' = {}
      /\ stopping'[Main] = {}
  BY DEF IInv, LockInv, StoppingInv
<1>2. \A t \in Threads : pc'[t] \in {"free", "lock"} /\ stopping'[t] = {}
  BY <1>1, ConstantsAssumption DEF IInv, LockInv, StoppingInv
<1>3. Supervised(p)'
  BY DEF IInv, ProcessInv
<1> QED
  BY <1>1, <1>2, <1>3, ConstantsAssumption DEF Supervised

\* Workers and stoppers: a spawn starts the tunnel, an install by the current
\* attempt publishes it, and whoever reaps a process ends it.
LEMMA ThreadImplements ==
    ASSUME IInv, IInv', NEW t \in Threads, Thread(t)
    PROVE  [Promise!Next]_(Promise!vars)
<1>t. SlotTypeOK /\ ThreadTypeOK /\ SlotTypeOK' /\ ThreadTypeOK'
  BY DEF IInv, TypeOK
<1>f. /\ LockInv /\ StoppingInv /\ AttemptInv /\ StartingInv /\ ProcessInv /\ ChildInv
      /\ ProcessInv'
  BY DEF IInv
<1>s. UNCHANGED <<slotAttempt, phase>>
  BY RetryFacts DEF IInv, Thread, Lock, TakeRetired, StopRetired, StoppedRetired, CheckCurrent,
      StartFails, CheckedConfig, SpawnSingBox, WatchExited, WatchCancelled, WatchReady,
      WaitCancelled, WaitElapsed, ReportFailed, Install, Discard, ReportConnected,
      Unlock, Step, slotVars
<1>k. SUFFICES ASSUME ~(UNCHANGED <<slotAttempt, Tunnel, phase>>)
               PROVE  Promise!Next
  BY DEF Promise!vars
<1> USE DEF SlotTypeOK, ThreadTypeOK
<1>1. CASE Lock(t) \/ TakeRetired(t) \/ StoppedRetired(t) \/ CheckCurrent(t)
           \/ StartFails(t) \/ CheckedConfig(t) \/ WatchReady(t) \/ WaitCancelled(t)
           \/ WaitElapsed(t) \/ ReportFailed(t) \/ ReportConnected(t) \/ Unlock(t)
  <2>1. UNCHANGED procs
    BY <1>1 DEF Lock, TakeRetired, StoppedRetired, CheckCurrent, StartFails, CheckedConfig,
        WatchReady, WaitCancelled, WaitElapsed, ReportFailed, ReportConnected, Unlock
  <2>2. \A p \in Pids : IsStarting(p)' <=> IsStarting(p)
    <3>1. CASE StartFails(t)
      <4>1. /\ \E from \in {"start", "spawn"}, to \in {"unlock", "wait", "failed"} :
                 Step(t, from, to)
            /\ UNCHANGED child
        BY <3>1, RetryFacts DEF IInv, StartFails
      <4> QED
        BY <4>1, <1>t DEF IsStarting, Step
    <3>2. CASE ~StartFails(t)
      BY <1>1, <3>2, <1>t DEF IsStarting, Lock, TakeRetired, StoppedRetired, CheckCurrent,
          CheckedConfig, WatchReady, WaitCancelled, WaitElapsed, ReportFailed,
          ReportConnected, Unlock, Step
    <3> QED
      BY <3>1, <3>2
  <2>3. Running' = Running /\ Running \subseteq Pids
    BY <2>1 DEF Running
  <2>4. Tunnel' = Tunnel
    BY <1>f, <2>1, <2>2, <2>3, TunnelKept
  <2> QED
    BY <1>k, <1>s, <2>4
<1>2. CASE StopRetired(t)
  <2>1. PICK p \in stopping[t] : procs' = [procs EXCEPT ![p] = NoProc]
    BY <1>2 DEF StopRetired, Reap
  <2>2. p \in Pids
    BY <1>t
  <2>3. \A q \in Pids : IsStarting(q)' <=> IsStarting(q)
    BY <1>2, <1>t DEF IsStarting, StopRetired, Step
  <2>4. procs'[p].state # "up" /\ \A q \in Pids \ {p} : procs'[q] = procs[q]
    BY <1>t, <2>1, <2>2 DEF NoProc
  <2> QED
    BY <1>f, <1>k, <1>s, <2>2, <2>3, <2>4, TunnelEnds DEF Promise!Next
<1>3. CASE WatchExited(t) \/ WatchCancelled(t) \/ Discard(t)
  <2>1. /\ child[t] \in Pids
        /\ procs' = [procs EXCEPT ![child[t]] = NoProc]
        /\ \E from \in {"watch", "discard"}, to \in {"start", "unlock", "wait", "failed"} :
             Step(t, from, to)
        /\ child' = [child EXCEPT ![t] = None]
    BY <1>3, RetryFacts DEF IInv, WatchExited, WatchCancelled, Discard, Reap
  <2>2. \A q \in Pids \ {child[t]} : IsStarting(q)' <=> IsStarting(q)
    BY <2>1, <1>t DEF IsStarting, Step
  <2>4. procs'[child[t]].state # "up" /\ \A q \in Pids \ {child[t]} : procs'[q] = procs[q]
    BY <1>t, <2>1 DEF NoProc
  <2> QED
    BY <1>f, <1>k, <1>s, <2>1, <2>2, <2>4, TunnelEnds DEF Promise!Next
<1>4. CASE SpawnSingBox(t)
  <2>1. PICK p \in Pids :
          /\ procs' = [procs EXCEPT ![p] =
                         [state |-> "up", attempt |-> task[t].attempt,
                          profile |-> task[t].profile,
                          settings |-> task[t].settings]]
          /\ child' = [child EXCEPT ![t] = p]
    BY <1>4 DEF SpawnSingBox
  <2>2. pc[t] = "spawn" /\ pc'[t] = "watch" /\ phase # "exited"
    BY <1>4, <1>t DEF SpawnSingBox, Step
  <2>3. Running = {}
    <3> SUFFICES ASSUME NEW q \in Pids, procs[q].state # "free" PROVE FALSE
      BY DEF Running
    <3>1. coordinator = t
      BY <2>2, <1>f DEF LockInv
    <3>2. \A u \in Threads \cup {Main} : stopping[u] = {}
      BY <2>2, <3>1, <1>t, <1>f, ConstantsAssumption DEF LockInv, StoppingInv
    <3>3. \A u \in Threads : pc[u] \notin {"watch", "install", "discard"}
      BY <2>2, <3>1, <1>f DEF LockInv
    <3> QED
      BY <2>2, <3>2, <3>3, <1>f, ConstantsAssumption DEF StartingInv, ProcessInv, Supervised
  <2>4. p \in Running' /\ procs'[p].attempt = task[t].attempt /\ IsStarting(p)'
    BY <2>1, <2>2, <1>t DEF Running, IsStarting
  <2>5. Tunnel = [attempt |-> 0, phase |-> "none"]
    BY <2>3, <1>f, TunnelValue
  <2>6. Tunnel' = [attempt |-> task[t].attempt, phase |-> "starting"]
    BY <2>4, <1>f, TunnelValue
  <2>7. task[t].attempt \in 0 .. slotAttempt
    BY <1>t, <1>f DEF AttemptInv, Task
  <2>8. Promise!Start
    BY <2>2, <2>5, <2>6, <2>7, <1>s DEF Promise!Start, Promise!NoTunnel
  <2> QED
    BY <2>8 DEF Promise!Next
<1>5. CASE Install(t)
  <2>1. pc[t] = "install" /\ UNCHANGED <<procs, child>> /\ Running' = Running
    BY <1>5 DEF Install, Step, Running
  <2>2. /\ child[t] \in Pids
        /\ procs[child[t]].state # "free"
        /\ procs[child[t]].attempt = task[t].attempt
    BY <2>1, <1>f DEF ChildInv
  <2>3. \A p \in Running : p = child[t]
    BY <2>2, <1>f DEF ProcessInv, Running
  <2>4. CASE Cancelled(t)
    <3>1. IsStarting(child[t]) /\ IsStarting(child[t])'
      BY <1>5, <2>1, <2>4, <1>t DEF IsStarting, Install, Step
    <3>2. Tunnel' = Tunnel
      BY <2>1, <2>3, <3>1, <1>f, TunnelKept
    <3> QED
      BY <1>k, <1>s, <3>2
  <2>5. CASE Running = {}
    BY <1>k, <1>s, <1>f, <2>1, <2>5, TunnelValue
  <2>6. CASE ~Cancelled(t) /\ Running # {}
    <3>1. child[t] \in Running /\ child[t] \in Running'
      BY <2>1, <2>3, <2>6
    <3>2. IsStarting(child[t])
      BY <2>1 DEF IsStarting
    <3>3. ~IsStarting(child[t])'
      <4>1. coordinator = t
        BY <2>1, <1>f DEF LockInv
      <4>2. \A u \in Threads : pc'[u] \notin {"watch", "install", "discard"}
        BY <1>5, <2>6, <4>1, <1>t, <1>f DEF LockInv, Install, Step
      <4> QED
        BY <4>2 DEF IsStarting
    <3>4. Tunnel = [attempt |-> slotAttempt, phase |-> "starting"]
      BY <2>2, <2>6, <3>1, <3>2, <1>f, TunnelValue DEF Cancelled
    <3>5. Tunnel' = [attempt |-> slotAttempt, phase |-> "serving"]
      BY <2>1, <2>2, <2>6, <3>1, <3>3, <1>f, TunnelValue DEF Cancelled
    <3>6. Promise!Publish
      BY <3>4, <3>5, <1>s DEF Promise!Publish
    <3> QED
      BY <3>6 DEF Promise!Next
  <2> QED
    BY <2>4, <2>5, <2>6
<1> QED
  BY <1>1, <1>2, <1>3, <1>4, <1>5 DEF Thread

\* What the main loop does to the slot's attempt id only ever raises it, and
\* it starts no process itself.
LEMMA MainImplements ==
    ASSUME IInv, IInv', MainLoop
    PROVE  [Promise!Next]_(Promise!vars)
<1>t. SlotTypeOK /\ ThreadTypeOK /\ SlotTypeOK' /\ ThreadTypeOK'
      /\ attempt \in Nat /\ TypeOK
  BY DEF IInv, TypeOK, ModelTypeOK
<1>f. StoppingInv /\ AttemptInv /\ ProcessInv /\ ProcessInv'
  BY DEF IInv
<1>k. SUFFICES ASSUME ~(UNCHANGED <<slotAttempt, Tunnel, phase>>)
               PROVE  \/ Promise!Next
                      \/ /\ phase = "exited" <=> phase' = "exited"
                         /\ UNCHANGED <<slotAttempt, Tunnel>>
  BY DEF Promise!vars
<1> USE DEF SlotTypeOK, ThreadTypeOK
<1>1. CASE Update \/ SyncAttempt \/ ExecuteConnect \/ ExecuteDisconnect
           \/ ExecuteCommitEditedConfig \/ ExecuteCommitEditedRouting \/ ExecuteQuit
           \/ ShutdownBump \/ ShutdownTake
  <2>1. /\ phase # "exited" /\ phase' # "exited"
        /\ UNCHANGED <<procs, child>>
        /\ slotAttempt' >= slotAttempt
        /\ \/ UNCHANGED pc
           \/ \E t \in Threads : pc[t] = "free" /\ pc' = [pc EXCEPT ![t] = "lock"]
    <3>1. CASE Update
      BY <3>1, <1>t, UpdateFacts DEF UpdateStep, slotVars, threadVars
    <3>2. CASE ~Update
      BY <1>1, <3>2, <1>t, <1>f
      DEF AttemptInv, LoopRunning, SyncAttempt, ExecuteConnect, ExecuteDisconnect, Disconnect,
          ExecuteCommitEditedConfig, ExecuteCommitEditedRouting, ExecuteQuit,
          ShutdownBump, ShutdownTake, Executes, Spawn, slotVars, threadVars
    <3> QED
      BY <3>1, <3>2
  <2>2. \A p \in Pids : IsStarting(p)' <=> IsStarting(p)
    BY <2>1, <1>t DEF IsStarting
  <2>3. Running' = Running /\ Running \subseteq Pids
    BY <2>1 DEF Running
  <2>4. Tunnel' = Tunnel
    BY <2>1, <2>2, <2>3, <1>f, TunnelKept
  <2>5. Promise!Supersede \/ UNCHANGED slotAttempt
    BY <2>1, <2>4, <1>t DEF Promise!Supersede
  <2> QED
    BY <2>1, <2>4, <2>5 DEF Promise!Next
<1>2. CASE ShutdownStop
  <2>1. PICK p \in stopping[Main] : procs' = [procs EXCEPT ![p] = NoProc]
    BY <1>2 DEF ShutdownStop, Reap
  <2>2. p \in Pids
    BY <1>t
  <2>3. \A q \in Pids : IsStarting(q)' <=> IsStarting(q)
    BY <1>2 DEF IsStarting, ShutdownStop
  <2>4. procs'[p].state # "up" /\ \A q \in Pids \ {p} : procs'[q] = procs[q]
    BY <1>t, <2>1, <2>2 DEF NoProc
  <2>5. UNCHANGED <<slotAttempt, phase>>
    BY <1>2 DEF ShutdownStop, slotVars
  <2> QED
    BY <1>f, <1>k, <2>2, <2>3, <2>4, <2>5, TunnelEnds DEF Promise!Next
<1>3. CASE ShutdownExit
  <2>1. /\ UNCHANGED <<slotAttempt, procs, pc, child>> /\ phase' = "exited"
    BY <1>3 DEF ShutdownExit, slotVars, threadVars
  <2>2. Running' = {}
    BY <2>1, ExitedIsEmpty DEF Running
  <2>3. Running = {}
    BY <2>1, <2>2 DEF Running
  <2>4. Tunnel = Promise!NoTunnel /\ Tunnel' = Promise!NoTunnel
    BY <2>2, <2>3, <1>f, TunnelValue DEF Promise!NoTunnel
  <2>5. Promise!Exit
    BY <2>1, <2>4 DEF Promise!Exit
  <2> QED
    BY <2>5 DEF Promise!Next
<1> QED
  BY <1>1, <1>2, <1>3 DEF MainLoop

\* The ticker reaps only what has exited; a dying process ends the tunnel.
LEMMA EnvironmentImplements ==
    ASSUME IInv, IInv',
           Ticker \/ SendInput \/ EditDisk \/ ProcessExits \/ UNCHANGED vars
    PROVE  [Promise!Next]_(Promise!vars)
<1>t. SlotTypeOK
  BY DEF IInv, TypeOK
<1>f. ProcessInv /\ ProcessInv'
  BY DEF IInv
<1>k. SUFFICES ASSUME ~(UNCHANGED <<slotAttempt, Tunnel, phase>>)
               PROVE  Promise!Next
  BY DEF Promise!vars
<1>1. /\ UNCHANGED <<slotAttempt, phase, pc, child>>
      /\ \A p \in Pids : IsStarting(p)' <=> IsStarting(p)
  BY DEF Ticker, PollExit, SendExit, SendTick, SendInput, EditDisk, ProcessExits, vars,
      slotVars, threadVars, IsStarting
<1>2. CASE PollExit \/ ProcessExits
  <2>1. PICK p \in Pids : /\ procs'[p].state # "up"
                          /\ \A q \in Pids \ {p} : procs'[q] = procs[q]
    BY <1>2, <1>t DEF PollExit, ProcessExits, Reap, NoProc, SlotTypeOK, Proc
  <2> QED
    BY <1>f, <1>k, <1>1, <2>1, TunnelEnds DEF Promise!Next
<1>3. CASE ~(PollExit \/ ProcessExits)
  <2>1. UNCHANGED procs
    BY <1>3 DEF Ticker, SendExit, SendTick, SendInput, EditDisk, vars
  <2>2. Running' = Running /\ Running \subseteq Pids
    BY <2>1 DEF Running
  <2>3. Tunnel' = Tunnel
    BY <1>1, <2>1, <2>2, <1>f, TunnelKept
  <2> QED
    BY <1>k, <1>1, <2>3
<1> QED
  BY <1>2, <1>3

\* A daemon that has just started has no tunnel.
LEMMA InitImplements == Init => Promise!Init
<1> SUFFICES ASSUME Init PROVE Promise!Init
  OBVIOUS
<1>1. Running = {}
  BY DEF Init, Running, NoProc
<1>2. Tunnel = Promise!NoTunnel
  BY <1>1 DEF Tunnel, Promise!NoTunnel
<1>3. slotAttempt \in Nat /\ (phase = "exited") = FALSE
  BY DEF Init
<1> QED
  BY <1>2, <1>3 DEF Promise!Init

\* For any number of threads, process ids, profiles, messages and retries,
\* the daemon is the one tunnel of SingleTunnel: a connect that a newer
\* request has superseded is never put into service, and the daemon goes down
\* without a tunnel (daemon/connection.rs connect, daemon.rs run).
THEOREM Refinement == Spec => ImplementsSingleTunnel
<1>1. IInv /\ IInv' /\ [Next]_vars => [Promise!Next]_(Promise!vars)
  BY ThreadImplements, MainImplements, EnvironmentImplements DEF Next, Terminated
<1> QED
  BY <1>1, InitImplements, Invariant, PTL
  DEF Spec, ImplementsSingleTunnel, Promise!Spec

-----------------------------------------------------------------------------
(* Reports.                                                                *)

\* What a send and a receive do to the set of messages that wait.
LEMMA QueuedFacts ==
    ASSUME channel \in Seq(Message)
    PROVE  /\ UNCHANGED channel => Queued' = Queued
           /\ \A m : channel' = Append(channel, m) => Queued' = Queued \cup {m}
           /\ channel # <<>> /\ channel' = Tail(channel) =>
                /\ Head(channel) \in Queued
                /\ Queued' \subseteq Queued
                /\ Queued \subseteq Queued' \cup {Head(channel)}
<1>1. ASSUME NEW m, channel' = Append(channel, m)
      PROVE  Queued' = Queued \cup {m}
  <2>1. /\ Len(channel') = Len(channel) + 1
        /\ channel'[Len(channel) + 1] = m
        /\ \A i \in 1 .. Len(channel) : channel'[i] = channel[i]
        /\ Len(channel) \in Nat
    BY <1>1
  <2>2. 1 .. Len(channel') = (1 .. Len(channel)) \cup {Len(channel) + 1}
    BY <2>1
  <2> QED
    BY <2>1, <2>2 DEF Queued
<1>2. ASSUME channel # <<>>, channel' = Tail(channel)
      PROVE  /\ Head(channel) \in Queued
             /\ Queued' \subseteq Queued
             /\ Queued \subseteq Queued' \cup {Head(channel)}
  <2>1. /\ Len(channel) \in Nat \ {0}
        /\ Len(channel') = Len(channel) - 1
        /\ Head(channel) = channel[1]
        /\ \A i \in 1 .. Len(channel') : channel'[i] = channel[i + 1]
    BY <1>2
  <2>2. ASSUME NEW i \in 1 .. Len(channel), i # 1
        PROVE  channel[i] \in Queued'
    <3>1. i - 1 \in 1 .. Len(channel') /\ channel'[i - 1] = channel[i]
      BY <2>1, <2>2
    <3> QED
      BY <3>1 DEF Queued
  <2>3. ASSUME NEW i \in 1 .. Len(channel')
        PROVE  channel'[i] \in Queued
    <3>1. i + 1 \in 1 .. Len(channel) /\ channel'[i] = channel[i + 1]
      BY <2>1
    <3> QED
      BY <3>1 DEF Queued
  <2>4. 1 \in 1 .. Len(channel)
    BY <2>1
  <2> QED
    BY <2>1, <2>2, <2>3, <2>4 DEF Queued
<1> QED
  BY <1>1, <1>2 DEF Queued

\* Some message that waits, or the ticker is about to send, is an exit of
\* attempt a.
ExitOf(a) == \E m \in Queued \cup {exitReport} : m.type = "SingBoxExited" /\ m.attempt = a

\* ExitReported, as a statement about sets of messages.
LEMMA ExitReportedIs ==
    /\ ExitReported <=> ExitOf(attempt)
    /\ ExitReported' <=> ExitOf(attempt)'
BY DEF ExitReported, ExitOf, Queued

\* Nothing a step does to a report that waits can spoil it while the attempt
\* id stands, the slot's process stays or was none, and no exit is lost.
LEMMA InServiceKept ==
    ASSUME SlotTypeOK,
           attempt' = attempt,
           ExitOf(attempt) => ExitOf(attempt)',
           \/ slotHandle = None
           \/ /\ slotHandle' = slotHandle
              /\ procs'[slotHandle].profile = procs[slotHandle].profile
           \/ ExitOf(attempt)'
    PROVE  \A p, f : InService(p, f) => InService(p, f)'
BY ExitReportedIs, ConstantsAssumption DEF InService, SlotTypeOK

\* What a thread's step may do to the channel: at most one message is sent,
\* and only a worker at "report" sends Connected.
LEMMA ThreadSends ==
    ASSUME TypeOK, NEW t \in Threads, Thread(t)
    PROVE  /\ UNCHANGED <<modelVars, phase, exitReport, slotAttempt>>
           /\ Queued \subseteq Queued'
           /\ \A m \in Queued' \ Queued : m.type = "Connected" =>
                /\ pc[t] = "report"
                /\ m.attempt = task[t].attempt
                /\ m.pid = child[t]
                /\ m.profile = task[t].profile
<1>0. channel \in Seq(Message)
  BY DEF TypeOK, LoopTypeOK
<1>1. UNCHANGED <<modelVars, phase, exitReport, slotAttempt>>
  BY RetryFacts
  DEF Thread, Lock, TakeRetired, StopRetired, StoppedRetired, CheckCurrent,
      StartFails, CheckedConfig, SpawnSingBox, WatchExited, WatchCancelled, WatchReady,
      WaitCancelled, WaitElapsed, ReportFailed, Install, Discard, ReportConnected,
      Unlock, Step, slotVars
<1>2. \/ UNCHANGED channel
      \/ Send([type |-> "ConnectRetrying", attempt |-> task[t].attempt])
      \/ Send([type |-> "ConnectFailed", attempt |-> task[t].attempt])
      \/ ReportConnected(t)
  BY DEF Thread, Lock, TakeRetired, StopRetired, StoppedRetired, CheckCurrent,
      StartFails, RetryNotReady, CheckedConfig, SpawnSingBox, WatchExited, WatchCancelled,
      WatchReady, WaitCancelled, WaitElapsed, ReportFailed, Install, Discard, Unlock
<1>3. \A m : Send(m) => Queued' = Queued \/ Queued' = Queued \cup {m}
  BY <1>0, QueuedFacts DEF Send
<1>4. CASE ReportConnected(t)
  BY <1>1, <1>3, <1>4 DEF ReportConnected, Step
<1>5. CASE ~ReportConnected(t)
  <2>1. \/ Queued' = Queued
        \/ Queued' = Queued \cup {[type |-> "ConnectRetrying", attempt |-> task[t].attempt]}
        \/ Queued' = Queued \cup {[type |-> "ConnectFailed", attempt |-> task[t].attempt]}
    BY <1>0, <1>2, <1>3, <1>5, QueuedFacts
  <2> QED
    BY <1>1, <2>1
<1> QED
  BY <1>4, <1>5

\* A worker reports what it has just installed, and the others touch neither
\* the slot's process nor a report.
LEMMA ThreadReports ==
    ASSUME ServiceInv, IInv', NEW t \in Threads, Thread(t)
    PROVE  ServiceInv'
<1>t. TypeOK /\ SlotTypeOK /\ ThreadTypeOK /\ SlotTypeOK' /\ ThreadTypeOK'
      /\ attempt \in Nat
  BY DEF ServiceInv, IInv, TypeOK, ModelTypeOK
<1>f. /\ LockInv /\ StoppingInv /\ AttemptInv /\ QueuedIsNewest /\ StartingInv
      /\ ProcessInv /\ ChildInv
      /\ SlotInv /\ ChildProfileInv /\ ReportInv
  BY DEF ServiceInv, IInv
<1>a. \A u \in Threads : task[u].attempt \in Nat
  BY <1>t DEF ThreadTypeOK, Task
<1>m. /\ UNCHANGED <<modelVars, phase, exitReport, slotAttempt>>
      /\ Queued \subseteq Queued'
      /\ \A m \in Queued' \ Queued : m.type = "Connected" =>
           /\ pc[t] = "report"
           /\ m.attempt = task[t].attempt
           /\ m.pid = child[t]
           /\ m.profile = task[t].profile
  BY <1>t, ThreadSends
<1>n. None \notin Pids /\ Main \notin Threads
  BY ConstantsAssumption
<1> USE DEF SlotTypeOK, ThreadTypeOK
\* the slot, and what threads do to a process that is in it
<1>1. /\ SlotInv'
      /\ ChildProfileInv'
      /\ \/ slotHandle = None
         \/ /\ slotHandle' = slotHandle
            /\ procs'[slotHandle] = procs[slotHandle]
      /\ \A u \in Threads : pc'[u] = "report" =>
           \/ pc[u] = "report" /\ child'[u] = child[u] /\ task'[u] = task[u]
           \/ /\ u = t /\ ~Cancelled(t)
              /\ child'[t] \in Pids
              /\ slotHandle' = child'[t]
              /\ procs'[child'[t]].profile = task'[t].profile
  <2>1. CASE Lock(t) \/ StoppedRetired(t) \/ CheckCurrent(t) \/ CheckedConfig(t)
             \/ WatchReady(t) \/ WaitCancelled(t) \/ WaitElapsed(t) \/ ReportFailed(t)
             \/ Unlock(t)
    <3>1. UNCHANGED <<slotHandle, slotRetired, stopping, procs, child>>
      BY <2>1
      DEF Lock, StoppedRetired, CheckCurrent, CheckedConfig, WatchReady, WaitCancelled,
          WaitElapsed, ReportFailed, Unlock, slotVars
    <3>2. \A u \in Threads :
            /\ pc'[u] \in {"watch", "install"} =>
                 pc[u] \in {"watch", "install"} /\ task'[u] = task[u]
            /\ pc'[u] = "report" => pc[u] = "report" /\ task'[u] = task[u]
      BY <2>1, <1>t
      DEF Lock, StoppedRetired, CheckCurrent, CheckedConfig, WatchReady, WaitCancelled,
          WaitElapsed, ReportFailed, Unlock, Step
    <3> QED
      BY <3>1, <3>2, <1>f DEF SlotInv, ChildProfileInv
  <2>2. CASE StartFails(t)
    <3>1. /\ \E from \in {"start", "spawn"}, to \in {"unlock", "wait", "failed"} :
               Step(t, from, to)
          /\ UNCHANGED <<slotHandle, slotRetired, coordinator, child, stopping, procs>>
      BY <2>2, <1>t, RetryFacts DEF StartFails
    <3> QED
      BY <3>1, <1>t, <1>f, <1>n DEF SlotInv, ChildProfileInv, Step
  <2>3. CASE TakeRetired(t)
    BY <2>3, <1>t, <1>f, <1>n DEF SlotInv, ChildProfileInv, TakeRetired, Step
  <2>4. CASE StopRetired(t)
    <3>1. PICK p \in stopping[t] :
            /\ procs' = [procs EXCEPT ![p] = NoProc]
            /\ stopping' = [stopping EXCEPT ![t] = @ \ {p}]
      BY <2>4 DEF StopRetired, Reap
    <3>2. p # slotHandle /\ p \in Pids
      BY <1>t, <1>f DEF SlotInv
    <3>3. pc[t] = "stop" /\ pc' = pc /\ UNCHANGED <<slotHandle, slotRetired, child, task>>
      BY <2>4, <1>t DEF StopRetired, Step
    <3>4. \A u \in Threads : pc[u] \notin {"watch", "install"}
      BY <3>3, <1>f DEF LockInv
    <3>5. ChildProfileInv'
      BY <3>3, <3>4 DEF ChildProfileInv
    <3>6. \A u \in Threads \cup {Main} : stopping'[u] \subseteq stopping[u]
      BY <3>1, <1>t
    <3>7. \A q \in Pids \ {p} : procs'[q] = procs[q]
      BY <3>1, <1>t
    <3> QED
      BY <3>2, <3>3, <3>5, <3>6, <3>7, <1>t, <1>f DEF SlotInv
  <2>5. CASE SpawnSingBox(t)
    <3>1. slotHandle = None /\ slotHandle' = None
      BY <2>5, <1>f DEF SpawnSingBox, Step, StartingInv
    <3>2. PICK p \in Pids :
            /\ procs' = [procs EXCEPT ![p] =
                           [state |-> "up", attempt |-> task[t].attempt,
                            profile |-> task[t].profile,
                            settings |-> task[t].settings]]
            /\ child' = [child EXCEPT ![t] = p]
      BY <2>5 DEF SpawnSingBox
    <3>3. pc[t] = "spawn" /\ pc' = [pc EXCEPT ![t] = "watch"] /\ task' = task
      BY <2>5 DEF SpawnSingBox, Step
    <3>4. \A u \in Threads : u # t => pc'[u] \in {"free", "lock"}
      BY <3>3, <1>t, <1>f DEF LockInv
    <3>5. procs'[child'[t]].profile = task'[t].profile /\ pc'[t] = "watch"
      BY <3>2, <3>3, <1>t
    <3> QED
      BY <3>1, <3>4, <3>5, <1>n DEF SlotInv, ChildProfileInv
  <2>6. CASE WatchExited(t) \/ WatchCancelled(t) \/ Discard(t)
    <3>1. \E from \in {"watch", "discard"}, to \in {"start", "unlock", "wait", "failed"} :
             Step(t, from, to)
      BY <2>6, <1>t, RetryFacts DEF WatchExited, WatchCancelled, Discard
    <3>2. slotHandle' = slotHandle
      BY <2>6 DEF WatchExited, WatchCancelled, Discard
    <3>3. slotHandle = None
      BY <3>1, <1>f DEF StartingInv, Step
    <3>4. \A u \in Threads : pc'[u] \notin {"watch", "install", "report"}
      BY <3>1, <1>t, <1>f DEF LockInv, Step
    <3> QED
      BY <3>2, <3>3, <3>4, <1>n DEF SlotInv, ChildProfileInv
  <2>7. CASE Install(t)
    <3>1. /\ pc[t] = "install" /\ UNCHANGED <<slotRetired, child, stopping, procs, task>>
          /\ pc' = [pc EXCEPT ![t] = IF Cancelled(t) THEN "discard" ELSE "report"]
          /\ slotHandle' = IF Cancelled(t) THEN slotHandle ELSE child[t]
      BY <2>7 DEF Install, Step
    <3>2. slotHandle = None /\ slotRetired = {}
      BY <3>1, <1>f DEF StartingInv
    <3>3. \A u \in Threads \cup {Main} : stopping[u] = {}
      BY <3>1, <1>t, <1>f, <1>n DEF LockInv, StoppingInv
    <3>4. \A u \in Threads : u # t => pc'[u] \in {"free", "lock"}
      BY <3>1, <1>t, <1>f DEF LockInv
    <3>5. /\ child[t] \in Pids
          /\ procs[child[t]].state # "free"
          /\ procs[child[t]].profile = task[t].profile
      BY <3>1, <1>f DEF ChildInv, ChildProfileInv
    <3>6. ChildProfileInv'
      BY <3>1, <3>4, <1>t DEF ChildProfileInv
    <3> QED
      BY <3>1, <3>2, <3>3, <3>4, <3>5, <3>6, <1>t, <1>n DEF SlotInv
  <2>8. CASE ReportConnected(t)
    BY <2>8, <1>t, <1>f, <1>n DEF SlotInv, ChildProfileInv, ReportConnected, Step
  <2> QED
    BY <2>1, <2>2, <2>3, <2>4, <2>5, <2>6, <2>7, <2>8 DEF Thread
<1>2. ExitOf(attempt) => ExitOf(attempt)'
  BY <1>m DEF ExitOf, modelVars
<1>3. \A p, f : InService(p, f) => InService(p, f)'
  BY <1>t, <1>m, <1>1, <1>2, InServiceKept DEF modelVars
<1>4. ReportInv'
  <2> SUFFICES ASSUME LoopRunning PROVE ReportInv'
    BY <1>m DEF ReportInv, LoopRunning
  <2>1. UNCHANGED <<connection, singboxPid, activeProfile, attempt, slotAttempt>>
    BY <1>m DEF modelVars
  <2>2. ASSUME NEW m \in Queued', m.type = "Connected"
        PROVE  /\ m.attempt <= slotAttempt
               /\ connection = "Connecting" => m.attempt < attempt
               /\ m.attempt = attempt => InService(m.pid, m.profile)
    <3>1. CASE m \in Queued
      BY <2>2, <3>1, <1>f DEF ReportInv
    <3>2. CASE m \notin Queued
      BY <2>2, <3>2, <1>m, <1>f, <1>t DEF ReportInv, AttemptInv, QueuedIsNewest
    <3> QED
      BY <3>1, <3>2
  <2>3. ASSUME NEW u \in Threads, pc'[u] = "report", task'[u].attempt = attempt
        PROVE  InService(child[u], task[u].profile)'
    <3>1. CASE pc[u] = "report" /\ child'[u] = child[u] /\ task'[u] = task[u]
      <4>1. InService(child[u], task[u].profile)
        BY <2>3, <3>1, <1>f DEF ReportInv
      <4> DEFINE p == child[u]  f == task[u].profile
      <4>2. \/ p \in Pids /\ slotHandle' = p /\ procs'[p].profile = f
            \/ ExitReported'
        BY <4>1, <1>3 DEF InService
      <4> QED
        BY <3>1, <4>2 DEF InService
    <3>2. CASE /\ child'[t] \in Pids
               /\ slotHandle' = child'[t]
               /\ procs'[child'[t]].profile = task'[t].profile
               /\ u = t
      BY <3>2 DEF InService
    <3> QED
      BY <2>3, <1>1, <3>1, <3>2
  <2>4. connection = "Connected" =>
           slotAttempt = attempt /\ InService(singboxPid, activeProfile)
    BY <1>f DEF ReportInv
  <2>5. \A m \in Queued' : m.type = "Connected" =>
             /\ m.attempt <= slotAttempt'
             /\ connection' = "Connecting" => m.attempt < attempt'
             /\ m.attempt = attempt' => InService(m.pid, m.profile)'
    BY <2>1, <2>2, <1>3
  <2>6. connection' = "Connected" =>
           slotAttempt' = attempt' /\ InService(singboxPid, activeProfile)'
    BY <2>1, <2>4, <1>3 DEF InService
  <2> QED
    BY <2>1, <2>3, <2>5, <2>6 DEF ReportInv
<1> QED
  BY <1>1, <1>4 DEF ServiceInv

\* The Model turns Connected only by believing the report it received, keeps
\* its attempt id then, and never drops the current exit without a new one.
LEMMA UpdateReports ==
    ASSUME TypeOK, Update
    PROVE  /\ channel # <<>> /\ channel' = Tail(channel)
           /\ connection' = "Connected" =>
                /\ attempt' = attempt
                /\ \/ connection = "Connected" /\ UNCHANGED <<singboxPid, activeProfile>>
                   \/ /\ Head(channel).type = "Connected"
                      /\ Head(channel).attempt = attempt
                      /\ singboxPid' = Head(channel).pid
                      /\ activeProfile' = Head(channel).profile
           /\ Head(channel).type = "SingBoxExited" /\ attempt' = attempt
                => Head(channel).attempt # attempt
<1>0. \A P, blocked, p : 
        QueueConnect(P, blocked, p) /\ connection' = "Connected" => UNCHANGED modelVars
  BY DEF QueueConnect, modelVars
<1>n. attempt \in Nat
  BY DEF TypeOK, ModelTypeOK
<1>1. CASE OnTick \/ OnConnectRetrying \/ OnDisconnect \/ OnQuit \/ OnDeleteProfile
           \/ OnApplyEditedConfig \/ OnApplyEditedRouting
  BY <1>1
  DEF OnTick, OnConnectRetrying, OnDisconnect, OnQuit, OnDeleteProfile,
      OnApplyEditedConfig, OnApplyEditedRouting, Receive, modelVars
<1>2. CASE OnConnected
  BY <1>2 DEF OnConnected, Receive, IsStale, modelVars
<1>3. CASE OnConnectFailed \/ OnSingBoxExited
  BY <1>3, <1>n DEF OnConnectFailed, OnSingBoxExited, Receive, IsStale, ClearConnection,
      modelVars
<1>4. CASE OnSystemResumed \/ OnConnectProfile \/ OnEnterOnProfile \/ OnReconnect
           \/ OnToggle \/ OnSettingsApplied \/ OnModeSelected \/ OnConfigReloaded
           \/ OnSubscriptionFetched \/ OnRuleSetsUpdated
  <2>1. /\ \E P, blocked, p : QueueConnect(P, blocked, p)
        /\ \E ty \in {"SystemResumed", "ConnectProfile", "EnterOnProfile", "Reconnect",
                      "Toggle", "SettingsApplied", "ModeSelected", "ConfigReloaded",
                      "SubscriptionFetched", "RuleSetsUpdated"} : Receive(ty)
    BY <1>4, Zenon
    DEF OnSystemResumed, OnConnectProfile, OnEnterOnProfile, OnReconnect, OnToggle,
        OnSettingsApplied, OnModeSelected, OnConfigReloaded, ConfigReloaded,
        OnSubscriptionFetched, OnRuleSetsUpdated
  <2> QED
    BY <2>1, <1>0 DEF Receive, modelVars
<1>5. CASE OnRoutingReloaded
  <2>1. Receive("RoutingReloaded")
        /\ ((\E P, blocked, p : QueueConnect(P, blocked, p)) \/ UNCHANGED modelVars)
    BY <1>5, Zenon DEF OnRoutingReloaded, RoutingReloaded
  <2> QED
    BY <2>1, <1>0 DEF Receive, modelVars
<1> QED
  BY <1>1, <1>2, <1>3, <1>4, <1>5 DEF Update

\* A new attempt id makes every report that waits or is being made stale.
LEMMA NewAttemptReports ==
    ASSUME ServiceInv, LoopRunning, LoopTypeOK', SlotTypeOK',
           attempt' \in Nat, attempt' > attempt, connection' # "Connected",
           slotAttempt' >= slotAttempt, slotAttempt' <= attempt',
           Queued' \subseteq Queued,
           \A t \in Threads : pc'[t] = "report" => pc[t] = "report" /\ task'[t] = task[t]
    PROVE  ReportInv'
<1>1. slotAttempt \in Nat /\ attempt \in Nat /\ slotAttempt <= attempt
  BY DEF ServiceInv, IInv, TypeOK, ModelTypeOK, SlotTypeOK, AttemptInv
<1>2. \A t \in Threads : task[t].attempt \in Nat /\ task[t].attempt <= slotAttempt
  BY DEF ServiceInv, IInv, TypeOK, ThreadTypeOK, Task, AttemptInv
<1>3. \A m \in Queued : m.type = "Connected" => m.attempt \in Nat /\ m.attempt <= slotAttempt
  <2>1. Queued \subseteq Message
    BY DEF ServiceInv, IInv, TypeOK, LoopTypeOK, Queued
  <2>2. \A m \in Message : m.type = "Connected" => m.attempt \in Nat
    BY DEF Message, InputMessage, ExitMessage
  <2> QED
    BY <2>1, <2>2 DEF ServiceInv, ReportInv
<1>4. \A m \in Queued' : m.type = "Connected" =>
             /\ m.attempt <= slotAttempt'
             /\ m.attempt < attempt'
             /\ m.attempt # attempt'
  BY <1>1, <1>3 DEF SlotTypeOK
<1>5. \A t \in Threads : pc'[t] = "report" => task'[t].attempt # attempt'
  BY <1>1, <1>2 DEF SlotTypeOK
<1> QED
  BY <1>4, <1>5 DEF ReportInv

\* The main loop retires a process, or believes an exit, only together with a
\* new attempt id or after it has queued one.
LEMMA MainReports ==
    ASSUME ServiceInv, IInv', MainLoop
    PROVE  ServiceInv'
<1>t. /\ TypeOK /\ SlotTypeOK /\ ThreadTypeOK
      /\ SlotTypeOK' /\ ThreadTypeOK' /\ LoopTypeOK'
      /\ attempt \in Nat /\ attempt' \in Nat /\ channel \in Seq(Message)
  BY DEF ServiceInv, IInv, TypeOK, ModelTypeOK, LoopTypeOK
<1>f. /\ StoppingInv /\ AttemptInv /\ QueuedIsNewest
      /\ SlotInv /\ ChildProfileInv /\ ReportInv
  BY DEF ServiceInv, IInv
<1>n. None \notin Pids /\ Main \notin Threads
  BY ConstantsAssumption
<1> USE DEF SlotTypeOK, ThreadTypeOK
<1>1. CASE Update
  <2>1. /\ phase = "recv" /\ phase' = "sync" /\ attempt' >= attempt
        /\ connection' = "Connecting" =>
             attempt' > attempt \/ (connection = "Connecting" /\ attempt' = attempt)
        /\ UNCHANGED <<exitReport, slotAttempt, slotHandle, slotRetired, pc, task, child,
                       stopping, procs>>
    BY <1>1, <1>t, UpdateFacts DEF UpdateStep, slotVars, threadVars
  <2>2. SlotInv' /\ ChildProfileInv'
    BY <2>1, <1>f DEF SlotInv, ChildProfileInv
  <2>3. /\ Head(channel) \in Queued
        /\ Queued' \subseteq Queued
        /\ Queued \subseteq Queued' \cup {Head(channel)}
    BY <1>1, <1>t, UpdateReports, QueuedFacts
  <2>4. CASE attempt' > attempt
    <3>1. connection' # "Connected"
      BY <1>1, <1>t, <2>4, UpdateReports
    <3>2. ReportInv'
      BY <2>1, <2>3, <2>4, <3>1, <1>t, <1>f, NewAttemptReports DEF LoopRunning, AttemptInv
    <3> QED
      BY <2>2, <3>2 DEF ServiceInv
  <2>5. CASE attempt' = attempt
    <3>1. ExitOf(attempt) => ExitOf(attempt)'
      BY <1>1, <1>t, <2>1, <2>3, <2>5, UpdateReports DEF ExitOf
    <3>2. \A p, f : InService(p, f) => InService(p, f)'
      BY <1>t, <2>1, <2>5, <3>1, InServiceKept
    <3>3. \A m \in Queued : m.type = "Connected" =>
             /\ m.attempt <= slotAttempt'
             /\ connection' = "Connecting" => m.attempt < attempt'
             /\ m.attempt = attempt' => InService(m.pid, m.profile)'
      BY <2>1, <2>5, <3>2, <1>f, <1>t DEF ReportInv, LoopRunning
    <3>4. \A t \in Threads : pc'[t] = "report" /\ task'[t].attempt = attempt'
             => InService(child[t], task[t].profile)'
      BY <2>1, <2>5, <3>2, <1>f DEF ReportInv, LoopRunning, InService
    <3>5. connection' = "Connected" =>
             slotAttempt' = attempt' /\ InService(singboxPid, activeProfile)'
      <4> SUFFICES ASSUME connection' = "Connected"
                   PROVE  slotAttempt' = attempt' /\ InService(singboxPid, activeProfile)'
        OBVIOUS
      <4>1. CASE connection = "Connected" /\ UNCHANGED <<singboxPid, activeProfile>>
        BY <4>1, <2>1, <2>5, <3>2, <1>f DEF ReportInv, LoopRunning, InService
      <4>2. CASE /\ Head(channel).type = "Connected"
                 /\ Head(channel).attempt = attempt
                 /\ singboxPid' = Head(channel).pid
                 /\ activeProfile' = Head(channel).profile
        <5>1. /\ attempt <= slotAttempt
              /\ InService(Head(channel).pid, Head(channel).profile)
          BY <4>2, <2>1, <2>3, <1>f DEF ReportInv, LoopRunning
        <5>2. slotAttempt = attempt
          BY <5>1, <2>1, <1>t, <1>f DEF AttemptInv, LoopRunning
        <5> DEFINE p == Head(channel).pid  f == Head(channel).profile
        <5>3. \/ p \in Pids /\ slotHandle' = p /\ procs'[p].profile = f
              \/ ExitReported'
          BY <5>1, <3>2 DEF InService
        <5> QED
          BY <4>2, <5>2, <5>3, <2>1, <2>5 DEF InService
      <4> QED
        BY <1>1, <1>t, <4>1, <4>2, UpdateReports
    <3>6. ReportInv'
      BY <2>3, <3>3, <3>4, <3>5 DEF ReportInv
    <3> QED
      BY <2>2, <3>6 DEF ServiceInv
  <2> QED
    BY <2>1, <2>4, <2>5, <1>t
<1>2. CASE SyncAttempt
  <2>1. /\ slotAttempt' = attempt /\ slotAttempt <= attempt /\ LoopRunning
        /\ UNCHANGED <<connection, singboxPid, activeProfile, attempt, channel, exitReport,
                       slotHandle, slotRetired, pc, task, child, stopping, procs>>
    BY <1>2, <1>f DEF SyncAttempt, AttemptInv, LoopRunning, modelVars, threadVars
  <2>2. SlotInv' /\ ChildProfileInv'
    BY <2>1, <1>f DEF SlotInv, ChildProfileInv
  <2>3. Queued' = Queued /\ (ExitOf(attempt) => ExitOf(attempt)')
    BY <2>1 DEF ExitOf, Queued
  <2>4. \A p, f : InService(p, f) => InService(p, f)'
    BY <1>t, <2>1, <2>3, InServiceKept
  <2>5. \A m \in Queued : m.type = "Connected" => m.attempt \in Nat
    <3>1. Queued \subseteq Message
      BY <1>t DEF Queued
    <3> QED
      BY <3>1 DEF Message, InputMessage, ExitMessage
  <2>6. \A m \in Queued' : m.type = "Connected" =>
             /\ m.attempt <= slotAttempt'
             /\ connection' = "Connecting" => m.attempt < attempt'
             /\ m.attempt = attempt' => InService(m.pid, m.profile)'
    BY <2>1, <2>3, <2>4, <2>5, <1>f, <1>t DEF ReportInv
  <2>7. \A t \in Threads : pc'[t] = "report" /\ task'[t].attempt = attempt'
             => InService(child[t], task[t].profile)'
    BY <2>1, <2>4, <1>f DEF ReportInv, InService
  <2>8. connection' = "Connected" =>
             slotAttempt' = attempt' /\ InService(singboxPid, activeProfile)'
    BY <2>1, <2>4, <1>f DEF ReportInv, InService
  <2> QED
    BY <2>2, <2>6, <2>7, <2>8 DEF ReportInv, ServiceInv
<1>3. CASE ExecuteConnect
  <2>1. /\ effect.type = "Connect" /\ phase = "effect" /\ connection' = "ConnectPending"
        /\ slotAttempt' = attempt /\ slotHandle' = None
        /\ UNCHANGED <<attempt, channel, child, procs>>
    BY <1>3 DEF ExecuteConnect, Executes, RetireHandle
  <2>2. PICK t \in Threads : /\ pc[t] = "free" /\ pc' = [pc EXCEPT ![t] = "lock"]
                             /\ \A u \in Threads : u # t => task'[u] = task[u]
    BY <1>3, <1>t DEF ExecuteConnect, Spawn
  <2>3. \A u \in Threads : pc'[u] # "lock" => pc'[u] = pc[u] /\ task'[u] = task[u]
    BY <2>2, <1>t
  <2>4. SlotInv' /\ ChildProfileInv'
    BY <2>1, <2>3, <1>f, <1>n DEF SlotInv, ChildProfileInv
  <2>5. Queued' = Queued
    BY <2>1 DEF Queued
  <2>6. \A m \in Queued' : m.type = "Connected" =>
          m.attempt <= slotAttempt' /\ m.attempt # attempt'
    <3>1. Queued \subseteq Message
      BY <1>t DEF Queued
    <3>2. \A m \in Message : m.type = "Connected" => m.attempt \in Nat
      BY DEF Message, InputMessage, ExitMessage
    <3>3. \A m \in Queued : m.type = "Connected" => m.attempt < attempt
      BY <2>1, <1>f DEF ReportInv, QueuedIsNewest, LoopRunning
    <3> QED
      BY <2>1, <2>5, <3>1, <3>2, <3>3, <1>t
  <2>7. \A u \in Threads : pc'[u] = "report" => task'[u].attempt # attempt'
    <3>1. \A u \in Threads : pc[u] = "report" => task[u].kind = "connect"
      BY <1>f DEF AttemptInv
    <3>2. \A u \in Threads : task[u].kind = "connect" => task[u].attempt < attempt
      BY <2>1, <1>f DEF QueuedIsNewest, LoopRunning
    <3>3. \A u \in Threads : task[u].attempt \in Nat
      BY <1>t DEF Task
    <3> SUFFICES ASSUME NEW u \in Threads, pc'[u] = "report"
                 PROVE  task'[u].attempt # attempt
      BY <2>1
    <3>4. task'[u] = task[u] /\ pc[u] = "report"
      BY <2>3
    <3>5. task[u].attempt < attempt
      BY <3>1, <3>2, <3>4
    <3> QED
      BY <3>3, <3>4, <3>5, <1>t
  <2> QED
    BY <2>1, <2>4, <2>6, <2>7 DEF ReportInv, ServiceInv
<1>4. CASE \/ ExecuteDisconnect
           \/ ExecuteCommitEditedConfig /\ Disconnect
  <2>1. /\ LoopRunning
        /\ attempt' = attempt + 1 /\ slotAttempt' = attempt + 1 /\ slotHandle' = None
        /\ connection' = "Idle"
        /\ UNCHANGED <<channel, child, procs>>
        /\ \/ UNCHANGED <<pc, task>>
           \/ \E t \in Threads : /\ pc[t] = "free" /\ pc' = [pc EXCEPT ![t] = "lock"]
                                 /\ \A u \in Threads : u # t => task'[u] = task[u]
    BY <1>4, <1>t DEF ExecuteDisconnect, ExecuteCommitEditedConfig, Executes, Disconnect,
        RetireHandle, ClearConnection, Spawn, LoopRunning
  <2>2. \A u \in Threads : pc'[u] # "lock" => pc'[u] = pc[u] /\ task'[u] = task[u]
    BY <2>1, <1>t
  <2>3. SlotInv' /\ ChildProfileInv'
    BY <2>1, <2>2, <1>f, <1>n DEF SlotInv, ChildProfileInv
  <2>4. Queued' = Queued
    BY <2>1 DEF Queued
  <2>5. ReportInv'
    BY <2>1, <2>2, <2>4, <1>t, <1>f, NewAttemptReports DEF AttemptInv
  <2> QED
    BY <2>3, <2>5 DEF ServiceInv
<1>5. CASE \/ ExecuteCommitEditedConfig /\ ~Disconnect
           \/ ExecuteCommitEditedRouting
  <2>1. /\ LoopRunning
        /\ UNCHANGED <<channel, exitReport, slotAttempt, slotHandle, slotRetired, pc, task,
                       child, stopping, procs>>
        /\ \/ UNCHANGED modelVars
           \/ \E P, blocked, p : QueueConnect(P, blocked, p)
    <3>1. CASE ExecuteCommitEditedConfig /\ ~Disconnect
      BY <3>1, Zenon DEF ExecuteCommitEditedConfig, Executes, ConfigReloaded, LoopRunning, slotVars
    <3>2. CASE ExecuteCommitEditedRouting
      BY <3>2, Zenon DEF ExecuteCommitEditedRouting, Executes, RoutingReloaded, LoopRunning,
          slotVars, threadVars
    <3> QED
      BY <1>5, <3>1, <3>2
  <2>2. SlotInv' /\ ChildProfileInv'
    BY <2>1, <1>f DEF SlotInv, ChildProfileInv
  <2>3. Queued' = Queued
    BY <2>1 DEF Queued
  <2>4. \/ UNCHANGED modelVars
        \/ attempt' = attempt + 1 /\ connection' = "Connecting"
    BY <2>1, Zenon DEF QueueConnect, modelVars
  <2>5. CASE attempt' = attempt + 1 /\ connection' = "Connecting"
    <3>1. ReportInv'
      BY <2>1, <2>3, <2>5, <1>t, <1>f, NewAttemptReports DEF AttemptInv
    <3> QED
      BY <2>2, <3>1 DEF ServiceInv
  <2>6. CASE UNCHANGED modelVars
    <3>1. UNCHANGED <<connection, singboxPid, activeProfile, attempt>>
      BY <2>6 DEF modelVars
    <3>2. ExitReported' <=> ExitReported
      BY <2>1, <3>1 DEF ExitReported
    <3>3. ReportInv'
      BY <2>1, <2>3, <3>1, <3>2, <1>f DEF ReportInv, InService
    <3> QED
      BY <2>2, <3>3 DEF ServiceInv
  <2> QED
    BY <2>4, <2>5, <2>6
<1>6. CASE ExecuteQuit \/ ShutdownBump \/ ShutdownExit
  <2>1. /\ ~LoopRunning'
        /\ UNCHANGED <<slotHandle, slotRetired, stopping, procs, pc, task, child>>
    BY <1>6 DEF ExecuteQuit, ShutdownBump, ShutdownExit, LoopRunning, slotVars, threadVars
  <2> QED
    BY <2>1, <1>f DEF ServiceInv, SlotInv, ChildProfileInv, ReportInv
<1>7. CASE ShutdownTake
  <2>1. ~LoopRunning' /\ slotHandle' = None /\ UNCHANGED <<procs, pc, task, child>>
    BY <1>7 DEF ShutdownTake, LoopRunning
  <2> QED
    BY <2>1, <1>f, <1>n DEF ServiceInv, SlotInv, ChildProfileInv, ReportInv
<1>8. CASE ShutdownStop
  <2>1. /\ ~LoopRunning' /\ UNCHANGED <<slotHandle, pc>> /\ phase = "stopping"
    BY <1>8 DEF ShutdownStop, LoopRunning, slotVars
  <2>2. slotHandle = None /\ coordinator = Main
    BY <2>1, <1>f DEF StoppingInv, ServiceInv, IInv, LockInv
  <2>3. \A t \in Threads : pc'[t] \in {"free", "lock"}
    BY <2>1, <2>2, <1>n DEF ServiceInv, IInv, LockInv
  <2>4. SlotInv' /\ ChildProfileInv' /\ ReportInv'
    BY <2>1, <2>2, <2>3, <1>n DEF SlotInv, ChildProfileInv, ReportInv
  <2> QED
    BY <2>4 DEF ServiceInv
<1> QED
  BY <1>1, <1>2, <1>3, <1>4, <1>5, <1>6, <1>7, <1>8 DEF MainLoop

\* An exit the ticker takes out of the slot is on its way with the slot's
\* attempt id before the slot is seen empty.
LEMMA EnvironmentReports ==
    ASSUME ServiceInv, IInv',
           Ticker \/ SendInput \/ EditDisk \/ ProcessExits \/ UNCHANGED vars
    PROVE  ServiceInv'
<1>t. /\ SlotTypeOK /\ ThreadTypeOK /\ attempt \in Nat
      /\ channel \in Seq(Message)
      /\ exitReport # NoMessage => exitReport.type = "SingBoxExited"
  BY DEF ServiceInv, IInv, TypeOK, ModelTypeOK, LoopTypeOK, ExitMessage
<1>f. /\ AttemptInv /\ SlotInv /\ ChildProfileInv /\ ReportInv
      /\ ProcessInv /\ StartingInv /\ ChildInv
  BY DEF ServiceInv, IInv
<1>n. None \notin Pids /\ Main \notin Threads
  BY ConstantsAssumption
<1>m. /\ UNCHANGED <<connection, singboxPid, activeProfile, attempt, phase, slotAttempt,
                     slotRetired, pc, task, child, stopping>>
      /\ LoopRunning' <=> LoopRunning
  BY DEF Ticker, PollExit, SendExit, SendTick, SendInput, EditDisk, ProcessExits, vars,
      modelVars, slotVars, threadVars, LoopRunning
<1>1. Queued \subseteq Queued' /\ \A m \in Queued' : m.type = "Connected" => m \in Queued
  <2>1. \A m : Send(m) => Queued' = Queued \/ Queued' = Queued \cup {m}
    BY <1>t, QueuedFacts DEF Send
  <2>2. CASE SendExit
    <3>1. exitReport.type # "Connected"
      BY <1>t, <2>2 DEF SendExit
    <3> QED
      BY <2>1, <2>2, <3>1 DEF SendExit
  <2>3. CASE SendTick
    BY <2>1, <2>3 DEF SendTick
  <2>4. CASE SendInput
    <3>1. PICK m \in Inputs : Send(m)
      BY <2>4 DEF SendInput
    <3>2. m.type # "Connected"
      BY ConstantsAssumption DEF InputMessage
    <3> QED
      BY <2>1, <3>1, <3>2
  <2>5. CASE PollExit \/ EditDisk \/ ProcessExits \/ UNCHANGED vars
    BY <2>5 DEF PollExit, EditDisk, ProcessExits, vars, Queued
  <2> QED
    BY <2>2, <2>3, <2>4, <2>5 DEF Ticker
<1>2. LoopRunning => (ExitOf(attempt) => ExitOf(attempt)')
  <2> SUFFICES ASSUME LoopRunning, ExitOf(attempt) PROVE ExitOf(attempt)'
    OBVIOUS
  <2>1. CASE SendExit
    <3>1. Queued' = Queued \cup {exitReport}
      BY <1>t, <2>1, QueuedFacts DEF SendExit, Send
    <3> QED
      BY <3>1, <1>m DEF ExitOf
  <2>2. CASE PollExit
    <3>1. exitReport = NoMessage
      BY <2>2 DEF PollExit
    <3> QED
      BY <1>1, <1>m, <3>1 DEF ExitOf, NoMessage
  <2>3. CASE ~SendExit /\ ~PollExit
    <3>1. UNCHANGED exitReport
      BY <2>3 DEF Ticker, SendTick, SendInput, EditDisk, ProcessExits, vars
    <3> QED
      BY <1>1, <1>m, <3>1 DEF ExitOf
  <2> QED
    BY <2>1, <2>2, <2>3
<1>3. /\ SlotInv' /\ ChildProfileInv'
      /\ LoopRunning /\ slotAttempt = attempt =>
           \/ slotHandle = None
           \/ /\ slotHandle' = slotHandle
              /\ procs'[slotHandle].profile = procs[slotHandle].profile
           \/ ExitOf(attempt)'
  <2>1. CASE PollExit
    <3>1. /\ slotHandle \in Pids /\ slotHandle' = None
          /\ procs' = [procs EXCEPT ![slotHandle] = NoProc]
          /\ exitReport' = [type |-> "SingBoxExited", attempt |-> slotAttempt,
                            started |-> procs[slotHandle].attempt]
      BY <2>1 DEF PollExit, Reap
    <3>2. slotAttempt = attempt => ExitOf(attempt)'
      BY <3>1, <1>m DEF ExitOf
    <3>3. \A t \in Threads : pc[t] \notin {"watch", "install"}
      BY <3>1, <1>f, <1>n DEF StartingInv
    <3>4. SlotInv' /\ ChildProfileInv'
      BY <3>1, <3>3, <1>m, <1>n DEF SlotInv, ChildProfileInv
    <3> QED
      BY <3>2, <3>4
  <2>2. CASE ProcessExits
    <3>1. PICK p \in Pids : procs[p].state = "up"
                            /\ procs' = [procs EXCEPT ![p].state = "exited"]
      BY <2>2 DEF ProcessExits
    <3>2. \A q \in Pids : /\ procs'[q].profile = procs[q].profile
                          /\ procs[q].state # "free" => procs'[q].state # "free"
      BY <3>1, <1>t DEF SlotTypeOK, Proc
    <3>3. slotHandle' = slotHandle
      BY <2>2 DEF ProcessExits, slotVars
    <3>4. \A t \in Threads : pc[t] \in {"watch", "install"} => child[t] \in Pids
      BY <1>f DEF ChildInv
    <3>5. SlotInv' /\ ChildProfileInv'
      BY <3>2, <3>3, <3>4, <1>f, <1>m DEF SlotInv, ChildProfileInv
    <3> QED
      BY <3>2, <3>3, <3>5, <1>t DEF SlotTypeOK
  <2>3. CASE ~PollExit /\ ~ProcessExits
    <3>1. UNCHANGED <<slotHandle, procs>>
      BY <2>3 DEF Ticker, SendExit, SendTick, SendInput, EditDisk, vars, slotVars
    <3> QED
      BY <3>1, <1>f, <1>m DEF SlotInv, ChildProfileInv
  <2> QED
    BY <2>1, <2>2, <2>3
<1>4. ReportInv'
  <2> SUFFICES ASSUME LoopRunning PROVE ReportInv'
    BY <1>m DEF ReportInv
  <2>1. slotAttempt = attempt => \A p, f : InService(p, f) => InService(p, f)'
    BY <1>t, <1>m, <1>2, <1>3, InServiceKept
  <2>2. \A m \in Queued' : m.type = "Connected" =>
             /\ m.attempt <= slotAttempt'
             /\ connection' = "Connecting" => m.attempt < attempt'
             /\ m.attempt = attempt' => InService(m.pid, m.profile)'
    <3> SUFFICES ASSUME NEW m \in Queued, m.type = "Connected"
                 PROVE  /\ m.attempt <= slotAttempt
                        /\ connection = "Connecting" => m.attempt < attempt
                        /\ m.attempt = attempt => InService(m.pid, m.profile)'
      BY <1>1, <1>m
    <3>1. /\ m.attempt <= slotAttempt
          /\ connection = "Connecting" => m.attempt < attempt
          /\ m.attempt = attempt => InService(m.pid, m.profile)
      BY <1>f DEF ReportInv
    <3>2. slotAttempt <= attempt /\ slotAttempt \in Nat
      BY <1>f, <1>t DEF AttemptInv, SlotTypeOK
    <3>3. m.attempt = attempt => slotAttempt = attempt
      BY <3>1, <3>2, <1>t
    <3> QED
      BY <3>1, <3>3, <2>1
  <2>3. \A t \in Threads : pc'[t] = "report" /\ task'[t].attempt = attempt'
             => InService(child[t], task[t].profile)'
    <3> SUFFICES ASSUME NEW t \in Threads, pc[t] = "report", task[t].attempt = attempt
                 PROVE  InService(child[t], task[t].profile)'
      BY <1>m
    <3>1. slotAttempt = attempt
      BY <1>f, <1>t DEF AttemptInv, SlotTypeOK
    <3>2. InService(child[t], task[t].profile)
      BY <1>f DEF ReportInv
    <3> DEFINE p == child[t]  f == task[t].profile
    <3>3. \/ p \in Pids /\ slotHandle' = p /\ procs'[p].profile = f
          \/ ExitReported'
      BY <3>1, <3>2, <2>1 DEF InService
    <3> QED
      BY <3>3, <1>m DEF InService
  <2>4. connection' = "Connected" =>
             slotAttempt' = attempt' /\ InService(singboxPid, activeProfile)'
    BY <2>1, <1>f, <1>m DEF ReportInv, InService
  <2> QED
    BY <2>2, <2>3, <2>4 DEF ReportInv
<1> QED
  BY <1>3, <1>4 DEF ServiceInv

\* For any number of threads, process ids, profiles and messages, what the
\* Model says of reports and of the slot holds in every reachable state.
THEOREM Reports == Spec => []ServiceInv
<1>1. Init => ServiceInv
  <2> SUFFICES ASSUME Init PROVE ServiceInv
    OBVIOUS
  <2>1. Queued = {} /\ \A t \in Threads : pc[t] = "free"
    BY DEF Init, Queued
  <2> QED
    BY <2>1, InitKeeps, ConstantsAssumption
    DEF Init, ServiceInv, SlotInv, ChildProfileInv, ReportInv
<1>2. ServiceInv /\ IInv' /\ [Next]_vars => ServiceInv'
  BY ThreadReports, MainReports, EnvironmentReports DEF Next, Terminated
<1> QED
  BY <1>1, <1>2, Invariant, PTL DEF Spec

\* While the Model says Connected, its pid and profile are those of the
\* process in the slot, or that process's exit is on its way (on_connected,
\* poll_process_exit), for every value of the constants.
THEOREM ConnectedIsInSlot == Spec => []ConnectedTunnelIsInSlot
<1>1. ServiceInv => ConnectedTunnelIsInSlot
  BY DEF ServiceInv, ReportInv, InService, ConnectedTunnelIsInSlot
<1> QED
  BY <1>1, Reports, PTL

-----------------------------------------------------------------------------
(* How connects are decided.                                               *)

\* A thread's step leaves the Model alone, moves one worker, changes the slot
\* only by an install and sends the outcome when it is at its end.
LEMMA ThreadMoves ==
    ASSUME TypeOK, LockInv, NEW t \in Threads, Thread(t)
    PROVE  /\ UNCHANGED <<connection, connectingProfile, activeProfile, attempt, profiles,
                          routingError, settings, disk, phase, effect, exitReport,
                          slotAttempt>>
           /\ pc[t] # "free"
           /\ \A u \in Threads : u # t =>
                /\ pc[u] \in {"free", "lock"}
                /\ pc'[u] = pc[u] /\ task'[u] = task[u]
           /\ \/ task'[t] = task[t]
              \/ task'[t] = NoTask /\ pc'[t] = "free"
           /\ pc[t] \in {"report", "unlock"} => pc'[t] \in {"unlock", "free"}
           /\ pc[t] = "unlock" => pc'[t] = "free"
           /\ \/ slotHandle' = slotHandle
              \/ pc[t] = "install" /\ pc'[t] = "report" /\ ~Cancelled(t) /\ slotHandle' = child[t]
<1> USE DEF SlotTypeOK, ThreadTypeOK
<1>t. SlotTypeOK /\ ThreadTypeOK
  BY DEF TypeOK
<1>0. UNCHANGED <<connection, connectingProfile, activeProfile, attempt, profiles,
                  routingError, settings, disk, phase, effect, exitReport, slotAttempt>>
  BY RetryFacts
  DEF Thread, Lock, TakeRetired, StopRetired, StoppedRetired, CheckCurrent,
      StartFails, CheckedConfig, SpawnSingBox, WatchExited, WatchCancelled, WatchReady,
      WaitCancelled, WaitElapsed, ReportFailed, Install, Discard, ReportConnected,
      Unlock, Step, slotVars, modelVars, configVars
<1>1. \/ \E from, to \in Steps : /\ Step(t, from, to)
                                 /\ from \notin {"free", "unlock"}
                                 /\ from = "report" => to = "unlock"
                                 /\ from = "lock" => coordinator = None
      \/ Unlock(t)
  BY RetryFacts
  DEF Thread, Lock, TakeRetired, StopRetired, StoppedRetired, CheckCurrent,
      StartFails, CheckedConfig, SpawnSingBox, WatchExited, WatchCancelled, WatchReady,
      WaitCancelled, WaitElapsed, ReportFailed, Install, Discard, ReportConnected, Steps,
      RetryNotReady
<1>2. /\ pc[t] # "free"
      /\ pc[t] = "lock" => coordinator = None
      /\ \A u \in Threads : u # t => pc'[u] = pc[u] /\ task'[u] = task[u]
      /\ \/ task'[t] = task[t]
         \/ task'[t] = NoTask /\ pc'[t] = "free"
      /\ pc[t] \in {"report", "unlock"} => pc'[t] \in {"unlock", "free"}
      /\ pc[t] = "unlock" => pc'[t] = "free"
  <2>1. CASE Unlock(t)
    BY <2>1, <1>t DEF Unlock
  <2>2. CASE ~Unlock(t)
    <3>1. PICK from, to \in Steps : /\ Step(t, from, to)
                                    /\ from \notin {"free", "unlock"}
                                    /\ from = "report" => to = "unlock"
                                    /\ from = "lock" => coordinator = None
      BY <1>1, <2>2
    <3>2. pc[t] = from /\ pc' = [pc EXCEPT ![t] = to] /\ task' = task
      BY <3>1 DEF Step
    <3> QED
      BY <3>1, <3>2, <1>t
  <2> QED
    BY <2>1, <2>2
<1>3. \A u \in Threads : u # t => pc[u] \in {"free", "lock"}
  BY <1>2, ConstantsAssumption DEF LockInv
<1>4. \/ slotHandle' = slotHandle
      \/ pc[t] = "install" /\ pc'[t] = "report" /\ ~Cancelled(t) /\ slotHandle' = child[t]
  BY <1>t
  DEF Thread, Lock, TakeRetired, StopRetired, StoppedRetired, CheckCurrent,
      StartFails, CheckedConfig, SpawnSingBox, WatchExited, WatchCancelled, WatchReady,
      WaitCancelled, WaitElapsed, ReportFailed, Install, Discard, ReportConnected,
      Unlock, Step, slotVars
<1> QED
  BY <1>0, <1>2, <1>3, <1>4

\* What a thread sends is the outcome of its own attempt, and its last step.
LEMMA ThreadOutcome ==
    ASSUME TypeOK, NEW t \in Threads, Thread(t)
    PROVE  \/ UNCHANGED channel
           \/ \E m : /\ channel' = Append(channel, m)
                     /\ m.type \in {"Connected", "ConnectFailed", "ConnectRetrying"}
                     /\ m.attempt = task[t].attempt
                     /\ m.type # "ConnectRetrying" =>
                          pc[t] \in {"report", "failed"} /\ pc'[t] = "unlock"
                     /\ m.type = "Connected" => m.profile = task[t].profile
                     /\ m.type = "ConnectFailed" => pc[t] = "failed" /\ ~Cancelled(t)
<1>t. SlotTypeOK /\ ThreadTypeOK
  BY DEF TypeOK
<1> DEFINE Sent(m) == channel' = channel \/ channel' = Append(channel, m)
           connected == [type |-> "Connected", attempt |-> task[t].attempt,
                         profile |-> task[t].profile, pid |-> child[t]]
           failed == [type |-> "ConnectFailed", attempt |-> task[t].attempt]
           retrying == [type |-> "ConnectRetrying", attempt |-> task[t].attempt]
<1>1. \/ UNCHANGED channel
      \/ Send(retrying)
      \/ ReportFailed(t)
      \/ ReportConnected(t)
  BY DEF Thread, Lock, TakeRetired, StopRetired, StoppedRetired, CheckCurrent,
      StartFails, RetryNotReady, CheckedConfig, SpawnSingBox, WatchExited, WatchCancelled,
      WatchReady, WaitCancelled, WaitElapsed, Install, Discard, Unlock
<1>2. CASE Send(retrying)
  BY <1>2 DEF Send
<1>3. CASE ReportFailed(t)
  <2>1. /\ pc[t] = "failed" /\ pc'[t] = "unlock"
        /\ \/ UNCHANGED channel
           \/ ~Cancelled(t) /\ channel' = Append(channel, failed)
    BY <1>3, <1>t DEF ReportFailed, Step, Send, ThreadTypeOK
  <2> QED
    BY <2>1
<1>4. CASE ReportConnected(t)
  <2>1. /\ pc[t] = "report" /\ pc'[t] = "unlock"
        /\ UNCHANGED channel \/ channel' = Append(channel, connected)
    BY <1>4, <1>t DEF ReportConnected, Step, Send, ThreadTypeOK
  <2> QED
    BY <2>1
<1> QED
  BY <1>1, <1>2, <1>3, <1>4

\* A thread's step frees processes, or starts one for its own attempt and
\* with its own settings.
LEMMA ThreadProcs ==
    ASSUME IInv, NEW t \in Threads, Thread(t)
    PROVE  /\ \A p \in Pids : procs'[p].state # "free" =>
                \/ procs'[p] = procs[p]
                \/ /\ pc[t] = "spawn"
                   /\ procs'[p].attempt = task[t].attempt
                   /\ procs'[p].settings = task[t].settings
           /\ pc'[t] \in {"watch", "install"} =>
                \/ pc[t] = "spawn" /\ procs'[child'[t]].settings = task[t].settings
                \/ pc[t] = "watch" /\ child'[t] = child[t] /\ procs' = procs
<1>t. SlotTypeOK /\ ThreadTypeOK
  BY DEF IInv, TypeOK
<1> USE DEF SlotTypeOK, ThreadTypeOK
<1>1. CASE SpawnSingBox(t)
  <2>1. PICK p \in Pids :
          /\ procs' = [procs EXCEPT ![p] =
                         [state |-> "up", attempt |-> task[t].attempt,
                          profile |-> task[t].profile, settings |-> task[t].settings]]
          /\ child' = [child EXCEPT ![t] = p]
    BY <1>1 DEF SpawnSingBox
  <2>2. pc[t] = "spawn"
    BY <1>1 DEF SpawnSingBox, Step
  <2>3. child'[t] = p /\ procs'[p].settings = task[t].settings
        /\ procs'[p].attempt = task[t].attempt
    BY <2>1, <1>t
  <2>4. \A q \in Pids : q # p => procs'[q] = procs[q]
    BY <2>1, <1>t
  <2> QED
    BY <2>2, <2>3, <2>4
<1>2. CASE StopRetired(t) \/ WatchExited(t) \/ WatchCancelled(t) \/ Discard(t)
  <2>1. \A p : Reap(p) => \A q \in Pids : procs'[q].state # "free" => procs'[q] = procs[q]
    BY <1>t DEF Reap, NoProc
  <2>2. \A q \in Pids : procs'[q].state # "free" => procs'[q] = procs[q]
    BY <1>2, <2>1 DEF StopRetired, WatchExited, WatchCancelled, Discard
  <2>3. pc'[t] \notin {"watch", "install"}
    BY <1>2, <1>t DEF StopRetired, WatchExited, WatchCancelled, Discard, RetryNotReady, Step
  <2> QED
    BY <2>2, <2>3
<1>3. CASE ~SpawnSingBox(t) /\ ~StopRetired(t) /\ ~WatchExited(t) /\ ~WatchCancelled(t)
           /\ ~Discard(t)
  <2>1. procs' = procs
    BY <1>3 DEF Thread, Lock, TakeRetired, StoppedRetired, CheckCurrent, StartFails,
        CheckedConfig, WatchReady, WaitCancelled, WaitElapsed, ReportFailed, Install,
        ReportConnected, Unlock
  <2>2. pc'[t] \in {"watch", "install"} => pc[t] = "watch" /\ child'[t] = child[t]
    BY <1>3, <1>t DEF Thread, Lock, TakeRetired, StoppedRetired, CheckCurrent, StartFails,
        RetryNotReady, CheckedConfig, WatchReady, WaitCancelled, WaitElapsed, ReportFailed,
        Install, ReportConnected, Unlock, Step
  <2> QED
    BY <2>1, <2>2
<1> QED
  BY <1>1, <1>2, <1>3

\* Messages with an attempt id have a natural number there.
LEMMA QueuedAttempts ==
    ASSUME TypeOK
    PROVE  \A m \in Queued \cup {exitReport} :
             m.type \in {"Connected", "ConnectFailed", "SingBoxExited"} => m.attempt \in Nat
<1>1. Queued \subseteq Message /\ exitReport \in Message \cup {NoMessage}
  BY DEF TypeOK, LoopTypeOK, Queued, Message
<1> QED
  BY <1>1 DEF Message, InputMessage, ExitMessage, NoMessage

\* Once no worker will install a process, none does.
LEMMA ThreadKeepsSettled ==
    ASSUME IInv, NEW t \in Threads, Thread(t), Settled
    PROVE  Settled'
<1>t. TypeOK /\ LockInv /\ ThreadTypeOK
  BY DEF IInv, TypeOK
<1>1. pc[t] # "install" \/ Cancelled(t)
  <2>1. pc[t] = "install" => task[t].kind = "connect"
    BY DEF IInv, AttemptInv
  <2> QED
    BY <2>1 DEF Settled
<1>2. slotHandle' = None
  BY <1>t, <1>1, ThreadMoves DEF Settled
<1>3. ASSUME NEW u \in Threads, task'[u].kind = "connect"
      PROVE  Cancelled(u)' \/ pc'[u] \in {"free", "report", "unlock"}
  <2>1. task'[u] = task[u] /\ slotAttempt' = slotAttempt
    BY <1>t, <1>3, ThreadMoves DEF NoTask
  <2>2. CASE Cancelled(u)
    BY <2>1, <2>2 DEF Cancelled
  <2>3. CASE pc[u] \in {"free", "report", "unlock"}
    BY <2>3, <1>t, ThreadMoves
  <2> QED
    BY <2>1, <2>2, <2>3, <1>3 DEF Settled
<1> QED
  BY <1>2, <1>3 DEF Settled

\* So an attempt that is over stays over.
LEMMA ThreadKeepsOver ==
    ASSUME IInv, NEW t \in Threads, Thread(t), NEW m, IsOver(m)
    PROVE  IsOver(m)'
<1>1. UNCHANGED <<connection, attempt, phase, slotAttempt>>
  BY ThreadMoves DEF IInv
<1> QED
  BY <1>1, ThreadKeepsSettled DEF IsOver, LoopRunning

\* The channel holds one outcome of attempt a at most.
AtMostOneOutcome(a) ==
    \A i, j \in 1 .. Len(channel) :
        IsOutcome(channel[i], a) /\ IsOutcome(channel[j], a) => i = j

\* An outcome is alone when it comes into a channel without one; taking
\* messages out keeps it alone, and an outcome that is taken was the only one.
LEMMA OutcomeFacts ==
    ASSUME channel \in Seq(Message), NEW a, AtMostOneOutcome(a)
    PROVE  /\ UNCHANGED channel => AtMostOneOutcome(a)'
           /\ \A m : /\ channel' = Append(channel, m)
                     /\ IsOutcome(m, a) => \A n \in Queued : ~IsOutcome(n, a)
                     => AtMostOneOutcome(a)'
           /\ channel # <<>> /\ channel' = Tail(channel) =>
                /\ AtMostOneOutcome(a)'
                /\ IsOutcome(Head(channel), a) => \A m \in Queued' : ~IsOutcome(m, a)
<1>1. UNCHANGED channel => AtMostOneOutcome(a)'
  BY DEF AtMostOneOutcome
<1>2. ASSUME NEW m, channel' = Append(channel, m),
             IsOutcome(m, a) => \A n \in Queued : ~IsOutcome(n, a)
      PROVE  AtMostOneOutcome(a)'
  <2>1. /\ Len(channel') = Len(channel) + 1 /\ Len(channel) \in Nat
        /\ \A i \in 1 .. Len(channel) : channel'[i] = channel[i]
        /\ channel'[Len(channel) + 1] = m
    BY <1>2
  <2>2. SUFFICES ASSUME NEW i \in 1 .. Len(channel) + 1, NEW j \in 1 .. Len(channel) + 1,
                        IsOutcome(channel'[i], a), IsOutcome(channel'[j], a)
                 PROVE  i = j
    BY <2>1 DEF AtMostOneOutcome
  <2>3. CASE i \in 1 .. Len(channel) /\ j \in 1 .. Len(channel)
    BY <2>1, <2>2, <2>3 DEF AtMostOneOutcome
  <2>4. CASE IsOutcome(m, a)
    <3>1. \A l \in 1 .. Len(channel) : ~IsOutcome(channel'[l], a)
      BY <1>2, <2>1, <2>4 DEF Queued
    <3> QED
      BY <2>1, <2>2, <3>1
  <2> QED
    BY <2>1, <2>2, <2>3, <2>4
<1>3. ASSUME channel # <<>>, channel' = Tail(channel)
      PROVE  /\ AtMostOneOutcome(a)'
             /\ IsOutcome(Head(channel), a) => \A m \in Queued' : ~IsOutcome(m, a)
  <2>1. /\ Len(channel) \in Nat /\ Len(channel) >= 1 /\ Len(channel') = Len(channel) - 1
        /\ \A i \in 1 .. Len(channel) - 1 : channel'[i] = channel[i + 1]
        /\ Head(channel) = channel[1]
    BY <1>3
  <2>2. AtMostOneOutcome(a)'
    <3> SUFFICES ASSUME NEW i \in 1 .. Len(channel) - 1, NEW j \in 1 .. Len(channel) - 1,
                        IsOutcome(channel'[i], a), IsOutcome(channel'[j], a)
                 PROVE  i = j
      BY <2>1 DEF AtMostOneOutcome
    <3>1. i + 1 \in 1 .. Len(channel) /\ j + 1 \in 1 .. Len(channel)
      BY <2>1
    <3>2. i + 1 = j + 1
      BY <2>1, <3>1 DEF AtMostOneOutcome
    <3> QED
      BY <3>2
  <2>3. ASSUME IsOutcome(Head(channel), a), NEW m \in Queued', IsOutcome(m, a)
        PROVE  FALSE
    <3>1. PICK i \in 1 .. Len(channel') : m = channel'[i]
      BY DEF Queued
    <3>2. i + 1 \in 1 .. Len(channel) /\ 1 \in 1 .. Len(channel) /\ i + 1 # 1
      BY <2>1, <3>1
    <3>3. IsOutcome(channel[i + 1], a) /\ IsOutcome(channel[1], a)
      BY <2>1, <2>3, <3>1
    <3> QED
      BY <3>2, <3>3 DEF AtMostOneOutcome
  <2> QED
    BY <2>2, <2>3
<1> QED
  BY <1>1, <1>2, <1>3

\* A worker decides its attempt once, and fails only with nothing in the slot.
LEMMA ThreadDecides ==
    ASSUME DecidedInv, ServiceInv', NEW t \in Threads, Thread(t)
    PROVE  DecidedInv'
<1>t. /\ TypeOK /\ SlotTypeOK /\ ThreadTypeOK /\ LockInv /\ channel \in Seq(Message)
      /\ attempt \in Nat /\ slotAttempt \in Nat
  BY DEF DecidedInv, ServiceInv, IInv, TypeOK, LoopTypeOK, ModelTypeOK, SlotTypeOK
<1>f. /\ IInv /\ AttemptInv /\ QueuedIsNewest /\ DistinctAttempts /\ StartingInv
      /\ EffectInv /\ PendingInv /\ OutcomeInv /\ ProcsInv /\ ChildSettingsInv /\ FailureInv
  BY DEF DecidedInv, ServiceInv, IInv
<1>m. /\ UNCHANGED <<connection, connectingProfile, attempt, phase, effect, slotAttempt>>
      /\ LoopRunning' <=> LoopRunning
      /\ \A u \in Threads : AtWork(u)' => AtWork(u) /\ task'[u] = task[u]
  <2>1. UNCHANGED <<connection, connectingProfile, attempt, phase, effect, slotAttempt>>
    BY <1>t, ThreadMoves
  <2>2. \A u \in Threads : AtWork(u)' => AtWork(u) /\ task'[u] = task[u]
    BY <1>t, ThreadMoves DEF AtWork, NoTask
  <2> QED
    BY <2>1, <2>2 DEF LoopRunning
<1>1. EffectInv' /\ PendingInv'
  BY <1>f, <1>m DEF EffectInv, PendingInv
<1>2. ProcsInv'
  <2> SUFFICES ASSUME NEW p \in Pids, procs'[p].state # "free"
               PROVE  /\ procs'[p].attempt <= slotAttempt
                      /\ connection = "Connecting" /\ LoopRunning => procs'[p].attempt < attempt
    BY <1>m DEF ProcsInv
  <2>1. CASE procs'[p] = procs[p]
    BY <2>1, <1>f DEF ProcsInv
  <2>2. CASE pc[t] = "spawn" /\ procs'[p].attempt = task[t].attempt
    BY <2>2, <1>f DEF AttemptInv, QueuedIsNewest
  <2> QED
    BY <2>1, <2>2, <1>f, ThreadProcs
<1>3. ChildSettingsInv'
  <2> SUFFICES ASSUME NEW u \in Threads, pc'[u] \in {"watch", "install"}
               PROVE  procs'[child'[u]].settings = task'[u].settings
    BY DEF ChildSettingsInv
  <2>1. u = t /\ task'[t] = task[t]
    BY <1>t, ThreadMoves
  <2> QED
    BY <2>1, <1>f, ThreadProcs DEF ChildSettingsInv
<1>4. CASE UNCHANGED channel
  <2>1. Queued' = Queued
    BY <1>4 DEF Queued
  <2>2. OutcomeInv'
    BY <2>1, <1>4, <1>f, <1>m DEF OutcomeInv
  <2>3. FailureInv'
    BY <2>1, <1>f, ThreadKeepsOver DEF FailureInv
  <2> QED
    BY <1>1, <1>2, <1>3, <2>2, <2>3 DEF DecidedInv
<1>5. ASSUME NEW m, channel' = Append(channel, m),
             m.type \in {"Connected", "ConnectFailed", "ConnectRetrying"},
             m.attempt = task[t].attempt,
             m.type # "ConnectRetrying" => pc[t] \in {"report", "failed"} /\ pc'[t] = "unlock",
             m.type = "Connected" => m.profile = task[t].profile,
             m.type = "ConnectFailed" => pc[t] = "failed" /\ ~Cancelled(t)
      PROVE  DecidedInv'
  <2>1. Queued' = Queued \cup {m}
    BY <1>t, <1>5, QueuedFacts
  <2>2. m.type # "ConnectRetrying" => AtWork(t) /\ ~AtWork(t)'
    BY <1>5, <1>f DEF AtWork, AttemptInv
  <2>3. LoopRunning /\ IsOutcome(m, attempt) =>
          /\ connection = "ConnectPending"
          /\ m.type = "Connected" => m.profile = connectingProfile
          /\ \A n \in Queued : ~IsOutcome(n, attempt)
          /\ \A u \in Threads : AtWork(u)' => task[u].attempt # attempt
    <3> SUFFICES ASSUME LoopRunning, IsOutcome(m, attempt)
                 PROVE  /\ connection = "ConnectPending"
                        /\ m.type = "Connected" => m.profile = connectingProfile
                        /\ \A n \in Queued : ~IsOutcome(n, attempt)
                        /\ \A u \in Threads : AtWork(u)' => task[u].attempt # attempt
      OBVIOUS
    <3>1. task[t].attempt = attempt /\ AtWork(t) /\ ~AtWork(t)'
      BY <1>5, <2>2 DEF IsOutcome
    <3>2. \A u \in Threads : AtWork(u)' => task[u].attempt # attempt
      BY <3>1, <1>m, <1>f DEF DistinctAttempts, AtWork
    <3> QED
      BY <3>1, <3>2, <1>5, <1>f DEF OutcomeInv
  <2>4. OutcomeInv'
    <3> SUFFICES ASSUME LoopRunning PROVE OutcomeInv'
      BY <1>m DEF OutcomeInv
    <3>1. AtMostOneOutcome(attempt)
      BY <1>f DEF OutcomeInv, AtMostOneOutcome
    <3>2. \A i, j \in 1 .. Len(channel') :
            IsOutcome(channel'[i], attempt) /\ IsOutcome(channel'[j], attempt) => i = j
      BY <3>1, <2>3, <1>5, <1>t, OutcomeFacts DEF AtMostOneOutcome
    <3>3. \A u \in Threads : AtWork(u)' /\ task'[u].attempt = attempt =>
            /\ connection = "ConnectPending"
            /\ task'[u].profile = connectingProfile
            /\ \A n \in Queued' : ~IsOutcome(n, attempt)
      BY <2>1, <2>3, <1>m, <1>f DEF OutcomeInv
    <3>4. \A n \in Queued' : IsOutcome(n, attempt) =>
            /\ connection = "ConnectPending"
            /\ n.type = "Connected" => n.profile = connectingProfile
      BY <2>1, <2>3, <1>f DEF OutcomeInv
    <3> QED
      BY <3>2, <3>3, <3>4, <1>m DEF OutcomeInv, IsOutcome
  <2>5. m.type = "ConnectFailed" => IsOver(m)'
    <3> SUFFICES ASSUME m.type = "ConnectFailed", LoopRunning
                 PROVE  /\ m.attempt <= slotAttempt
                        /\ connection = "Connecting" => m.attempt < attempt
                        /\ Settled'
      BY <1>m DEF IsOver
    <3>1. pc[t] = "failed" /\ ~Cancelled(t) /\ pc'[t] = "unlock" /\ task[t].kind = "connect"
      BY <1>5, <1>f DEF AttemptInv
    <3>2. slotHandle' = None
      BY <3>1, <1>t, <1>f, ThreadMoves DEF StartingInv
    <3>3. \A u \in Threads : task'[u].kind = "connect" =>
            Cancelled(u)' \/ pc'[u] \in {"free", "report", "unlock"}
      BY <3>1, <1>f, <1>m, <1>t, ThreadMoves DEF DistinctAttempts, Cancelled, NoTask
    <3>4. m.attempt <= slotAttempt /\ (connection = "Connecting" => m.attempt < attempt)
      BY <3>1, <1>5, <1>f DEF AttemptInv, QueuedIsNewest
    <3> QED
      BY <3>2, <3>3, <3>4 DEF Settled
  <2>6. FailureInv'
    BY <2>1, <2>5, <1>f, ThreadKeepsOver DEF FailureInv
  <2> QED
    BY <1>1, <1>2, <1>3, <2>4, <2>6 DEF DecidedInv
<1> QED
  BY <1>4, <1>5, <1>t, ThreadOutcome

\* A handler leaves a pending connect as it is, gives it up for a new attempt
\* or has its outcome.
LEMMA UpdateSteps ==
    ASSUME TypeOK, Update
    PROVE  /\ connection' = "ConnectPending" =>
                UNCHANGED <<connection, connectingProfile, attempt>>
           /\ connection = "ConnectPending" /\ attempt' = attempt =>
                connection' = "ConnectPending" \/ IsOutcome(Head(channel), attempt)
           /\ connection' = "Idle" /\ connection # "Idle" =>
                \/ connection = "Connecting" /\ connectingProfile \notin profiles
                \/ /\ Head(channel).type \in {"ConnectFailed", "SingBoxExited"}
                   /\ Head(channel).attempt = attempt
<1>0. \A P, blocked, p : QueueConnect(P, blocked, p) =>
        \/ UNCHANGED <<connection, connectingProfile, attempt>>
        \/ connection' = "Connecting" /\ attempt' = attempt + 1
  BY Zenon DEF QueueConnect
<1>n. attempt \in Nat
  BY DEF TypeOK, ModelTypeOK
<1>1. CASE OnTick \/ OnConnectRetrying \/ OnDisconnect \/ OnQuit \/ OnDeleteProfile
           \/ OnApplyEditedConfig \/ OnApplyEditedRouting
  BY <1>1
  DEF OnTick, OnConnectRetrying, OnDisconnect, OnQuit, OnDeleteProfile,
      OnApplyEditedConfig, OnApplyEditedRouting, Receive, modelVars
<1>2. CASE OnConnected
  BY <1>2, <1>n DEF OnConnected, Receive, IsStale, modelVars, IsOutcome
<1>3. CASE OnConnectFailed \/ OnSingBoxExited
  BY <1>3, <1>n DEF OnConnectFailed, OnSingBoxExited, Receive, IsStale, ClearConnection,
      modelVars, IsOutcome
<1>4. CASE OnSystemResumed \/ OnConnectProfile \/ OnEnterOnProfile \/ OnReconnect
           \/ OnToggle \/ OnSettingsApplied \/ OnModeSelected \/ OnConfigReloaded
           \/ OnSubscriptionFetched \/ OnRuleSetsUpdated \/ OnRoutingReloaded
  <2>1. \/ \E P, blocked, p : QueueConnect(P, blocked, p)
        \/ UNCHANGED modelVars
    BY <1>4, Zenon
    DEF OnSystemResumed, OnConnectProfile, OnEnterOnProfile, OnReconnect, OnToggle,
        OnSettingsApplied, OnModeSelected, OnConfigReloaded, ConfigReloaded,
        OnSubscriptionFetched, OnRuleSetsUpdated, OnRoutingReloaded, RoutingReloaded
  <2>2. \/ UNCHANGED <<connection, connectingProfile, attempt>>
        \/ connection' = "Connecting" /\ attempt' = attempt + 1
    BY <2>1, <1>0, Zenon DEF modelVars
  <2> QED
    BY <2>2, <1>n
<1> QED
  BY <1>1, <1>2, <1>3, <1>4 DEF Update

\* A new attempt id outdates every worker, process and outcome.
LEMMA NewAttemptDecides ==
    ASSUME DecidedInv, LoopRunning, attempt' \in Nat, attempt' > attempt,
           connection' # "ConnectPending",
           slotAttempt' \in Nat, slotAttempt' >= slotAttempt, slotAttempt' <= attempt',
           Queued' \subseteq Queued, procs' = procs,
           \A t \in Threads : task'[t] = task[t] \/ task'[t].kind = "stop"
    PROVE  /\ PendingInv' /\ OutcomeInv' /\ ProcsInv' /\ FailureInv'
           /\ \A m \in Queued \cup {exitReport} : m.type = "SingBoxExited" /\ IsOver(m)
                => IsOver(m)'
<1>t. /\ TypeOK /\ SlotTypeOK /\ ThreadTypeOK /\ attempt \in Nat /\ slotAttempt \in Nat
      /\ slotAttempt <= attempt
  BY DEF DecidedInv, ServiceInv, IInv, TypeOK, ModelTypeOK, SlotTypeOK, AttemptInv
<1>f. /\ AttemptInv /\ ReportInv /\ ProcsInv /\ FailureInv
  BY DEF DecidedInv, ServiceInv, IInv
<1>1. \A m \in Queued \cup {exitReport} :
        m.type \in {"Connected", "ConnectFailed", "SingBoxExited"} => m.attempt \in Nat
  BY <1>t, QueuedAttempts
<1>2. \A m : m.attempt \in Nat /\ m.attempt <= slotAttempt =>
        m.attempt <= slotAttempt' /\ m.attempt < attempt' /\ m.attempt # attempt'
  BY <1>t
<1>3. \A m : m.attempt \in Nat /\ IsOver(m) => IsOver(m)'
  BY <1>2 DEF IsOver
<1>4. FailureInv'
  BY <1>1, <1>3, <1>f DEF FailureInv
<1>5. \A m \in Queued' : ~IsOutcome(m, attempt')
  BY <1>1, <1>2, <1>f DEF IsOutcome, ReportInv, FailureInv, IsOver
<1>6. \A t \in Threads : task'[t].kind = "connect" => task'[t].attempt # attempt'
  <2>1. \A t \in Threads : task[t].attempt \in Nat /\ task[t].attempt <= slotAttempt
    BY <1>t, <1>f DEF AttemptInv, ThreadTypeOK, Task
  <2> QED
    BY <2>1, <1>2, <1>t
<1>7. \A i \in 1 .. Len(channel)' : channel'[i] \in Queued'
  BY DEF Queued
<1>8. OutcomeInv'
  BY <1>5, <1>6, <1>7 DEF OutcomeInv, AtWork
<1>9. ProcsInv'
  <2>1. \A p \in Pids : procs[p].attempt \in Nat
    BY <1>t DEF SlotTypeOK, Proc
  <2> QED
    BY <2>1, <1>t, <1>f DEF ProcsInv
<1> QED
  BY <1>1, <1>3, <1>4, <1>8, <1>9 DEF PendingInv

\* As long as the attempt stays, its outcome ends the pending connect, and
\* nothing else does.
LEMMA SameAttemptDecides ==
    ASSUME DecidedInv, LoopRunning, attempt' = attempt,
           slotAttempt' \in {slotAttempt, attempt},
           UNCHANGED <<slotHandle, procs, pc, task>>,
           channel' = channel \/ (channel # <<>> /\ channel' = Tail(channel)),
           connection' = "Connecting" => connection = "Connecting",
           \/ UNCHANGED <<connection, connectingProfile>>
           \/ connection # "ConnectPending" /\ connection' # "ConnectPending"
           \/ /\ channel # <<>> /\ channel' = Tail(channel)
              /\ IsOutcome(Head(channel), attempt)
              /\ connection' # "ConnectPending"
    PROVE  /\ PendingInv' /\ OutcomeInv' /\ ProcsInv' /\ FailureInv'
           /\ \A m : m.attempt \in Nat /\ IsOver(m) => IsOver(m)'
<1>t. /\ TypeOK /\ SlotTypeOK /\ ThreadTypeOK /\ attempt \in Nat /\ slotAttempt \in Nat
      /\ slotAttempt <= attempt /\ channel \in Seq(Message)
  BY DEF DecidedInv, ServiceInv, IInv, TypeOK, ModelTypeOK, SlotTypeOK, AttemptInv, LoopTypeOK
<1>f. /\ AttemptInv /\ PendingInv /\ OutcomeInv /\ ProcsInv /\ FailureInv
  BY DEF DecidedInv, ServiceInv, IInv
<1>1. Queued' \subseteq Queued
  BY <1>t, QueuedFacts
<1>2. Settled => Settled'
  <2>1. \A t \in Threads : Cancelled(t) => Cancelled(t)'
    <3>1. \A t \in Threads : task[t].attempt \in Nat /\ task[t].attempt <= slotAttempt
      BY <1>t, <1>f DEF AttemptInv, ThreadTypeOK, Task
    <3> QED
      BY <3>1, <1>t DEF Cancelled
  <2> QED
    BY <2>1 DEF Settled
<1>3. \A m : m.attempt \in Nat /\ IsOver(m) => IsOver(m)'
  <2>1. \A m : m.attempt \in Nat /\ m.attempt <= slotAttempt => m.attempt <= slotAttempt'
    BY <1>t
  <2> QED
    BY <1>2, <2>1 DEF IsOver
<1>4. FailureInv'
  BY <1>1, <1>3, <1>t, <1>f, QueuedAttempts DEF FailureInv
<1>5. ProcsInv'
  <2>1. \A p \in Pids : procs[p].attempt \in Nat
    BY <1>t DEF SlotTypeOK, Proc
  <2> QED
    BY <2>1, <1>t, <1>f DEF ProcsInv, LoopRunning
<1>6. OutcomeInv'
  <2>1. AtMostOneOutcome(attempt)
    BY <1>f DEF OutcomeInv, AtMostOneOutcome
  <2>2. AtMostOneOutcome(attempt)'
    BY <1>t, <2>1, OutcomeFacts
  <2>3. \A t \in Threads : AtWork(t)' <=> AtWork(t)
    BY DEF AtWork
  <2>4. CASE UNCHANGED <<connection, connectingProfile>>
    BY <1>1, <2>2, <2>3, <2>4, <1>f DEF OutcomeInv, AtMostOneOutcome, IsOutcome
  <2>5. CASE connection # "ConnectPending"
    BY <1>1, <2>2, <2>3, <2>5, <1>f DEF OutcomeInv, AtMostOneOutcome, IsOutcome
  <2>6. CASE /\ channel # <<>> /\ channel' = Tail(channel)
             /\ IsOutcome(Head(channel), attempt)
    <3>1. \A m \in Queued' : ~IsOutcome(m, attempt)
      BY <2>1, <2>6, <1>t, OutcomeFacts DEF IsOutcome
    <3>2. \A t \in Threads : AtWork(t) => task[t].attempt # attempt
      BY <2>6, <1>t, <1>f, QueuedFacts DEF OutcomeInv
    <3> QED
      BY <2>2, <2>3, <3>1, <3>2 DEF OutcomeInv, AtMostOneOutcome, IsOutcome
  <2> QED
    BY <2>4, <2>5, <2>6
<1>7. PendingInv'
  BY <1>f, <1>t DEF PendingInv
<1> QED
  BY <1>3, <1>4, <1>5, <1>6, <1>7

\* The main loop decides no attempt but the current one: by its outcome, or by
\* taking a new attempt id.
LEMMA MainDecides ==
    ASSUME DecidedInv, ServiceInv', MainLoop
    PROVE  /\ DecidedInv'
           /\ \A m \in Queued \cup {exitReport} : m.type = "SingBoxExited" /\ IsOver(m)
                => IsOver(m)'
<1>t. /\ TypeOK /\ SlotTypeOK /\ ThreadTypeOK /\ channel \in Seq(Message)
      /\ attempt \in Nat /\ slotAttempt \in Nat /\ attempt' \in Nat /\ slotAttempt' \in Nat
  BY DEF DecidedInv, ServiceInv, IInv, TypeOK, LoopTypeOK, ModelTypeOK, SlotTypeOK
<1>f. /\ IInv /\ AttemptInv /\ QueuedIsNewest /\ LockInv /\ ReportInv
      /\ EffectInv /\ PendingInv /\ OutcomeInv /\ ProcsInv /\ ChildSettingsInv /\ FailureInv
  BY DEF DecidedInv, ServiceInv, IInv
<1>x. \A m \in Queued \cup {exitReport} :
        m.type \in {"Connected", "ConnectFailed", "SingBoxExited"} => m.attempt \in Nat
  BY <1>t, QueuedAttempts
<1> DEFINE Kept == \A m \in Queued \cup {exitReport} : m.type = "SingBoxExited" /\ IsOver(m)
                     => IsOver(m)'
<1>1. CASE Update
  <2>1. /\ phase = "recv" /\ phase' = "sync" /\ LoopRunning /\ attempt' >= attempt
        /\ connection' = "Connecting" => attempt' > attempt \/ connection = "Connecting"
        /\ UNCHANGED <<slotAttempt, slotHandle, pc, task, child, procs>>
    BY <1>1, <1>t, UpdateFacts DEF UpdateStep, slotVars, threadVars, LoopRunning
  <2>2. channel # <<>> /\ channel' = Tail(channel) /\ Queued' \subseteq Queued
    BY <1>1, <1>t, UpdateReports, QueuedFacts
  <2>3. EffectInv' /\ ChildSettingsInv'
    BY <2>1, <1>f DEF EffectInv, ChildSettingsInv
  <2>4. CASE attempt' > attempt
    <3>1. connection' # "ConnectPending"
      BY <2>4, <1>1, <1>t, UpdateSteps
    <3>2. slotAttempt <= attempt'
      BY <2>1, <2>4, <1>t, <1>f DEF AttemptInv
    <3>3. PendingInv' /\ OutcomeInv' /\ ProcsInv' /\ FailureInv' /\ Kept
      BY <2>1, <2>2, <2>4, <3>1, <3>2, <1>t, NewAttemptDecides
    <3> QED
      BY <2>3, <3>3 DEF DecidedInv
  <2>5. CASE attempt' = attempt
    <3>1. \/ UNCHANGED <<connection, connectingProfile>>
          \/ connection # "ConnectPending" /\ connection' # "ConnectPending"
          \/ IsOutcome(Head(channel), attempt) /\ connection' # "ConnectPending"
      BY <2>5, <1>1, <1>t, UpdateSteps
    <3>2. connection' = "Connecting" => connection = "Connecting"
      BY <2>1, <2>5, <1>t
    <3>3. /\ PendingInv' /\ OutcomeInv' /\ ProcsInv' /\ FailureInv'
          /\ \A m : m.attempt \in Nat /\ IsOver(m) => IsOver(m)'
      BY <2>1, <2>2, <2>5, <3>1, <3>2, SameAttemptDecides
    <3> QED
      BY <2>3, <3>3, <1>x DEF DecidedInv
  <2> QED
    BY <2>1, <2>4, <2>5, <1>t
<1>2. CASE SyncAttempt
  <2>1. /\ LoopRunning /\ slotAttempt' = attempt /\ attempt' = attempt
        /\ phase' = "recv" => effect' = NoEffect
        /\ UNCHANGED <<connection, connectingProfile, channel, slotHandle, procs, pc, task,
                       child>>
    BY <1>2 DEF SyncAttempt, LoopRunning, modelVars, threadVars
  <2>2. EffectInv' /\ ChildSettingsInv'
    BY <2>1, <1>f DEF EffectInv, ChildSettingsInv
  <2>3. /\ PendingInv' /\ OutcomeInv' /\ ProcsInv' /\ FailureInv'
        /\ \A m : m.attempt \in Nat /\ IsOver(m) => IsOver(m)'
    BY <2>1, SameAttemptDecides
  <2> QED
    BY <2>2, <2>3, <1>x DEF DecidedInv
<1>3. CASE ExecuteConnect
  <2>1. /\ effect.type = "Connect" /\ LoopRunning /\ connection' = "ConnectPending"
        /\ effect' = NoEffect /\ slotAttempt' = attempt
        /\ UNCHANGED <<attempt, connectingProfile, channel, child, procs>>
    BY <1>3 DEF ExecuteConnect, Executes, LoopRunning
  <2>2. connection = "Connecting" /\ slotAttempt <= attempt
    BY <2>1, <1>f DEF QueuedIsNewest, AttemptInv
  <2>3. PICK t \in Threads : /\ pc' = [pc EXCEPT ![t] = "lock"]
                             /\ task' = [task EXCEPT ![t] =
                                  [kind |-> "connect", attempt |-> attempt,
                                   profile |-> connectingProfile, settings |-> settings]]
    BY <1>3 DEF ExecuteConnect, Spawn
  <2>4. /\ task'[t].profile = connectingProfile /\ pc'[t] = "lock"
        /\ \A u \in Threads : u # t => pc'[u] = pc[u] /\ task'[u] = task[u]
    BY <2>3, <1>t DEF ThreadTypeOK
  <2>5. Queued' = Queued
    BY <2>1 DEF Queued
  <2>6. \A m \in Queued : ~IsOutcome(m, attempt)
    BY <2>1, <2>2, <1>x, <1>t, <1>f DEF IsOutcome, ReportInv, FailureInv, IsOver
  <2>7. \A u \in Threads : u # t /\ task'[u].kind = "connect" => task'[u].attempt # attempt
    <3>1. \A u \in Threads : task[u].attempt \in Nat
      BY <1>t DEF ThreadTypeOK, Task
    <3> QED
      BY <2>1, <2>2, <2>4, <3>1, <1>t, <1>f DEF QueuedIsNewest
  <2>8. \A i \in 1 .. Len(channel) : channel[i] \in Queued
    BY DEF Queued
  <2>9. OutcomeInv'
    BY <2>1, <2>4, <2>5, <2>6, <2>7, <2>8 DEF OutcomeInv, AtWork, IsOutcome
  <2>10. \A m : m.attempt \in Nat /\ IsOver(m) => IsOver(m)'
    BY <2>1, <2>2, <1>t DEF IsOver
  <2>11. ProcsInv'
    <3>1. \A p \in Pids : procs[p].attempt \in Nat
      BY <1>t DEF SlotTypeOK, Proc
    <3> QED
      BY <2>1, <2>2, <3>1, <1>t, <1>f DEF ProcsInv
  <2>12. ChildSettingsInv'
    BY <2>1, <2>4, <1>f DEF ChildSettingsInv
  <2>13. EffectInv' /\ PendingInv'
    BY <2>1 DEF EffectInv, PendingInv
  <2>14. FailureInv'
    BY <2>5, <2>10, <1>x, <1>f DEF FailureInv
  <2> QED
    BY <2>9, <2>10, <2>11, <2>12, <2>13, <2>14, <1>x DEF DecidedInv
<1>4. CASE \/ ExecuteDisconnect
           \/ ExecuteCommitEditedConfig /\ Disconnect
  <2>1. /\ LoopRunning /\ effect' = NoEffect
        /\ attempt' = attempt + 1 /\ slotAttempt' = attempt + 1 /\ connection' = "Idle"
        /\ UNCHANGED <<channel, child, procs>>
        /\ \/ UNCHANGED <<pc, task>>
           \/ \E t \in Threads : Spawn(t, [kind |-> "stop", attempt |-> 0, profile |-> None,
                                           settings |-> 0])
    BY <1>4 DEF ExecuteDisconnect, ExecuteCommitEditedConfig, Executes, Disconnect,
        ClearConnection, LoopRunning
  <2>2. /\ \A u \in Threads : pc'[u] # "lock" => pc'[u] = pc[u] /\ task'[u] = task[u]
        /\ \A u \in Threads : task'[u] = task[u] \/ task'[u].kind = "stop"
    BY <2>1, <1>t DEF Spawn, ThreadTypeOK
  <2>3. Queued' = Queued
    BY <2>1 DEF Queued
  <2>4. slotAttempt' >= slotAttempt
    BY <2>1, <1>t, <1>f DEF AttemptInv
  <2>5. PendingInv' /\ OutcomeInv' /\ ProcsInv' /\ FailureInv' /\ Kept
    BY <2>1, <2>2, <2>3, <2>4, <1>t, NewAttemptDecides
  <2>6. EffectInv' /\ ChildSettingsInv'
    BY <2>1, <2>2, <1>f DEF EffectInv, ChildSettingsInv
  <2> QED
    BY <2>5, <2>6 DEF DecidedInv
<1>5. CASE \/ ExecuteCommitEditedConfig /\ ~Disconnect
           \/ ExecuteCommitEditedRouting
  <2>1. /\ LoopRunning /\ effect' = NoEffect
        /\ UNCHANGED <<channel, slotAttempt, slotHandle, pc, task, child, procs>>
        /\ \/ UNCHANGED modelVars
           \/ \E P, blocked, p : QueueConnect(P, blocked, p)
    <3>1. CASE ExecuteCommitEditedConfig /\ ~Disconnect
      BY <3>1, Zenon DEF ExecuteCommitEditedConfig, Executes, ConfigReloaded, LoopRunning, slotVars
    <3>2. CASE ExecuteCommitEditedRouting
      BY <3>2, Zenon DEF ExecuteCommitEditedRouting, Executes, RoutingReloaded, LoopRunning,
          slotVars, threadVars
    <3> QED
      BY <1>5, <3>1, <3>2
  <2>2. \/ UNCHANGED <<connection, connectingProfile, attempt>>
        \/ attempt' = attempt + 1 /\ connection' = "Connecting"
    BY <2>1, Zenon DEF QueueConnect, modelVars
  <2>3. EffectInv' /\ ChildSettingsInv'
    BY <2>1, <1>f DEF EffectInv, ChildSettingsInv
  <2>4. CASE attempt' = attempt + 1 /\ connection' = "Connecting"
    <3>1. slotAttempt' >= slotAttempt /\ slotAttempt' <= attempt' /\ Queued' = Queued
      BY <2>1, <2>4, <1>t, <1>f DEF AttemptInv, Queued
    <3>2. PendingInv' /\ OutcomeInv' /\ ProcsInv' /\ FailureInv' /\ Kept
      BY <2>1, <2>4, <3>1, <1>t, NewAttemptDecides
    <3> QED
      BY <2>3, <3>2 DEF DecidedInv
  <2>5. CASE UNCHANGED <<connection, connectingProfile, attempt>>
    <3>1. /\ PendingInv' /\ OutcomeInv' /\ ProcsInv' /\ FailureInv'
          /\ \A m : m.attempt \in Nat /\ IsOver(m) => IsOver(m)'
      BY <2>1, <2>5, SameAttemptDecides
    <3> QED
      BY <2>3, <3>1, <1>x DEF DecidedInv
  <2> QED
    BY <2>2, <2>4, <2>5
<1>6. CASE ExecuteQuit \/ ShutdownBump \/ ShutdownTake \/ ShutdownExit
  <2>1. /\ ~LoopRunning' /\ phase' # "recv"
        /\ slotAttempt' >= slotAttempt
        /\ UNCHANGED <<procs, pc, task, child>>
    BY <1>6, <1>t, <1>f DEF ExecuteQuit, Executes, ShutdownBump, ShutdownTake, ShutdownExit,
        LoopRunning, slotVars, threadVars, AttemptInv
  <2>2. \A m \in Queued' : m.type = "ConnectFailed" => IsOver(m)'
    BY <2>1 DEF IsOver
  <2>3. ProcsInv'
    <3>1. \A p \in Pids : procs[p].attempt \in Nat
      BY <1>t DEF SlotTypeOK, Proc
    <3> QED
      BY <2>1, <3>1, <1>t, <1>f DEF ProcsInv
  <2> QED
    BY <2>1, <2>2, <2>3, <1>f
    DEF DecidedInv, EffectInv, PendingInv, OutcomeInv, ChildSettingsInv, FailureInv, IsOver
<1>7. CASE ShutdownStop
  <2>1. /\ ~LoopRunning' /\ phase' # "recv" /\ phase = "stopping"
        /\ UNCHANGED <<slotAttempt, pc, task, child>>
        /\ \E p \in stopping[Main] : Reap(p)
    BY <1>7 DEF ShutdownStop, LoopRunning, slotVars
  <2>2. \A t \in Threads : pc'[t] \notin {"watch", "install"}
    BY <2>1, <1>f, ConstantsAssumption DEF LockInv
  <2>3. \A p \in Pids : procs'[p].state # "free" => procs'[p] = procs[p]
    BY <2>1, <1>t DEF Reap, NoProc, SlotTypeOK
  <2> QED
    BY <2>1, <2>2, <2>3, <1>f
    DEF DecidedInv, EffectInv, PendingInv, OutcomeInv, ProcsInv, ChildSettingsInv, FailureInv,
        IsOver
<1> QED
  BY <1>1, <1>2, <1>3, <1>4, <1>5, <1>6, <1>7 DEF MainLoop

\* What comes into the channel besides the messages of workers decides
\* nothing, exits excepted.
LEMMA EnvironmentSends ==
    ASSUME TypeOK, Ticker \/ SendInput \/ EditDisk \/ ProcessExits \/ UNCHANGED vars
    PROVE  /\ Queued \subseteq Queued'
           /\ \A m \in Queued' \ Queued :
                \/ m.type = "SingBoxExited" /\ m = exitReport
                \/ m.type = "Tick"
                \/ m \in Inputs
           /\ \/ UNCHANGED channel
              \/ \E m : /\ channel' = Append(channel, m)
                        /\ m.type \notin {"Connected", "ConnectFailed"}
           /\ exitReport' \in {exitReport, NoMessage} \/ PollExit
<1>t. /\ channel \in Seq(Message)
      /\ exitReport # NoMessage => exitReport.type = "SingBoxExited"
  BY DEF TypeOK, LoopTypeOK, ExitMessage
<1>1. \A m : Send(m) => /\ Queued' = Queued \/ Queued' = Queued \cup {m}
                        /\ channel' = channel \/ channel' = Append(channel, m)
  BY <1>t, QueuedFacts DEF Send
<1>2. CASE SendExit
  <2>1. Send(exitReport) /\ exitReport.type = "SingBoxExited" /\ exitReport' = NoMessage
    BY <1>t, <1>2 DEF SendExit
  <2> QED
    BY <1>1, <2>1
<1>3. CASE SendTick
  <2>1. Send([type |-> "Tick"]) /\ exitReport' = exitReport
    BY <1>3 DEF SendTick
  <2> QED
    BY <1>1, <2>1
<1>4. CASE SendInput
  <2>1. PICK m \in Inputs : Send(m)
    BY <1>4 DEF SendInput
  <2>2. m.type \notin {"Connected", "ConnectFailed"} /\ exitReport' = exitReport
    BY <1>4, ConstantsAssumption DEF InputMessage, SendInput
  <2> QED
    BY <1>1, <2>1, <2>2
<1>5. CASE PollExit \/ EditDisk \/ ProcessExits \/ UNCHANGED vars
  BY <1>5 DEF PollExit, EditDisk, ProcessExits, vars, Queued
<1> QED
  BY <1>2, <1>3, <1>4, <1>5 DEF Ticker

\* Outside the main loop and the workers nothing is decided.
LEMMA EnvironmentDecides ==
    ASSUME DecidedInv, ServiceInv',
           Ticker \/ SendInput \/ EditDisk \/ ProcessExits \/ UNCHANGED vars
    PROVE  DecidedInv' /\ \A m : IsOver(m) => IsOver(m)'
<1>t. TypeOK /\ SlotTypeOK /\ channel \in Seq(Message)
  BY DEF DecidedInv, ServiceInv, IInv, TypeOK, LoopTypeOK
<1>f. /\ EffectInv /\ PendingInv /\ OutcomeInv /\ ProcsInv /\ ChildSettingsInv /\ FailureInv
      /\ StartingInv /\ SlotInv /\ ChildInv
  BY DEF DecidedInv, ServiceInv, IInv
<1>m. /\ UNCHANGED <<connection, connectingProfile, attempt, phase, effect, slotAttempt,
                     pc, task, child>>
      /\ slotHandle' \in {slotHandle, None}
      /\ LoopRunning' <=> LoopRunning
  BY DEF Ticker, PollExit, SendExit, SendTick, SendInput, EditDisk, ProcessExits, vars,
      modelVars, slotVars, threadVars, LoopRunning
<1>1. EffectInv' /\ PendingInv'
  BY <1>f, <1>m DEF EffectInv, PendingInv
<1>2. \A m : IsOver(m) => IsOver(m)'
  BY <1>m DEF IsOver, Settled, Cancelled
<1>3. \A m \in Queued' : m.type \in {"Connected", "ConnectFailed"} => m \in Queued
  BY <1>t, EnvironmentSends, ConstantsAssumption DEF InputMessage
<1>4. FailureInv'
  BY <1>2, <1>3, <1>f DEF FailureInv
<1>5. OutcomeInv'
  <2>1. LoopRunning => AtMostOneOutcome(attempt)'
    <3>1. LoopRunning => AtMostOneOutcome(attempt)
      BY <1>f DEF OutcomeInv, AtMostOneOutcome
    <3>2. CASE UNCHANGED channel
      BY <3>1, <3>2, <1>m DEF AtMostOneOutcome, IsOutcome
    <3>3. ASSUME NEW m, channel' = Append(channel, m),
                 m.type \notin {"Connected", "ConnectFailed"}, LoopRunning
          PROVE  \A i, j \in 1 .. Len(channel') :
                    IsOutcome(channel'[i], attempt) /\ IsOutcome(channel'[j], attempt) => i = j
      <4> DEFINE a == attempt
      <4>1. ~IsOutcome(m, a)
        BY <3>3 DEF IsOutcome
      <4>2. AtMostOneOutcome(a)
        BY <3>1, <3>3
      <4>3. AtMostOneOutcome(a)'
        BY <4>1, <4>2, <3>3, <1>t, OutcomeFacts, <1>m
      <4> QED
        BY <4>3, <1>m DEF AtMostOneOutcome
    <3> QED
      BY <3>2, <3>3, <1>t, <1>m, EnvironmentSends DEF AtMostOneOutcome, IsOutcome
  <2>2. \A m \in Queued' : IsOutcome(m, attempt) => m \in Queued
    BY <1>3 DEF IsOutcome
  <2> QED
    BY <2>1, <2>2, <1>m, <1>f DEF OutcomeInv, AtWork, AtMostOneOutcome, IsOutcome
<1>6. /\ \A p \in Pids : procs'[p].state # "free" =>
           /\ procs[p].state # "free"
           /\ procs'[p].attempt = procs[p].attempt
      /\ ChildSettingsInv'
  <2>1. CASE PollExit
    <3>1. slotHandle \in Pids /\ procs' = [procs EXCEPT ![slotHandle] = NoProc]
      BY <2>1 DEF PollExit, Reap
    <3>2. \A p \in Pids : procs'[p].state # "free" => procs'[p] = procs[p]
      BY <3>1, <1>t DEF NoProc, SlotTypeOK
    <3>3. \A t \in Threads : pc[t] \notin {"watch", "install"}
      BY <3>1, <1>f, ConstantsAssumption DEF StartingInv
    <3> QED
      BY <3>2, <3>3, <1>m DEF ChildSettingsInv
  <2>2. CASE ProcessExits
    <3>1. PICK p \in Pids : procs[p].state = "up"
                            /\ procs' = [procs EXCEPT ![p].state = "exited"]
      BY <2>2 DEF ProcessExits
    <3>2. \A q \in Pids : /\ procs'[q].attempt = procs[q].attempt
                          /\ procs'[q].settings = procs[q].settings
                          /\ procs'[q].state # "free" => procs[q].state # "free"
      BY <3>1, <1>t DEF SlotTypeOK, Proc
    <3>3. \A t \in Threads : pc[t] \in {"watch", "install"} => child[t] \in Pids
      BY <1>f DEF ChildInv
    <3> QED
      BY <3>2, <3>3, <1>f, <1>m DEF ChildSettingsInv
  <2>3. CASE ~PollExit /\ ~ProcessExits
    <3>1. procs' = procs
      BY <2>3 DEF Ticker, SendExit, SendTick, SendInput, EditDisk, vars
    <3> QED
      BY <3>1, <1>f, <1>m DEF ChildSettingsInv
  <2> QED
    BY <2>1, <2>2, <2>3
<1>7. ProcsInv'
  BY <1>6, <1>m, <1>f DEF ProcsInv
<1> QED
  BY <1>1, <1>2, <1>4, <1>5, <1>6, <1>7 DEF DecidedInv

\* For every value of the constants, how connects are decided holds in every
\* reachable state.
THEOREM Decisions == Spec => []DecidedInv
<1>1. Init => DecidedInv
  <2> SUFFICES ASSUME Init PROVE DecidedInv
    OBVIOUS
  <2>1. /\ Queued = {} /\ Len(channel) = 0
        /\ \A t \in Threads : pc[t] = "free"
        /\ \A p \in Pids : procs[p].state = "free"
        /\ phase = "recv" /\ effect = NoEffect /\ connection # "ConnectPending"
    BY DEF Init, Queued, NoProc
  <2>2. ServiceInv
    <3>1. IInv
      BY InitKeeps
    <3> QED
      BY <2>1, <3>1, ConstantsAssumption
      DEF Init, ServiceInv, SlotInv, ChildProfileInv, ReportInv
  <2> QED
    BY <2>1, <2>2
    DEF DecidedInv, EffectInv, PendingInv, OutcomeInv, AtWork, ProcsInv, ChildSettingsInv,
        FailureInv
<1>2. DecidedInv /\ ServiceInv' /\ [Next]_vars => DecidedInv'
  BY ThreadDecides, MainDecides, EnvironmentDecides DEF Next, Terminated
<1> QED
  BY <1>1, <1>2, Reports, PTL DEF Spec

\* A report of success turns the Model Connected only while the attempt it is
\* about is pending, with the profile that was asked for (on_connected).
THEOREM ConnectedFromPending == Spec => ConnectedOnlyFromPending
<1>1. DecidedInv /\ [Next]_vars =>
        [ /\ connection # "Connected" /\ connection' = "Connected"
          => /\ connection = "ConnectPending"
             /\ activeProfile' = connectingProfile ]_vars
  <2> SUFFICES ASSUME DecidedInv, [Next]_vars, connection # "Connected",
                      connection' = "Connected"
               PROVE  connection = "ConnectPending" /\ activeProfile' = connectingProfile
    OBVIOUS
  <2>1. /\ TypeOK /\ LockInv /\ OutcomeInv /\ channel \in Seq(Message)
    BY DEF DecidedInv, ServiceInv, IInv, TypeOK, LoopTypeOK
  <2>2. \A t \in Threads : ~Thread(t)
    BY <2>1, ThreadMoves
  <2>3. Update
    BY <2>2
    DEF Next, MainLoop, SyncAttempt, ExecuteConnect, ExecuteDisconnect, Disconnect,
        ClearConnection, ExecuteCommitEditedConfig, ConfigReloaded, ExecuteCommitEditedRouting,
        RoutingReloaded, QueueConnect, ExecuteQuit, ShutdownBump, ShutdownTake, ShutdownStop,
        ShutdownExit, Ticker, PollExit, SendExit, SendTick, SendInput, EditDisk, ProcessExits,
        Terminated, modelVars, vars
  <2>4. /\ channel # <<>> /\ channel' = Tail(channel) /\ phase = "recv"
        /\ Head(channel).type = "Connected" /\ Head(channel).attempt = attempt
        /\ activeProfile' = Head(channel).profile
    BY <2>1, <2>3, UpdateReports, UpdateFacts DEF UpdateStep
  <2>5. Head(channel) \in Queued
    BY <2>1, <2>4, QueuedFacts
  <2> QED
    BY <2>1, <2>4, <2>5 DEF OutcomeInv, IsOutcome, LoopRunning
<1> QED
  BY <1>1, Decisions, PTL DEF Spec, ConnectedOnlyFromPending

-----------------------------------------------------------------------------
(* A connection has its profile, an idle Model no tunnel, and a live       *)
(* tunnel the settings of the Model.                                       *)

\* A connect that is queued is for a profile of the configuration it is queued
\* under.
LEMMA QueuedHasProfile ==
    ASSUME NEW P, NEW Q, NEW blocked, NEW p, QueueConnect(P, blocked, p),
           p \in P => p \in Q, ~ConnectionMissing(Q), profiles' = Q
    PROVE  ~ConnectionMissing(profiles)'
<1>1. CASE p \in P /\ ~blocked
  <2>1. connection' = "Connecting" /\ connectingProfile' = p
    BY <1>1 DEF QueueConnect
  <2> QED
    BY <1>1, <2>1 DEF ConnectionMissing
<1>2. CASE ~(p \in P /\ ~blocked)
  <2>1. UNCHANGED <<connection, connectingProfile, activeProfile>>
    BY <1>2 DEF QueueConnect
  <2> QED
    BY <2>1 DEF ConnectionMissing
<1> QED
  BY <1>1, <1>2

\* A handler that does not return Disconnect leaves the connection its profile.
LEMMA UpdateKeepsProfile ==
    ASSUME TypeOK, EffectInv, OutcomeInv, HasProfileInv, SavesFindTheirFile, Update
    PROVE  HasProfileInv'
<1>t. /\ ModelTypeOK /\ channel \in Seq(Message) /\ None \notin Profiles
  BY ConstantsAssumption DEF TypeOK, LoopTypeOK
<1>1. /\ phase = "recv" /\ channel # <<>> /\ Head(channel) \in Queued /\ LoopRunning
      /\ effect.type # "Disconnect"
  BY <1>t, UpdateFacts, UpdateReports, QueuedFacts DEF UpdateStep, LoopRunning, EffectInv, NoEffect
<1>2. ~ConnectionMissing(profiles)
  BY <1>1 DEF HasProfileInv
<1>3. Saves(Head(channel)) => profiles = disk
  BY <1>1 DEF SavesFindTheirFile
<1>4. \A P, saved : profiles = disk /\ P \subseteq Profiles /\ Persist(P, saved)
        => profiles' = IF saved THEN P ELSE profiles
  BY <1>t DEF Persist, Merge, ModelTypeOK
<1>5. SUFFICES ASSUME effect'.type # "Disconnect" PROVE ~ConnectionMissing(profiles)'
  BY DEF HasProfileInv
<1>6. ReconnectTarget \in profiles \cup {None}
  BY <1>2, Zenon DEF ReconnectTarget, ConnectionMissing
<1>7. CASE OnTick \/ OnConnectRetrying \/ OnDisconnect \/ OnQuit \/ OnApplyEditedConfig
           \/ OnApplyEditedRouting \/ OnConnectFailed \/ OnSingBoxExited
  BY <1>2, <1>7 DEF OnTick, OnConnectRetrying, OnDisconnect, OnQuit, OnApplyEditedConfig,
      OnApplyEditedRouting, OnConnectFailed, OnSingBoxExited, ClearConnection, modelVars,
      configVars, ConnectionMissing
<1>8. CASE OnConnected
  <2> DEFINE m == Head(channel)
  <2>1. CASE IsStale(m)
    BY <1>2, <1>8, <2>1 DEF OnConnected, modelVars, ConnectionMissing
  <2>2. CASE ~IsStale(m)
    <3>1. m.type = "Connected" /\ m.attempt = attempt /\ profiles = disk
      BY <1>3, <1>8, <2>2 DEF OnConnected, Receive, IsStale, Saves
    <3>2. connection = "ConnectPending" /\ m.profile = connectingProfile
      BY <1>1, <3>1 DEF OutcomeInv, IsOutcome
    <3>3. m.profile \in profiles
      BY <1>2, <3>2 DEF ConnectionMissing
    <3>4. PICK saved \in BOOLEAN : Persist(profiles, saved)
      BY <1>8, <2>2 DEF OnConnected
    <3>5. profiles' = profiles
      BY <1>4, <1>t, <3>1, <3>4 DEF ModelTypeOK
    <3>6. /\ activeProfile' = m.profile
          /\ \/ connection' = "Connected"
             \/ connection' = "Connecting" /\ connectingProfile' = m.profile
      BY <1>8, <2>2 DEF OnConnected
    <3> QED
      BY <3>3, <3>5, <3>6 DEF ConnectionMissing
  <2> QED
    BY <2>1, <2>2
<1>9. CASE OnSystemResumed \/ OnConnectProfile \/ OnEnterOnProfile \/ OnReconnect
           \/ OnToggle \/ OnRuleSetsUpdated
  <2>1. profiles' = profiles
    BY <1>9 DEF OnSystemResumed, OnConnectProfile, OnEnterOnProfile, OnReconnect, OnToggle,
        OnRuleSetsUpdated, configVars
  <2>2. \E P \in SUBSET profiles : \E blocked, p : QueueConnect(P, blocked, p)
    <3>1. {} \in SUBSET profiles /\ profiles \in SUBSET profiles
          /\ profiles \ {activeProfile} \in SUBSET profiles
      OBVIOUS
    <3> QED
      BY <1>9, <3>1, Zenon DEF OnSystemResumed, OnConnectProfile, OnEnterOnProfile, OnReconnect,
          OnToggle, OnRuleSetsUpdated
  <2> QED
    BY <1>2, <2>1, <2>2, QueuedHasProfile
<1>10. CASE OnSettingsApplied \/ OnModeSelected
  <2>1. Saves(Head(channel))
    BY <1>10 DEF OnSettingsApplied, OnModeSelected, Receive, Saves
  <2>2. PICK saved \in BOOLEAN : Persist(profiles, saved)
    BY <1>10 DEF OnSettingsApplied, OnModeSelected
  <2>3. profiles' = profiles
    BY <1>3, <1>4, <1>t, <2>1, <2>2 DEF ModelTypeOK
  <2>4. \E P \in SUBSET profiles : \E blocked, p : QueueConnect(P, blocked, p)
    <3>1. {} \in SUBSET profiles /\ profiles \in SUBSET profiles
      OBVIOUS
    <3> QED
      BY <1>10, <3>1, Zenon DEF OnSettingsApplied, OnModeSelected
  <2> QED
    BY <1>2, <2>3, <2>4, QueuedHasProfile
<1>11. CASE OnDeleteProfile
  <2> DEFINE p == Head(channel).profile
  <2>1. UNCHANGED <<connection, connectingProfile, activeProfile>>
    BY <1>11 DEF OnDeleteProfile, modelVars
  <2>2. CASE p \in {activeProfile, connectingProfile} \/ p \notin profiles
    BY <1>2, <1>11, <2>1, <2>2 DEF OnDeleteProfile, ConnectionMissing
  <2>3. CASE ~(p \in {activeProfile, connectingProfile} \/ p \notin profiles)
    <3>1. PICK saved \in BOOLEAN : Persist(profiles \ {p}, saved)
      BY <1>11, <2>3 DEF OnDeleteProfile
    <3>2. profiles' = profiles \/ profiles' = profiles \ {p}
      <4>1. Saves(Head(channel))
        BY <1>11 DEF OnDeleteProfile, Receive, Saves
      <4>2. profiles \ {p} \subseteq Profiles
        BY <1>t DEF ModelTypeOK
      <4> QED
        BY <1>3, <1>4, <3>1, <4>1, <4>2
    <3> QED
      BY <1>2, <2>1, <2>3, <3>2 DEF ConnectionMissing
  <2> QED
    BY <2>2, <2>3
<1>12. CASE OnConfigReloaded
  <2> DEFINE m == Head(channel)
  <2>1. /\ profiles' = m.profiles /\ ~ConnectionMissing(m.profiles)
        /\ QueueConnect(IF m.changed /\ ~ConnectionMissing(m.profiles) THEN m.profiles ELSE {},
                        routingError, ReconnectTarget)
    BY <1>5, <1>12 DEF OnConfigReloaded, ConfigReloaded, Returns
  <2> QED
    BY <2>1, QueuedHasProfile
<1>13. CASE OnRoutingReloaded
  <2>1. profiles' = profiles
    BY <1>13 DEF OnRoutingReloaded
  <2>2. CASE UNCHANGED modelVars
    BY <1>2, <2>1, <2>2 DEF modelVars, ConnectionMissing
  <2>3. CASE ~UNCHANGED modelVars
    <3>1. QueueConnect(IF Head(channel).plan = "changed" THEN profiles ELSE {}, FALSE,
                       ReconnectTarget)
      BY <1>13, <2>3, Zenon DEF OnRoutingReloaded, RoutingReloaded
    <3> QED
      BY <1>2, <2>1, <3>1, QueuedHasProfile
  <2> QED
    BY <2>2, <2>3
<1>14. CASE OnSubscriptionFetched
  <2> DEFINE m == Head(channel)
             missing == \/ activeProfile \notin m.profiles \cup {None}
                        \/ ConnectionMissing(m.profiles) /\ connection # "Connected"
             P == IF m.changed /\ ~missing THEN m.profiles ELSE {}
  <2>1. PICK saved \in BOOLEAN :
          /\ Persist(m.profiles, saved)
          /\ Returns(IF missing /\ saved THEN [type |-> "Disconnect"] ELSE NoEffect)
    BY <1>14 DEF OnSubscriptionFetched
  <2>2. Saves(m) /\ m.type = "SubscriptionFetched" /\ m \in Message
    <3>1. Queued \subseteq Message
      BY <1>t DEF Queued
    <3> QED
      BY <1>1, <1>14, <3>1 DEF OnSubscriptionFetched, Receive, Saves
  <2>3. m.profiles \subseteq Profiles
    BY <2>2, MessageFields
  <2>4. profiles' = IF saved THEN m.profiles ELSE profiles
    BY <1>3, <1>4, <2>1, <2>2, <2>3
  <2>5. QueueConnect(P, routingError, ReconnectTarget)
    BY <1>14 DEF OnSubscriptionFetched
  <2>6. CASE saved
    <3>1. ~missing
      BY <1>5, <2>1, <2>6 DEF Returns
    <3>2. ~ConnectionMissing(m.profiles)
      <4>1. connection = "Connected" => activeProfile \in Profiles
        BY <1>2, <1>t DEF ConnectionMissing, ModelTypeOK
      <4> QED
        BY <1>t, <3>1, <4>1 DEF ConnectionMissing
    <3> QED
      BY <2>4, <2>5, <2>6, <3>2, QueuedHasProfile
  <2>7. CASE ~saved
    <3>1. ReconnectTarget \in P => ReconnectTarget \in profiles
      BY <1>6, <1>t, <2>3
    <3> QED
      BY <1>2, <2>4, <2>5, <2>7, <3>1, QueuedHasProfile
  <2> QED
    BY <2>1, <2>6, <2>7
<1> QED
  BY <1>7, <1>8, <1>9, <1>10, <1>11, <1>12, <1>13, <1>14 DEF Update

\* Outside update only an edit commits other profiles: it checks them itself.
LEMMA MainKeepsProfile ==
    ASSUME DecidedInv, HasProfileInv, SavesFindTheirFile, MainLoop
    PROVE  HasProfileInv'
<1>t. TypeOK /\ EffectInv /\ OutcomeInv /\ (effect.type = "Connect" => connection = "Connecting")
  BY DEF DecidedInv, ServiceInv, IInv, QueuedIsNewest
<1>1. CASE Update
  BY <1>1, <1>t, UpdateKeepsProfile
<1>2. CASE SyncAttempt
  BY <1>2 DEF SyncAttempt, modelVars, configVars, HasProfileInv, LoopRunning, ConnectionMissing
<1>3. CASE ExecuteConnect
  <2>1. /\ ~ConnectionMissing(profiles) /\ connection = "Connecting"
        /\ connection' = "ConnectPending"
        /\ UNCHANGED <<connectingProfile, activeProfile, profiles>>
    BY <1>3, <1>t DEF ExecuteConnect, Executes, configVars, HasProfileInv, LoopRunning
  <2> QED
    BY <2>1 DEF HasProfileInv, ConnectionMissing
<1>4. CASE ExecuteDisconnect \/ (ExecuteCommitEditedConfig /\ Disconnect)
  BY <1>4 DEF ExecuteDisconnect, Disconnect, ClearConnection, HasProfileInv, ConnectionMissing
<1>5. CASE ExecuteCommitEditedConfig /\ ~Disconnect
  <2>1. effect.type = "CommitEditedConfig" /\ LoopRunning
    BY <1>5 DEF ExecuteCommitEditedConfig, Executes, LoopRunning
  <2>2. ~ConnectionMissing(profiles)
    BY <2>1 DEF HasProfileInv
  <2>3. CASE UNCHANGED modelVars /\ UNCHANGED profiles
    BY <2>2, <2>3 DEF modelVars, HasProfileInv, ConnectionMissing
  <2>4. CASE ~(UNCHANGED modelVars /\ UNCHANGED profiles)
    <3>1. /\ ~ConnectionMissing(effect.profiles)
          /\ ConfigReloaded(effect.profiles, effect.changed)
      BY <1>5, <2>4, Zenon DEF ExecuteCommitEditedConfig
    <3>2. ~ConnectionMissing(profiles)'
      BY <3>1, QueuedHasProfile DEF ConfigReloaded
    <3> QED
      BY <3>2 DEF HasProfileInv
  <2> QED
    BY <2>3, <2>4
<1>6. CASE ExecuteCommitEditedRouting
  <2>1. profiles' = profiles /\ ~ConnectionMissing(profiles)
    BY <1>6 DEF ExecuteCommitEditedRouting, Executes, HasProfileInv, LoopRunning
  <2>2. CASE UNCHANGED modelVars
    BY <2>1, <2>2 DEF modelVars, HasProfileInv, ConnectionMissing
  <2>3. CASE ~UNCHANGED modelVars
    <3>1. QueueConnect(IF effect.plan = "changed" THEN profiles ELSE {}, FALSE,
                       ReconnectTarget)
      BY <1>6, <2>3, Zenon DEF ExecuteCommitEditedRouting, RoutingReloaded
    <3>2. ~ConnectionMissing(profiles)'
      BY <2>1, <3>1, QueuedHasProfile
    <3> QED
      BY <3>2 DEF HasProfileInv
  <2> QED
    BY <2>2, <2>3
<1>7. CASE ExecuteQuit \/ ShutdownBump \/ ShutdownTake \/ ShutdownStop \/ ShutdownExit
  BY <1>7 DEF ExecuteQuit, ShutdownBump, ShutdownTake, ShutdownStop, ShutdownExit,
      HasProfileInv, LoopRunning
<1> QED
  BY <1>1, <1>2, <1>3, <1>4, <1>5, <1>6, <1>7 DEF MainLoop

\* Workers and the environment change neither the connection nor the Model's
\* profiles.
LEMMA OthersKeepProfile ==
    ASSUME TypeOK, LockInv, HasProfileInv, Next \/ UNCHANGED vars, ~MainLoop
    PROVE  HasProfileInv'
<1>1. UNCHANGED <<connection, connectingProfile, activeProfile, profiles, effect, phase>>
  <2>1. ASSUME NEW t \in Threads, Thread(t)
        PROVE  UNCHANGED <<connection, connectingProfile, activeProfile, profiles, effect, phase>>
    BY <2>1, ThreadMoves
  <2>2. CASE Ticker \/ SendInput \/ EditDisk \/ ProcessExits \/ UNCHANGED vars
    BY <2>2 DEF Ticker, PollExit, SendExit, SendTick, SendInput, EditDisk, ProcessExits, vars,
        modelVars, configVars
  <2> QED
    BY <2>1, <2>2 DEF Next, Terminated
<1> QED
  BY <1>1 DEF HasProfileInv, LoopRunning, ConnectionMissing

\* For every value of the constants, a Model that is connected, is connecting or
\* waits to connect has the profile it is about in its configuration, whenever
\* the main loop is ready for its next message, as long as every save finds
\* profiles.json as the daemon last read or wrote it (handle_config_reloaded,
\* fetch_subscription, confirm_delete_profile).
THEOREM ConnectionKeepsItsProfile ==
    Spec /\ []SavesFindTheirFile => []HasProfileInv /\ []ConnectionHasProfile
<1>1. Init => HasProfileInv
  BY DEF Init, HasProfileInv, ConnectionMissing
<1>2. DecidedInv /\ HasProfileInv /\ SavesFindTheirFile /\ [Next]_vars => HasProfileInv'
  BY MainKeepsProfile, OthersKeepProfile DEF DecidedInv, ServiceInv, IInv
<1>3. DecidedInv /\ HasProfileInv => ConnectionHasProfile
  BY DEF DecidedInv, EffectInv, NoEffect, HasProfileInv, LoopRunning, ConnectionMissing,
      ConnectionHasProfile
<1> QED
  BY <1>1, <1>2, <1>3, Decisions, PTL DEF Spec

\* The Model is idle, and becomes idle, only with nothing in the slot.
LEMMA MainKeepsIdle ==
    ASSUME DecidedInv, ServiceInv', HasProfileInv, ExitInv, IdleInv, MainLoop
    PROVE  ExitInv' /\ IdleInv'
<1>t. /\ TypeOK /\ ThreadTypeOK /\ channel \in Seq(Message)
      /\ attempt \in Nat /\ slotAttempt \in Nat
      /\ \A t \in Threads : task[t].attempt \in Nat
  BY DEF DecidedInv, ServiceInv, IInv, TypeOK, LoopTypeOK, ModelTypeOK, SlotTypeOK, ThreadTypeOK,
      Task
<1>f. /\ AttemptInv /\ EffectInv /\ FailureInv
  BY DEF DecidedInv, ServiceInv, IInv
<1>1. ExitInv'
  <2>1. exitReport' = exitReport /\ Queued' \subseteq Queued
    <3>1. CASE Update
      BY <3>1, <1>t, UpdateFacts, UpdateReports, QueuedFacts DEF UpdateStep
    <3>2. CASE ~Update
      BY <3>2 DEF MainLoop, SyncAttempt, ExecuteConnect, ExecuteDisconnect,
          ExecuteCommitEditedConfig, ExecuteCommitEditedRouting, ExecuteQuit, ShutdownBump,
          ShutdownTake, ShutdownStop, ShutdownExit, Queued
    <3> QED
      BY <3>1, <3>2
  <2> QED
    BY <2>1, MainDecides DEF ExitInv
<1>2. SUFFICES ASSUME connection' = "Idle", LoopRunning' PROVE Settled'
  BY <1>1 DEF IdleInv
<1>3. CASE Update
  <2>1. UNCHANGED <<slotAttempt, slotHandle, pc, task>> /\ phase = "recv" /\ LoopRunning
    BY <1>3, <1>t, UpdateFacts DEF UpdateStep, slotVars, threadVars, LoopRunning
  <2>2. Settled
    <3>1. CASE connection = "Idle"
      BY <2>1, <3>1 DEF IdleInv
    <3>2. CASE connection # "Idle"
      <4>1. ~(connection = "Connecting" /\ connectingProfile \notin profiles)
        BY <2>1, <1>f DEF EffectInv, NoEffect, HasProfileInv, ConnectionMissing
      <4>2. /\ Head(channel).type \in {"ConnectFailed", "SingBoxExited"}
            /\ Head(channel).attempt = attempt
        BY <3>2, <4>1, <1>2, <1>3, <1>t, UpdateSteps
      <4>3. Head(channel) \in Queued
        BY <1>3, <1>t, UpdateReports, QueuedFacts
      <4> QED
        BY <2>1, <4>2, <4>3, <1>f DEF FailureInv, ExitInv, IsOver
    <3> QED
      BY <3>1, <3>2
  <2> QED
    BY <2>1, <2>2 DEF Settled, Cancelled
<1>4. CASE SyncAttempt
  <2>1. /\ UNCHANGED <<connection, slotHandle, pc, task>> /\ slotAttempt' = attempt /\ LoopRunning
    BY <1>4 DEF SyncAttempt, modelVars, threadVars, LoopRunning
  <2>2. Settled
    BY <2>1, <1>2 DEF IdleInv
  <2>3. \A t \in Threads : Cancelled(t) => Cancelled(t)'
    BY <2>1, <1>t, <1>f DEF AttemptInv, Cancelled
  <2> QED
    BY <2>1, <2>2, <2>3 DEF Settled
<1>5. CASE ExecuteConnect
  BY <1>2, <1>5 DEF ExecuteConnect
<1>6. CASE ExecuteDisconnect \/ (ExecuteCommitEditedConfig /\ Disconnect)
  <2>1. /\ slotHandle' = None /\ slotAttempt' = attempt + 1 /\ LoopRunning
        /\ \/ UNCHANGED <<pc, task>>
           \/ \E t \in Threads : Spawn(t, [kind |-> "stop", attempt |-> 0, profile |-> None,
                                           settings |-> 0])
    BY <1>6 DEF ExecuteDisconnect, ExecuteCommitEditedConfig, Executes, Disconnect, RetireHandle,
        LoopRunning
  <2>2. \A u \in Threads : task'[u] = task[u] \/ task'[u].kind = "stop"
    BY <2>1, <1>t DEF Spawn, ThreadTypeOK
  <2>3. \A u \in Threads : task[u].attempt # attempt + 1
    BY <2>1, <1>t, <1>f DEF AttemptInv
  <2> QED
    BY <2>1, <2>2, <2>3 DEF Settled, Cancelled
<1>7. CASE (ExecuteCommitEditedConfig /\ ~Disconnect) \/ ExecuteCommitEditedRouting
  <2>1. /\ LoopRunning /\ UNCHANGED <<slotAttempt, slotHandle, pc, task>>
        /\ UNCHANGED modelVars \/ (\E P, blocked, p : QueueConnect(P, blocked, p))
    <3>1. CASE ExecuteCommitEditedConfig /\ ~Disconnect
      BY <3>1, Zenon DEF ExecuteCommitEditedConfig, Executes, ConfigReloaded, LoopRunning, slotVars
    <3>2. CASE ExecuteCommitEditedRouting
      BY <3>2, Zenon DEF ExecuteCommitEditedRouting, Executes, RoutingReloaded, LoopRunning,
          slotVars, threadVars
    <3> QED
      BY <1>7, <3>1, <3>2
  <2>2. connection' = connection \/ connection' = "Connecting"
    BY <2>1, Zenon DEF QueueConnect, modelVars
  <2>3. Settled
    BY <2>1, <2>2, <1>2 DEF IdleInv
  <2> QED
    BY <2>1, <2>3 DEF Settled, Cancelled
<1>8. CASE ExecuteQuit \/ ShutdownBump \/ ShutdownTake \/ ShutdownStop \/ ShutdownExit
  BY <1>2, <1>8 DEF ExecuteQuit, ShutdownBump, ShutdownTake, ShutdownStop, ShutdownExit,
      LoopRunning
<1> QED
  BY <1>3, <1>4, <1>5, <1>6, <1>7, <1>8 DEF MainLoop

\* No worker brings a tunnel to an idle Model.
LEMMA ThreadKeepsIdle ==
    ASSUME DecidedInv, ExitInv, IdleInv, NEW t \in Threads, Thread(t)
    PROVE  ExitInv' /\ IdleInv'
<1>t. IInv /\ TypeOK /\ LockInv /\ channel \in Seq(Message)
  BY DEF DecidedInv, ServiceInv, IInv, TypeOK, LoopTypeOK
<1>m. UNCHANGED <<connection, attempt, phase, exitReport>>
  BY <1>t, ThreadMoves
<1>1. \A m \in Queued' : m.type = "SingBoxExited" => m \in Queued
  BY <1>t, ThreadOutcome, QueuedFacts
<1>2. ExitInv'
  BY <1>m, <1>1, <1>t, ThreadKeepsOver DEF ExitInv
<1>3. IdleInv'
  BY <1>m, <1>t, ThreadKeepsSettled DEF IdleInv, LoopRunning
<1> QED
  BY <1>2, <1>3

\* An exit that is stamped with the attempt of its process leaves nothing in
\* the slot, nor a worker that would put something there.
LEMMA EnvironmentKeepsIdle ==
    ASSUME DecidedInv, ServiceInv', ExitInv, IdleInv, ExitsAreStamped',
           Ticker \/ SendInput \/ EditDisk \/ ProcessExits \/ UNCHANGED vars
    PROVE  ExitInv' /\ IdleInv'
<1>t. TypeOK /\ ThreadTypeOK /\ exitReport \in ExitMessage \cup {NoMessage}
  BY DEF DecidedInv, ServiceInv, IInv, TypeOK, LoopTypeOK
<1>f. CurrentSlotInv /\ StartingInv /\ ProcsInv /\ SlotInv
  BY DEF DecidedInv, ServiceInv, IInv
<1>m. /\ UNCHANGED <<connection, attempt, phase, slotAttempt, pc, task>>
      /\ slotHandle' \in {slotHandle, None}
      /\ LoopRunning' <=> LoopRunning
  BY DEF Ticker, PollExit, SendExit, SendTick, SendInput, EditDisk, ProcessExits, vars,
      modelVars, slotVars, threadVars, LoopRunning
<1>1. IdleInv'
  BY <1>m DEF IdleInv, Settled, Cancelled
<1>2. \A m \in Queued' : m.type = "SingBoxExited" => m \in Queued \cup {exitReport}
  BY <1>t, EnvironmentSends, ConstantsAssumption DEF InputMessage
<1>3. \A m \in Queued' : m.type = "SingBoxExited" => IsOver(m)'
  BY <1>2, EnvironmentDecides DEF ExitInv
<1>4. CASE ~PollExit
  <2>1. exitReport'.type = "SingBoxExited" => exitReport' = exitReport
    BY <1>4, <1>t, EnvironmentSends DEF NoMessage
  <2> QED
    BY <1>1, <1>3, <2>1, EnvironmentDecides DEF ExitInv
<1>5. CASE PollExit
  <2>1. /\ slotHandle \in Pids /\ slotHandle' = None
        /\ exitReport' = [type |-> "SingBoxExited", attempt |-> slotAttempt,
                          started |-> procs[slotHandle].attempt]
    BY <1>5 DEF PollExit
  <2>2. exitReport'.attempt = slotAttempt /\ procs[slotHandle].attempt = slotAttempt
    BY <2>1 DEF ExitsAreStamped, NoMessage
  <2>3. connection = "Connecting" /\ LoopRunning => slotAttempt < attempt
    BY <2>1, <2>2, <1>f DEF ProcsInv, SlotInv
  <2>4. Settled'
    <3> SUFFICES ASSUME NEW t \in Threads, task[t].kind = "connect", ~Cancelled(t)
                 PROVE  pc[t] \in {"free", "report", "unlock"}
      BY <2>1, <1>m DEF Settled, Cancelled
    <3>1. slotHandle # None
      BY <2>1, ConstantsAssumption
    <3>2. pc[t] \in Steps
      BY <1>t DEF ThreadTypeOK
    <3> QED
      BY <3>1, <3>2, <1>f DEF CurrentSlotInv, StartingInv, Steps
  <2>5. slotAttempt <= slotAttempt
    BY DEF DecidedInv, ServiceInv, IInv, TypeOK, SlotTypeOK
  <2>6. IsOver(exitReport)'
    BY <2>2, <2>3, <2>4, <2>5, <1>m DEF IsOver
  <2> QED
    BY <1>1, <1>3, <2>6 DEF ExitInv
<1> QED
  BY <1>4, <1>5

\* For every value of the constants, an idle Model has no tunnel in the slot
\* and no worker that would put one there, so `kvn disconnect`, which does
\* nothing when the Model is idle, leaves none behind; as long as saves find
\* profiles.json as the daemon knows it and the ticker stamps an exit with the
\* attempt whose process exited.
THEOREM IdleHasNoTunnel ==
    Spec /\ []SavesFindTheirFile /\ []ExitsAreStamped
        => []IdleInv /\ []IdleRunsNoTunnel
<1>1. Init => ExitInv /\ IdleInv
  BY DEF Init, ExitInv, Queued, NoMessage, NoTask, IdleInv, Settled
<1>2. /\ DecidedInv /\ ServiceInv' /\ HasProfileInv /\ ExitInv /\ IdleInv
      /\ ExitsAreStamped' /\ [Next]_vars
      => ExitInv' /\ IdleInv'
  BY MainKeepsIdle, ThreadKeepsIdle, EnvironmentKeepsIdle DEF Next, Terminated
<1>3. IdleInv => IdleRunsNoTunnel
  BY DEF IdleInv, IdleRunsNoTunnel, LoopRunning, Settled
<1> QED
  BY <1>1, <1>2, <1>3, Decisions, Reports, ConnectionKeepsItsProfile, PTL DEF Spec

\* A restart is queued for every connection that is up or pending.
LEMMA QueuedRestart ==
    ASSUME NEW P, QueueConnect(P, FALSE, ReconnectTarget), ~ConnectionMissing(P)
    PROVE  connection' \notin {"ConnectPending", "Connected"}
<1>1. CASE connection = "Connected"
  <2>1. ReconnectTarget = activeProfile /\ activeProfile \in P
    BY <1>1 DEF ReconnectTarget, ConnectionMissing
  <2> QED
    BY <2>1 DEF QueueConnect
<1>2. CASE connection = "ConnectPending"
  <2>1. ReconnectTarget = connectingProfile /\ connectingProfile \in P
    BY <1>2 DEF ReconnectTarget, ConnectionMissing
  <2> QED
    BY <2>1 DEF QueueConnect
<1>3. CASE connection \notin {"ConnectPending", "Connected"}
  BY <1>3 DEF QueueConnect
<1> QED
  BY <1>1, <1>2, <1>3

\* A handler under which a connection stays as it is leaves the settings alone
\* or disconnects.
LEMMA UpdateRestarts ==
    ASSUME DecidedInv, HasProfileInv, ChangesRestart, RoutingErrorInv, Update
    PROVE  /\ RoutingErrorInv'
           /\ connection' \in {"ConnectPending", "Connected"} =>
                \/ effect'.type = "Disconnect"
                \/ /\ connection \in {"ConnectPending", "Connected"}
                   /\ settings' = settings /\ attempt' = attempt
<1>t. TypeOK /\ channel \in Seq(Message) /\ EffectInv /\ OutcomeInv
  BY DEF DecidedInv, ServiceInv, IInv, TypeOK, LoopTypeOK
<1>1. /\ phase = "recv" /\ channel # <<>> /\ Head(channel) \in Queued /\ LoopRunning
      /\ ~ConnectionMissing(profiles)
  BY <1>t, UpdateFacts, UpdateReports, QueuedFacts
  DEF UpdateStep, LoopRunning, EffectInv, NoEffect, HasProfileInv
<1>2. connection \in {"ConnectPending", "Connected"} => ~routingError
  BY DEF RoutingErrorInv
<1>3. /\ Head(channel).type = "ModeSelected" => connection # "ConnectPending"
      /\ Head(channel).type = "RoutingReloaded" =>
           IF Head(channel).ok
           THEN connection \in {"ConnectPending", "Connected"} =>
                  Head(channel).plan # "awaitsDownload"
           ELSE connection = "Idle"
  BY <1>1 DEF ChangesRestart
<1>5. ASSUME Head(channel).type = "Connected", Head(channel).attempt = attempt
      PROVE  connection = "ConnectPending"
  BY <1>t, <1>1, <1>5 DEF OutcomeInv, IsOutcome
<1>6. routingError' => connection' = "Idle"
  <2>1. CASE OnRoutingReloaded
    BY <2>1, <1>3 DEF OnRoutingReloaded, RoutingReloaded, Receive, modelVars
  <2>2. CASE ~OnRoutingReloaded
    <3>1. routingError' = routingError
      BY <2>2
      DEF Update, OnTick, OnConnected, OnConnectFailed, OnConnectRetrying,
          OnSingBoxExited, OnSystemResumed, OnConnectProfile, OnEnterOnProfile,
          OnDisconnect, OnReconnect, OnToggle, OnQuit, OnSettingsApplied,
          OnModeSelected, OnDeleteProfile, OnConfigReloaded, OnApplyEditedConfig,
          OnApplyEditedRouting, OnSubscriptionFetched, OnRuleSetsUpdated, configVars,
          ConfigReloaded
    <3>2. \A P, p : QueueConnect(P, TRUE, p) => connection' = connection
      BY DEF QueueConnect
    <3>3. SUFFICES ASSUME routingError = TRUE, connection = "Idle" PROVE connection' = "Idle"
      BY <3>1, <1>t DEF RoutingErrorInv, TypeOK, ModelTypeOK
    <3>4. CASE OnTick \/ OnConnectRetrying \/ OnDisconnect \/ OnQuit \/ OnDeleteProfile
               \/ OnApplyEditedConfig \/ OnApplyEditedRouting \/ OnConnectFailed
               \/ OnSingBoxExited
      BY <3>3, <3>4 DEF OnTick, OnConnectRetrying, OnDisconnect, OnQuit, OnDeleteProfile,
          OnApplyEditedConfig, OnApplyEditedRouting, OnConnectFailed, OnSingBoxExited,
          ClearConnection, modelVars
    <3>5. CASE OnConnected
      BY <3>3, <3>5, <1>5 DEF OnConnected, IsStale, Receive, modelVars
    <3>6. CASE OnSystemResumed \/ OnConnectProfile \/ OnEnterOnProfile \/ OnReconnect
               \/ OnToggle \/ OnSettingsApplied \/ OnModeSelected \/ OnConfigReloaded
               \/ OnSubscriptionFetched \/ OnRuleSetsUpdated
      <4>1. \E P, p : QueueConnect(P, TRUE, p)
        BY <3>3, <3>6, Zenon DEF OnSystemResumed, OnConnectProfile, OnEnterOnProfile, OnReconnect,
            OnToggle, OnSettingsApplied, OnModeSelected, OnConfigReloaded, ConfigReloaded,
            OnSubscriptionFetched, OnRuleSetsUpdated
      <4> QED
        BY <4>1, <3>2, <3>3
    <3> QED
      BY <2>2, <3>4, <3>5, <3>6 DEF Update
  <2> QED
    BY <2>1, <2>2
<1>7. RoutingErrorInv'
  BY <1>6 DEF RoutingErrorInv
<1>8. connection' \in {"ConnectPending", "Connected"} =>
        connection \in {"ConnectPending", "Connected"} /\ attempt' = attempt
  BY <1>5, <1>t, UpdateSteps, UpdateReports
<1>9. ASSUME connection' \in {"ConnectPending", "Connected"}, effect'.type # "Disconnect"
      PROVE  settings' = settings
  <2>0. ~routingError
    BY <1>2, <1>8, <1>9
  <2>1. CASE OnSettingsApplied
    <3>1. QueueConnect(profiles, routingError, ReconnectTarget)
      BY <2>1 DEF OnSettingsApplied
    <3>2. QueueConnect(profiles, FALSE, ReconnectTarget)
      BY <2>0, <3>1 DEF QueueConnect
    <3> QED
      BY <1>1, <1>9, <3>2, QueuedRestart
  <2>2. CASE OnConfigReloaded
    <3> DEFINE m == Head(channel)
    <3>1. /\ ~ConnectionMissing(m.profiles)
          /\ settings' = IF m.changed THEN settings + 1 ELSE settings
          /\ m.changed => QueueConnect(m.profiles, routingError, ReconnectTarget)
      BY <1>9, <2>2 DEF OnConfigReloaded, ConfigReloaded, Returns
    <3>2. m.changed => QueueConnect(m.profiles, FALSE, ReconnectTarget)
      BY <2>0, <3>1 DEF QueueConnect
    <3> QED
      BY <1>9, <3>1, <3>2, QueuedRestart
  <2>3. CASE OnRoutingReloaded
    <3> DEFINE m == Head(channel)
    <3>1. m.type = "RoutingReloaded" /\ m.plan \in Plan
      BY <2>3, <1>1, <1>t, MessageFields DEF OnRoutingReloaded, Receive, Queued
    <3>2. \/ settings' = settings
          \/ /\ m.plan # "same"
             /\ QueueConnect(IF m.plan = "changed" THEN profiles ELSE {}, FALSE, ReconnectTarget)
      BY <2>3 DEF OnRoutingReloaded, RoutingReloaded
    <3>3. m.plan \in {"same", "changed"}
      <4>1. CASE m.ok
        BY <1>3, <1>8, <1>9, <3>1, <4>1 DEF Plan
      <4>2. CASE ~m.ok
        BY <1>3, <1>8, <1>9, <3>1, <4>2
      <4> QED
        BY <4>1, <4>2
    <3> QED
      BY <1>1, <1>9, <3>2, <3>3, QueuedRestart
  <2>4. CASE OnSubscriptionFetched
    <3> DEFINE m == Head(channel)
               missing == \/ activeProfile \notin m.profiles \cup {None}
                          \/ ConnectionMissing(m.profiles) /\ connection # "Connected"
    <3>1. PICK saved \in BOOLEAN :
            /\ settings' = IF saved /\ m.changed THEN settings + 1 ELSE settings
            /\ Returns(IF missing /\ saved THEN [type |-> "Disconnect"] ELSE NoEffect)
      BY <2>4 DEF OnSubscriptionFetched
    <3>2. CASE saved /\ m.changed
      <4>1. ~missing
        BY <1>9, <3>1, <3>2 DEF Returns
      <4>2. ~ConnectionMissing(m.profiles)
        <5>1. connection = "Connected" => activeProfile \in Profiles
          BY <1>1, <1>t DEF ConnectionMissing, TypeOK, ModelTypeOK
        <5> QED
          BY <4>1, <5>1, ConstantsAssumption DEF ConnectionMissing
      <4>3. QueueConnect(m.profiles, routingError, ReconnectTarget)
        BY <2>4, <3>2, <4>1 DEF OnSubscriptionFetched
      <4>4. QueueConnect(m.profiles, FALSE, ReconnectTarget)
        BY <2>0, <4>3 DEF QueueConnect
      <4> QED
        BY <1>9, <4>2, <4>4, QueuedRestart
    <3> QED
      BY <3>1, <3>2
  <2>5. CASE OnModeSelected
    <3>1. Head(channel).type = "ModeSelected" /\ connection = "Connected"
      BY <1>3, <1>8, <1>9, <2>5 DEF OnModeSelected, Receive
    <3>2. QueueConnect(profiles, FALSE, ReconnectTarget)
      BY <2>0, <2>5, <3>1 DEF OnModeSelected, QueueConnect, ReconnectTarget
    <3> QED
      BY <1>1, <1>9, <3>2, QueuedRestart
  <2>6. CASE ~(OnSettingsApplied \/ OnConfigReloaded \/ OnRoutingReloaded
               \/ OnSubscriptionFetched \/ OnModeSelected)
    BY <2>6
    DEF Update, OnTick, OnConnected, OnConnectFailed, OnConnectRetrying,
        OnSingBoxExited, OnSystemResumed, OnConnectProfile, OnEnterOnProfile,
        OnDisconnect, OnReconnect, OnToggle, OnQuit, OnDeleteProfile, OnApplyEditedConfig,
        OnApplyEditedRouting, OnRuleSetsUpdated, configVars
  <2> QED
    BY <2>1, <2>2, <2>3, <2>4, <2>5, <2>6
<1> QED
  BY <1>7, <1>8, <1>9

\* The main loop changes the settings of a connection only by restarting it or
\* taking it down.
LEMMA MainKeepsSettings ==
    ASSUME DecidedInv, HasProfileInv, ChangesRestart, RoutingErrorInv, SettingsInv, MainLoop
    PROVE  RoutingErrorInv' /\ SettingsInv'
<1>t. TypeOK /\ ThreadTypeOK /\ channel \in Seq(Message) /\ attempt \in Nat
  BY DEF DecidedInv, ServiceInv, IInv, TypeOK, LoopTypeOK, ModelTypeOK
<1>f. EffectInv /\ QueuedIsNewest
  BY DEF DecidedInv, ServiceInv, IInv
<1>1. CASE Update
  <2>1. /\ UNCHANGED <<slotHandle, procs, pc, task>> /\ phase = "recv" /\ LoopRunning
        /\ effect.type # "Disconnect"
    BY <1>1, <1>t, <1>f, UpdateFacts
    DEF UpdateStep, slotVars, threadVars, LoopRunning, EffectInv, NoEffect
  <2>2. RoutingErrorInv'
    BY <1>1, UpdateRestarts
  <2>3. SettingsInv'
    BY <1>1, <2>1, UpdateRestarts DEF SettingsInv, AtWork
  <2> QED
    BY <2>2, <2>3
<1>2. CASE SyncAttempt
  BY <1>2 DEF SyncAttempt, modelVars, configVars, threadVars, RoutingErrorInv, SettingsInv,
      LoopRunning, AtWork
<1>3. CASE ExecuteConnect
  <2>1. /\ effect.type = "Connect" /\ LoopRunning /\ connection' = "ConnectPending"
        /\ effect' = NoEffect /\ slotHandle' = None /\ connection = "Connecting"
        /\ UNCHANGED <<attempt, channel, procs, settings, routingError>>
    BY <1>3, <1>f DEF ExecuteConnect, Executes, RetireHandle, configVars, LoopRunning,
        QueuedIsNewest
  <2>2. PICK t \in Threads : /\ pc' = [pc EXCEPT ![t] = "lock"]
                             /\ task' = [task EXCEPT ![t] =
                                  [kind |-> "connect", attempt |-> attempt,
                                   profile |-> connectingProfile, settings |-> settings]]
    BY <1>3 DEF ExecuteConnect, Spawn
  <2>3. /\ task'[t].settings = settings
        /\ \A u \in Threads : u # t => task'[u] = task[u]
    BY <2>2, <1>t DEF ThreadTypeOK
  <2>4. \A u \in Threads : u # t /\ task'[u].kind = "connect" => task'[u].attempt # attempt
    <3>1. \A u \in Threads : task[u].attempt \in Nat
      BY <1>t DEF ThreadTypeOK, Task
    <3> QED
      BY <2>1, <2>3, <3>1, <1>t, <1>f DEF QueuedIsNewest
  <2>5. SettingsInv'
    BY <2>1, <2>3, <2>4, ConstantsAssumption DEF SettingsInv, AtWork
  <2>6. RoutingErrorInv'
    BY <2>1 DEF RoutingErrorInv
  <2> QED
    BY <2>5, <2>6
<1>4. CASE ExecuteDisconnect \/ (ExecuteCommitEditedConfig /\ Disconnect)
  <2>1. connection' = "Idle" /\ UNCHANGED channel /\ effect' = NoEffect
    BY <1>4 DEF ExecuteDisconnect, ExecuteCommitEditedConfig, Executes, Disconnect,
        ClearConnection
  <2> QED
    BY <2>1 DEF RoutingErrorInv, SettingsInv
<1>5. CASE (ExecuteCommitEditedConfig /\ ~Disconnect) \/ ExecuteCommitEditedRouting
  <2>1. /\ LoopRunning /\ effect' = NoEffect /\ effect.type # "Disconnect"
        /\ UNCHANGED <<channel, slotHandle, procs, pc, task>>
        /\ ~ConnectionMissing(profiles)
    BY <1>5 DEF ExecuteCommitEditedConfig, ExecuteCommitEditedRouting, Executes, LoopRunning,
        slotVars, threadVars, HasProfileInv
  <2>2. routingError => connection = "Idle"
    BY DEF RoutingErrorInv
  <2>3. /\ routingError' => connection' = "Idle"
        /\ connection' \in {"ConnectPending", "Connected"} =>
             UNCHANGED <<connection, attempt, settings>>
    <3>1. CASE UNCHANGED <<modelVars, settings>> /\ routingError' = routingError
      BY <2>2, <3>1 DEF modelVars
    <3>2. CASE ExecuteCommitEditedConfig /\ ~(UNCHANGED <<modelVars, settings>>) /\ ~Disconnect
      <4>1. /\ ~ConnectionMissing(effect.profiles)
            /\ ConfigReloaded(effect.profiles, effect.changed)
            /\ routingError' = routingError
        BY <3>2, Zenon DEF ExecuteCommitEditedConfig
      <4>2. /\ settings' = IF effect.changed THEN settings + 1 ELSE settings
            /\ QueueConnect(IF effect.changed THEN effect.profiles ELSE {}, routingError,
                            ReconnectTarget)
        BY <4>1 DEF ConfigReloaded
      <4>3. CASE routingError
        BY <2>2, <4>1, <4>2, <4>3 DEF QueueConnect
      <4>4. CASE ~routingError /\ effect.changed
        <5>1. QueueConnect(effect.profiles, FALSE, ReconnectTarget)
          BY <4>2, <4>4 DEF QueueConnect
        <5> QED
          BY <4>1, <4>4, <5>1, QueuedRestart
      <4>5. CASE ~routingError /\ ~effect.changed
        BY <4>1, <4>2, <4>5 DEF QueueConnect
      <4> QED
        BY <4>3, <4>4, <4>5
    <3>3. CASE ExecuteCommitEditedRouting /\ RoutingReloaded(effect.plan)
      <4>1. /\ routingError' = FALSE
            /\ settings' = IF effect.plan = "same" THEN settings ELSE settings + 1
            /\ QueueConnect(IF effect.plan = "changed" THEN profiles ELSE {}, FALSE,
                            ReconnectTarget)
        BY <3>3 DEF RoutingReloaded
      <4>0. SUFFICES ASSUME connection' \in {"ConnectPending", "Connected"}
                     PROVE  UNCHANGED <<connection, attempt, settings>>
        BY <4>1
      <4>a. connection \in {"ConnectPending", "Connected"}
        BY <4>0, <4>1 DEF QueueConnect
      <4>2. effect.plan \in {"same", "changed"}
        <5>1. effect \in Effect /\ effect.type = "CommitEditedRouting"
          BY <1>t, <3>3 DEF TypeOK, LoopTypeOK, ExecuteCommitEditedRouting, Executes
        <5>2. effect.plan \in Plan
          BY <5>1 DEF Effect
        <5> QED
          BY <4>a, <5>1, <5>2 DEF ChangesRestart, Plan
      <4>3. CASE effect.plan = "changed"
        BY <2>1, <4>0, <4>1, <4>3, QueuedRestart
      <4>4. CASE effect.plan = "same"
        BY <4>1, <4>4 DEF QueueConnect
      <4> QED
        BY <4>2, <4>3, <4>4
    <3>4. ExecuteCommitEditedConfig => routingError' = routingError
      BY DEF ExecuteCommitEditedConfig
    <3>5. ExecuteCommitEditedRouting =>
            \/ RoutingReloaded(effect.plan)
            \/ UNCHANGED <<modelVars, settings>> /\ routingError' = routingError
      BY DEF ExecuteCommitEditedRouting
    <3> QED
      BY <1>5, <3>1, <3>2, <3>3, <3>4, <3>5
  <2>4. RoutingErrorInv'
    BY <2>1, <2>3 DEF RoutingErrorInv
  <2>5. SettingsInv'
    BY <2>1, <2>3 DEF SettingsInv, AtWork
  <2> QED
    BY <2>4, <2>5
<1>6. CASE ExecuteQuit
  <2>1. /\ channel' = <<>> /\ effect' = NoEffect /\ ~LoopRunning'
        /\ UNCHANGED <<routingError, connection>>
    BY <1>6 DEF ExecuteQuit, Executes, configVars, LoopRunning
  <2> QED
    BY <2>1 DEF RoutingErrorInv, SettingsInv
<1>7. CASE ShutdownBump \/ ShutdownTake \/ ShutdownStop \/ ShutdownExit
  <2>1. ~LoopRunning' /\ UNCHANGED <<channel, effect, routingError, connection>>
    BY <1>7 DEF ShutdownBump, ShutdownTake, ShutdownStop, ShutdownExit, modelVars, configVars,
        LoopRunning
  <2> QED
    BY <2>1 DEF RoutingErrorInv, SettingsInv
<1> QED
  BY <1>1, <1>2, <1>3, <1>4, <1>5, <1>6, <1>7 DEF MainLoop

\* A worker that is not cancelled installs the process it started, with the
\* settings it was given.
LEMMA ThreadKeepsSettings ==
    ASSUME DecidedInv, ServiceInv', RoutingErrorInv, SettingsInv, NEW t \in Threads, Thread(t)
    PROVE  RoutingErrorInv' /\ SettingsInv'
<1>t. IInv /\ TypeOK /\ LockInv /\ channel \in Seq(Message)
  BY DEF DecidedInv, ServiceInv, IInv, TypeOK, LoopTypeOK
<1>f. AttemptInv /\ StartingInv /\ PendingInv /\ ReportInv /\ ChildSettingsInv /\ ChildInv
  BY DEF DecidedInv, ServiceInv, IInv
<1>m. /\ UNCHANGED <<connection, attempt, phase, effect, settings, routingError, slotAttempt>>
      /\ LoopRunning' <=> LoopRunning
  BY <1>t, ThreadMoves DEF LoopRunning
<1>2. RoutingErrorInv'
  BY <1>m DEF RoutingErrorInv
<1>3. \A u \in Threads : AtWork(u)' => AtWork(u) /\ task'[u] = task[u]
  BY <1>t, ThreadMoves DEF AtWork, NoTask
<1>4. SUFFICES ASSUME LoopRunning, effect.type # "Disconnect",
                      connection \in {"ConnectPending", "Connected"}, slotHandle' \in Pids
               PROVE  procs'[slotHandle'].settings = settings
  BY <1>2, <1>3, <1>m DEF SettingsInv
<1>5. procs'[slotHandle'].state # "free"
  BY <1>4 DEF ServiceInv, SlotInv
<1>6. CASE slotHandle' = slotHandle
  <2>1. procs'[slotHandle] = procs[slotHandle]
    <3>1. pc[t] # "spawn"
      BY <1>4, <1>6, <1>f, ConstantsAssumption DEF StartingInv
    <3> QED
      BY <3>1, <1>4, <1>5, <1>6, <1>t, ThreadProcs
  <2> QED
    BY <2>1, <1>4, <1>6 DEF SettingsInv
<1>7. CASE pc[t] = "install" /\ pc'[t] = "report" /\ ~Cancelled(t) /\ slotHandle' = child[t]
  <2>1. procs'[child[t]] = procs[child[t]]
    BY <1>4, <1>5, <1>7, <1>t, ThreadProcs
  <2>2. task[t].attempt = attempt
    BY <1>4, <1>7, <1>f DEF PendingInv, ReportInv, Cancelled
  <2>3. AtWork(t)
    BY <1>7, <1>f DEF AtWork, AttemptInv
  <2>4. task[t].settings = settings
    BY <1>4, <2>2, <2>3 DEF SettingsInv
  <2> QED
    BY <1>7, <2>1, <2>4, <1>f DEF ChildSettingsInv
<1> QED
  BY <1>6, <1>7, <1>t, ThreadMoves

\* Nothing else touches the settings.
LEMMA EnvironmentKeepsSettings ==
    ASSUME DecidedInv, RoutingErrorInv, SettingsInv,
           Ticker \/ SendInput \/ EditDisk \/ ProcessExits \/ UNCHANGED vars
    PROVE  RoutingErrorInv' /\ SettingsInv'
<1>t. TypeOK /\ SlotTypeOK /\ exitReport \in ExitMessage \cup {NoMessage}
  BY DEF DecidedInv, ServiceInv, IInv, TypeOK, LoopTypeOK
<1>m. /\ UNCHANGED <<connection, attempt, phase, effect, settings, routingError, pc, task>>
      /\ slotHandle' \in {slotHandle, None}
      /\ LoopRunning' <=> LoopRunning
  BY DEF Ticker, PollExit, SendExit, SendTick, SendInput, EditDisk, ProcessExits, vars,
      modelVars, configVars, slotVars, threadVars, LoopRunning
<1>2. RoutingErrorInv'
  BY <1>m DEF RoutingErrorInv
<1>3. slotHandle' \in Pids => /\ slotHandle' = slotHandle
                              /\ procs'[slotHandle].settings = procs[slotHandle].settings
  <2>1. CASE PollExit
    BY <2>1, ConstantsAssumption DEF PollExit
  <2>2. CASE ProcessExits
    <3>1. PICK p \in Pids : procs' = [procs EXCEPT ![p].state = "exited"]
      BY <2>2 DEF ProcessExits
    <3>2. \A q \in Pids : procs'[q].settings = procs[q].settings
      BY <3>1, <1>t DEF SlotTypeOK, Proc
    <3> QED
      BY <3>2, <1>m, ConstantsAssumption
  <2>3. CASE ~PollExit /\ ~ProcessExits
    BY <2>3 DEF Ticker, SendExit, SendTick, SendInput, EditDisk, vars, slotVars
  <2> QED
    BY <2>1, <2>2, <2>3
<1>4. SettingsInv'
  BY <1>3, <1>m DEF SettingsInv, AtWork
<1> QED
  BY <1>2, <1>4

\* For every value of the constants, a live tunnel was started with the settings
\* of the Model whenever the main loop is ready for its next message: a change
\* of them restarts it, or the worker that is about to bring it up
\* (reconnect_with_new_settings).  The exceptions are the hypotheses: a save
\* that finds profiles.json changed by others, and the changes the code does not
\* restart for (a mode selected while a connect is pending, an invalid
\* routing.json, a route plan that awaits a download).
THEOREM TunnelHasCurrentSettings ==
    Spec /\ []SavesFindTheirFile /\ []ChangesRestart
        => []SettingsInv /\ []TunnelRunsCurrentSettings
<1>1. Init => RoutingErrorInv /\ SettingsInv
  BY DEF Init, RoutingErrorInv, SettingsInv
<1>2. /\ DecidedInv /\ ServiceInv' /\ HasProfileInv /\ RoutingErrorInv /\ SettingsInv
      /\ ChangesRestart /\ [Next]_vars
      => RoutingErrorInv' /\ SettingsInv'
  BY MainKeepsSettings, ThreadKeepsSettings, EnvironmentKeepsSettings DEF Next, Terminated
<1>3. DecidedInv /\ SettingsInv => TunnelRunsCurrentSettings
  BY DEF DecidedInv, ServiceInv, IInv, TypeOK, SlotTypeOK, EffectInv, NoEffect, SettingsInv,
      LoopRunning, TunnelRunsCurrentSettings
<1> QED
  BY <1>1, <1>2, <1>3, Decisions, Reports, ConnectionKeepsItsProfile, PTL DEF Spec

\* What a worker, the ticker or the kernel puts into the channel is no change
\* of the configuration.
LEMMA OthersQueue ==
    ASSUME TypeOK, Next \/ UNCHANGED vars, ~MainLoop
    PROVE  /\ \A m \in Queued' \ Queued :
                \/ m \in Inputs
                \/ m.type \in {"Connected", "ConnectFailed", "ConnectRetrying",
                               "SingBoxExited", "Tick"}
           /\ UNCHANGED <<profiles, effect>>
           /\ disk' = disk \/ disk' \in DiskEdits
<1>t. channel \in Seq(Message)
  BY DEF TypeOK, LoopTypeOK
<1>1. ASSUME NEW t \in Threads, Thread(t)
      PROVE  /\ \A m \in Queued' \ Queued :
                  m.type \in {"Connected", "ConnectFailed", "ConnectRetrying"}
             /\ UNCHANGED <<profiles, effect, disk>>
  <2>1. \A m \in Queued' \ Queued :
          m.type \in {"Connected", "ConnectFailed", "ConnectRetrying"}
    BY <1>1, <1>t, ThreadOutcome, QueuedFacts
  <2>2. UNCHANGED <<profiles, effect, disk>>
    BY <1>1, RetryFacts
    DEF Thread, Lock, TakeRetired, StopRetired, StoppedRetired, CheckCurrent,
        StartFails, CheckedConfig, SpawnSingBox, WatchExited, WatchCancelled, WatchReady,
        WaitCancelled, WaitElapsed, ReportFailed, Install, Discard, ReportConnected,
        Unlock, Step, configVars
  <2> QED
    BY <2>1, <2>2
<1>2. CASE Ticker \/ SendInput \/ EditDisk \/ ProcessExits \/ UNCHANGED vars
  <2>1. /\ UNCHANGED <<profiles, effect>>
        /\ disk' = disk \/ disk' \in DiskEdits
    BY <1>2 DEF Ticker, PollExit, SendExit, SendTick, SendInput, EditDisk, ProcessExits, vars,
        configVars
  <2> QED
    BY <2>1, <1>2, EnvironmentSends
<1> QED
  BY <1>1, <1>2 DEF Next, Terminated

\* The main loop only takes messages out of the channel.
LEMMA MainQueue ==
    ASSUME TypeOK, MainLoop
    PROVE  Queued' \subseteq Queued
<1>t. channel \in Seq(Message)
  BY DEF TypeOK, LoopTypeOK
<1>1. CASE Update
  BY <1>1, <1>t, UpdateReports, QueuedFacts
<1>2. CASE ~Update
  BY <1>2 DEF MainLoop, SyncAttempt, ExecuteConnect, ExecuteDisconnect,
      ExecuteCommitEditedConfig, ExecuteCommitEditedRouting, ExecuteQuit, ShutdownBump,
      ShutdownTake, ShutdownStop, ShutdownExit, Queued
<1> QED
  BY <1>1, <1>2

\* A daemon that is alone with profiles.json always knows the file: a commit
\* writes what the Model gets, and a failed one changes neither.
LEMMA FileIsKnown ==
    ASSUME OnlyDaemonWrites
    PROVE  Spec => []SavesFindTheirFile
<1>1. Init => FileInv
  BY DEF Init, FileInv, Queued
<1>2. TypeOK /\ FileInv /\ [Next]_vars => FileInv'
  <2> SUFFICES ASSUME TypeOK, FileInv, [Next]_vars PROVE FileInv'
    OBVIOUS
  <2>t. channel \in Seq(Message)
    BY DEF TypeOK, LoopTypeOK
  <2>1. CASE MainLoop
    <3>1. Queued' \subseteq Queued
      BY <2>1, MainQueue
    <3>2. \A P, saved : Persist(P, saved) => profiles' = disk'
      BY DEF Persist, FileInv
    <3>3. ~OnConfigReloaded
      BY <2>t, UpdateReports, QueuedFacts DEF OnConfigReloaded, Receive, FileInv
    <3>4. profiles' = disk'
      <4>1. CASE OnConnected
        BY <4>1, <3>2 DEF OnConnected, FileInv
      <4>2. CASE OnSettingsApplied \/ OnModeSelected \/ OnDeleteProfile \/ OnSubscriptionFetched
        BY <4>2, <3>2 DEF OnSettingsApplied, OnModeSelected, OnDeleteProfile,
            OnSubscriptionFetched, FileInv
      <4>3. CASE ExecuteCommitEditedConfig
        BY <4>3 DEF ExecuteCommitEditedConfig, ConfigReloaded, FileInv
      <4>4. CASE ~(OnConnected \/ OnSettingsApplied \/ OnModeSelected \/ OnDeleteProfile
                   \/ OnSubscriptionFetched \/ ExecuteCommitEditedConfig)
        BY <2>1, <3>3, <4>4
        DEF MainLoop, SyncAttempt, ExecuteConnect, ExecuteDisconnect,
            ExecuteCommitEditedRouting, ExecuteQuit, ShutdownBump,
            ShutdownTake, ShutdownStop, ShutdownExit, FileInv, configVars,
            Update, OnTick, OnConnectFailed, OnConnectRetrying, OnSingBoxExited,
            OnSystemResumed, OnConnectProfile, OnEnterOnProfile, OnDisconnect, OnReconnect,
            OnToggle, OnQuit, OnApplyEditedConfig, OnRoutingReloaded, OnApplyEditedRouting,
            OnRuleSetsUpdated
      <4> QED
        BY <4>1, <4>2, <4>3, <4>4
    <3> QED
      BY <3>1, <3>4 DEF FileInv
  <2>2. CASE ~MainLoop
    BY <2>2, OthersQueue DEF FileInv, OnlyDaemonWrites
  <2> QED
    BY <2>1, <2>2
<1>3. FileInv => SavesFindTheirFile
  BY DEF FileInv, SavesFindTheirFile
<1> QED
  BY <1>1, <1>2, <1>3, TypeCorrect, PTL DEF Spec

\* Without a change of mode or of routing.json every change restarts.
LEMMA AllChangesRestart ==
    ASSUME NoModeOrRouting
    PROVE  Spec => []ChangesRestart
<1>1. Init => RoutingInv
  BY DEF Init, RoutingInv, Queued, NoEffect
<1>2. TypeOK /\ RoutingInv /\ [Next]_vars => RoutingInv'
  <2> SUFFICES ASSUME TypeOK, RoutingInv, [Next]_vars PROVE RoutingInv'
    OBVIOUS
  <2>t. channel \in Seq(Message)
    BY DEF TypeOK, LoopTypeOK
  <2>1. CASE MainLoop
    <3>1. Queued' \subseteq Queued
      BY <2>1, MainQueue
    <3>2. ~OnApplyEditedRouting
      BY <2>t, QueuedFacts DEF OnApplyEditedRouting, Receive, RoutingInv
    <3>3. effect'.type # "CommitEditedRouting"
      BY <2>1, <3>2
      DEF MainLoop, SyncAttempt, ExecuteConnect, ExecuteDisconnect, ExecuteCommitEditedConfig,
          ExecuteCommitEditedRouting, ExecuteQuit, Executes, ShutdownBump,
          ShutdownTake, ShutdownStop, ShutdownExit, RoutingInv, NoEffect,
          Update, OnTick, OnConnected, OnConnectFailed, OnConnectRetrying,
          OnSingBoxExited, OnSystemResumed, OnConnectProfile, OnEnterOnProfile,
          OnDisconnect, OnReconnect, OnToggle, OnQuit, OnSettingsApplied,
          OnModeSelected, OnDeleteProfile, OnConfigReloaded, OnApplyEditedConfig,
          OnRoutingReloaded, OnSubscriptionFetched, OnRuleSetsUpdated, Returns
    <3> QED
      BY <3>1, <3>3 DEF RoutingInv
  <2>2. CASE ~MainLoop
    BY <2>2, OthersQueue DEF RoutingInv, NoModeOrRouting
  <2> QED
    BY <2>1, <2>2
<1>3. TypeOK /\ RoutingInv => ChangesRestart
  BY QueuedFacts DEF TypeOK, LoopTypeOK, RoutingInv, ChangesRestart, Queued
<1> QED
  BY <1>1, <1>2, <1>3, TypeCorrect, PTL DEF Spec

\* As long as sing-box does not die by itself, the ticker reports no exit.
LEMMA NoExits ==
    ASSUME MaxExits = 0
    PROVE  Spec => []ExitsAreStamped
<1>1. Init => NoExitInv
  BY DEF Init, NoExitInv, NoProc
<1>2. IInv /\ NoExitInv /\ [Next]_vars => NoExitInv'
  <2> SUFFICES ASSUME IInv, NoExitInv, [Next]_vars PROVE NoExitInv'
    OBVIOUS
  <2>t. TypeOK /\ LockInv /\ SlotTypeOK /\ exits = 0
    BY DEF IInv, TypeOK, LoopTypeOK
  <2>r. \A p : Reap(p) => \A q \in Pids : procs'[q].state # "exited"
    BY <2>t DEF Reap, NoProc, SlotTypeOK, NoExitInv
  <2>1. CASE Update
    BY <2>1, <2>t, UpdateFacts DEF UpdateStep, NoExitInv
  <2>2. CASE MainLoop /\ ~Update
    BY <2>2, <2>r DEF MainLoop, SyncAttempt, ExecuteConnect, ExecuteDisconnect,
        ExecuteCommitEditedConfig, ExecuteCommitEditedRouting, ExecuteQuit, ShutdownBump,
        ShutdownTake, ShutdownStop, ShutdownExit, NoExitInv, threadVars
  <2>3. ASSUME NEW t \in Threads, Thread(t)
        PROVE  NoExitInv'
    <3>1. exitReport' = exitReport
      BY <2>3, <2>t, ThreadMoves
    <3>2. CASE SpawnSingBox(t)
      BY <3>1, <3>2, <2>t DEF SpawnSingBox, NoExitInv, SlotTypeOK
    <3>3. CASE StopRetired(t) \/ WatchExited(t) \/ WatchCancelled(t) \/ Discard(t)
      BY <3>1, <3>3, <2>r DEF StopRetired, WatchExited, WatchCancelled, Discard, NoExitInv
    <3>4. CASE ~(SpawnSingBox(t) \/ StopRetired(t) \/ WatchExited(t) \/ WatchCancelled(t)
                 \/ Discard(t))
      BY <2>3, <3>1, <3>4 DEF Thread, Lock, TakeRetired, StoppedRetired, CheckCurrent, StartFails,
          CheckedConfig, WatchReady, WaitCancelled, WaitElapsed, ReportFailed, Install,
          ReportConnected, Unlock, NoExitInv
    <3> QED
      BY <3>2, <3>3, <3>4
  <2>4. CASE Ticker \/ SendInput \/ EditDisk \/ ProcessExits \/ UNCHANGED vars
    BY <2>4, <2>t DEF Ticker, PollExit, SendExit, SendTick, SendInput, EditDisk, ProcessExits,
        vars, NoExitInv
  <2> QED
    BY <2>1, <2>2, <2>3, <2>4 DEF Next, Terminated
<1>3. NoExitInv => ExitsAreStamped
  BY DEF NoExitInv, ExitsAreStamped
<1> QED
  BY <1>1, <1>2, <1>3, Invariant, PTL DEF Spec

\* The three together without any hypothesis on the behaviour: whatever clients
\* ask for and however workers interleave, a daemon whose files nobody else
\* writes, whose sing-box does not die by itself and whose mode and routing.json
\* stay as they are has a profile for each connection, no tunnel when it is idle
\* and none with old settings.
THEOREM UndisturbedDaemon ==
    ASSUME OnlyDaemonWrites, NoModeOrRouting, MaxExits = 0
    PROVE  Spec => /\ []ConnectionHasProfile
                   /\ []IdleRunsNoTunnel
                   /\ []TunnelRunsCurrentSettings
BY FileIsKnown, AllChangesRestart, NoExits, ConnectionKeepsItsProfile, IdleHasNoTunnel,
   TunnelHasCurrentSettings, PTL
=============================================================================
