----------------------- MODULE MCConnectionLifecycle -----------------------
(***************************************************************************)
(* Instances of ConnectionLifecycle for TLC: sets of input messages and    *)
(* the symmetry of profiles, process ids and threads.                      *)
(***************************************************************************)
EXTENDS ConnectionInvariant, TLC

Symmetry ==
    Permutations(Profiles) \cup Permutations(Pids) \cup Permutations(Threads)

\* Commands of clients, and the resume signal.
Commands ==
    [type : {"SystemResumed", "Disconnect", "Reconnect", "Toggle", "Quit"}]
    \cup [type : {"ConnectProfile", "EnterOnProfile"}, profile : Profiles]

\* A reload that finds routing.json invalid; it has no plan.
BrokenRouting == [type : {"RoutingReloaded"}, ok : {FALSE}, plan : {"same"}]

\* Changes of the configuration and of routing.json.
ConfigChanges ==
    [type : {"SettingsApplied", "ModeSelected", "RuleSetsUpdated"}]
    \cup [type : {"DeleteProfile"}, profile : Profiles]
    \cup [type : {"ConfigReloaded", "ApplyEditedConfig", "SubscriptionFetched"},
          profiles : SUBSET Profiles, changed : BOOLEAN]
    \cup [type : {"RoutingReloaded"}, ok : {TRUE}, plan : Plan]
    \cup BrokenRouting
    \cup [type : {"ApplyEditedRouting"}, plan : Plan]

\* Every message of the main loop.
AllInputs == Commands \cup ConfigChanges

\* Commands that race with a worker's retries.
Races == [type : {"Reconnect", "Disconnect", "Quit"}]

\* Changes of the settings and profiles a live or pending tunnel runs with.
SettingsChanges ==
    [type : {"SettingsApplied", "Reconnect", "Disconnect"}]
    \cup [type : {"DeleteProfile"}, profile : Profiles]
    \cup [type : {"ConfigReloaded", "ApplyEditedConfig", "SubscriptionFetched"},
          profiles : SUBSET Profiles, changed : BOOLEAN]

\* A rewrite of profiles.json, and messages whose save adopts it.
Adoptions ==
    [type : {"Reconnect", "SettingsApplied"}]
    \cup [type : {"ConfigReloaded"}, profiles : SUBSET Profiles, changed : {FALSE}]

ResumeOnly == [type : {"SystemResumed"}]
ModeOnly == [type : {"ModeSelected"}]

AllDiskEdits == SUBSET Profiles
=============================================================================
