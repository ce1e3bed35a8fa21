---------------------------- MODULE Integrations ----------------------------
(***************************************************************************)
(* The system integrations of kvn: the kill switch (a helper, a ruleset, a *)
(* unit, a sudoers rule) and the polkit rule, both granted to the members  *)
(* of the group kvn-tui.  `kvn setup`, `kvn refresh` and `kvn clean` run   *)
(* shell scripts as root (cli.rs, contrib/); a script stops at its first   *)
(* failing command, and a reboot may cut it anywhere.  kvn itself runs as  *)
(* the user: it reads what it may read, falls back on the recorded hashes  *)
(* of the files it may not read (integration_files.rs), and tells the user *)
(* in `kvn doctor` and in the tour what is set up (doctor.rs).             *)
(*                                                                         *)
(* A file is absent, of this kvn ("current") or of an earlier one ("old"). *)
(* The group is a number: groupadd may give a recreated group the number   *)
(* that the session still holds from before.                               *)
(***************************************************************************)
EXTENDS Integers, Sequences, SequencesExt

CONSTANT Gids  \* the numbers groupadd may give the group, none of them 0

VARIABLES
    sys,  \* the files, the group, the unit, the session and the daemon
    job   \* the commands the running script still has to execute

vars == <<sys, job>>

KillSwitchFiles == {"ruleset", "helper", "unit", "sudoers"}
NoGroup == 0

StepNames ==
    {"group", "member", "ruleset", "helper", "unit", "sudoers", "ks_stamp",
     "rule", "pk_stamp", "stop", "remove_ks", "remove_pk_stamp",
     "remove_rule", "del_group_ks", "del_group_pk", "ks_off", "auto_off",
     "quit", "remove_user"}

SysType ==
    [file : [KillSwitchFiles -> {"none", "old", "current"}],
     stamp : {"none", "old", "current"},
     rule : {"none", "legacy", "old", "current"},
     ruleStamp : {"none", "old", "current"},
     group : {NoGroup} \cup Gids, member : BOOLEAN,
     session : {NoGroup} \cup Gids,
     unit : BOOLEAN, setting : BOOLEAN, auto : BOOLEAN, up : BOOLEAN]
-----------------------------------------------------------------------------
(***************************************************************************)
(* What kvn learns as the user.                                            *)
(***************************************************************************)

\* integration_group_status: `id` knows the groups of this session by name,
\* and those of a new one; a session whose group was deleted makes it fail.
IntegrationGroupStatus(s) ==
    IF s.session # NoGroup /\ s.session = s.group THEN "active"
    ELSE IF s.session # NoGroup THEN "unknown"
    ELSE IF s.group # NoGroup /\ s.member THEN "pending" ELSE "not_member"

\* pkcheck: the legacy rule grants another group, of which every user of
\* that time is a member.
Granted(s) ==
    \/ s.rule = "legacy"
    \/ s.rule \in {"old", "current"} /\ IntegrationGroupStatus(s) = "active"

HelperPresent(s) == s.file["helper"] # "none"

\* `sudo -n helper`: the rule admits the groups of the session.
SudoAdmits(s) ==
    s.file["sudoers"] # "none" /\ IntegrationGroupStatus(s) = "active"

RunHelper(s) == HelperPresent(s) /\ SudoAdmits(s)

EnsureIntegrationGroupReady(s) ==
    IntegrationGroupStatus(s) \in {"active", "unknown"}

\* Does services::killswitch::apply succeed, and does it run the helper?
Applies(s, enabled) ==
    IF enabled
        THEN (HelperPresent(s) => EnsureIntegrationGroupReady(s)) /\ RunHelper(s)
        ELSE (~HelperPresent(s) /\ ~s.unit) \/ RunHelper(s)

Applied(s, enabled) ==
    IF RunHelper(s) THEN [s EXCEPT !.unit = enabled] ELSE s

(***************************************************************************)
(* The sudoers rule cannot be read by the user: its recorded hash stands   *)
(* for it.                                                                 *)
(***************************************************************************)
\* Seeded fault: the recorded hash of the sudoers rule is not looked at.
OutdatedKillSwitchFiles_Readable(s) ==
    {f \in KillSwitchFiles \ {"sudoers"} : s.file[f] # "current"}

OutdatedKillSwitchFiles(s) ==
    {f \in KillSwitchFiles \ {"sudoers"} : s.file[f] # "current"}
        \cup IF s.stamp # "current" THEN {"sudoers"} ELSE {}

KillSwitchFilesInstalled(s) ==
    HelperPresent(s) /\ OutdatedKillSwitchFiles(s) = {}

KillSwitchInstalled(s) == \E f \in KillSwitchFiles : s.file[f] # "none"

KillSwitchOutdated(s) ==
    (\E f \in KillSwitchFiles : s.file[f] # "current") \/ s.stamp # "current"

PolkitRuleInstalled(s) == s.rule # "none"
PolkitRuleGrantsLegacyGroup(s) == s.rule = "legacy"
PolkitRuleOutdated(s) == s.rule # "current" \/ s.ruleStamp # "current"

\* The session is asked for its groups before polkit is.
PolkitStatus(s) ==
    IF ~Granted(s) THEN "denied"
    ELSE IF IntegrationGroupStatus(s) = "pending" THEN "group_pending"
    ELSE "ready"

PolkitSetupState(s) ==
    IF PolkitStatus(s) = "ready" THEN "ready"
    ELSE IF s.ruleStamp = "current" /\ IntegrationGroupStatus(s) = "pending"
        THEN "reboot" ELSE "missing"

KillSwitchSetupState(s) ==
    IF ~KillSwitchFilesInstalled(s) THEN "missing"
    ELSE CASE IntegrationGroupStatus(s) = "active" -> "ready"
           [] IntegrationGroupStatus(s) = "pending" -> "reboot"
           [] OTHER -> "missing"

CheckKillSwitchSession(s) == IntegrationGroupStatus(s) \in {"pending", "not_member"}

CheckKillSwitch(s) ==
    IF ~HelperPresent(s) THEN "optional"
    ELSE IF OutdatedKillSwitchFiles(s) # {} THEN "failure"
    ELSE IF CheckKillSwitchSession(s) \/ ~SudoAdmits(s) THEN "warning"
    ELSE "pass"

CheckPolkit(s) ==
    IF \/ s.ruleStamp = "old"
       \/ s.ruleStamp = "none" /\ PolkitStatus(s) \in {"ready", "group_pending"}
        THEN "failure"
    ELSE IF PolkitStatus(s) = "ready" THEN "pass" ELSE "warning"
-----------------------------------------------------------------------------
(***************************************************************************)
(* The commands, each as the sequence of the commands of its scripts.      *)
(***************************************************************************)

KillSwitchSetupCommand(refresh) ==
    (IF refresh THEN <<>> ELSE <<"group">>)
        \o <<"ruleset", "helper", "unit", "sudoers", "ks_stamp">>
        \o (IF refresh THEN <<>> ELSE <<"member">>)

\* Seeded fault: setup leaves the recorded hash of the rule alone.
PolkitSetupCommand_NoStamp(refresh) ==
    (IF refresh THEN <<>> ELSE <<"group", "member">>) \o <<"rule">>

PolkitSetupCommand(refresh) ==
    (IF refresh THEN <<>> ELSE <<"group", "member">>) \o <<"rule", "pk_stamp">>

CleanKillSwitch == <<"stop", "remove_ks", "del_group_ks">>
CleanPolkit == <<"remove_pk_stamp", "remove_rule", "del_group_pk">>

\* A refresh runs the setup of an installed, outdated integration.
RefreshIntegration(installed, upToDate, command) ==
    IF ~installed \/ upToDate THEN <<>> ELSE command

\* Seeded fault: the rule that grants the old group is refreshed as well.
RefreshIntegrations_Legacy(s, polkit, killSwitch, ifOutdated) ==
    (IF killSwitch
        THEN RefreshIntegration(KillSwitchInstalled(s),
                                ifOutdated /\ ~KillSwitchOutdated(s),
                                KillSwitchSetupCommand(TRUE))
        ELSE <<>>)
    \o (IF polkit
        THEN RefreshIntegration(PolkitRuleInstalled(s),
                                ifOutdated /\ ~PolkitRuleOutdated(s),
                                PolkitSetupCommand(TRUE))
        ELSE <<>>)

RefreshIntegrations(s, polkit, killSwitch, ifOutdated) ==
    (IF killSwitch
        THEN RefreshIntegration(KillSwitchInstalled(s),
                                ifOutdated /\ ~KillSwitchOutdated(s),
                                KillSwitchSetupCommand(TRUE))
        ELSE <<>>)
    \o (IF polkit /\ ~PolkitRuleGrantsLegacyGroup(s)
        THEN RefreshIntegration(PolkitRuleInstalled(s),
                                ifOutdated /\ ~PolkitRuleOutdated(s),
                                PolkitSetupCommand(TRUE))
        ELSE <<>>)

SetupCommand(polkit, killSwitch) ==
    (IF polkit THEN PolkitSetupCommand(FALSE) ELSE <<>>)
        \o (IF killSwitch THEN KillSwitchSetupCommand(FALSE) ELSE <<>>)

CleanCommand(polkit, killSwitch) ==
    (IF killSwitch THEN CleanKillSwitch \o <<"ks_off">> ELSE <<>>)
        \o (IF polkit THEN CleanPolkit \o <<"auto_off">> ELSE <<>>)

CleanAllCommand == <<"quit">> \o CleanKillSwitch \o CleanPolkit \o <<"remove_user">>

\* turn_off_daemon_setting: the running daemon is asked, through apply.
TurnOffDaemonSetting(s) ==
    IF s.up /\ s.setting /\ Applies(s, FALSE)
        THEN [Applied(s, FALSE) EXCEPT !.setting = FALSE] ELSE s

\* What one command of a script does; g is the number groupadd picks.
DoSetup(step, s, g) ==
    CASE step = "group" -> IF s.group = NoGroup THEN [s EXCEPT !.group = g] ELSE s
      [] step = "member" -> [s EXCEPT !.member = TRUE]
      [] step \in KillSwitchFiles -> [s EXCEPT !.file[step] = "current"]
      [] step = "ks_stamp" -> [s EXCEPT !.stamp = s.file["sudoers"]]
      [] step = "rule" -> [s EXCEPT !.rule = "current"]
      [] step = "pk_stamp" -> [s EXCEPT !.ruleStamp = "current"]
      [] OTHER -> s

CleanupGroupIfUnused(s, used) ==
    IF used THEN s ELSE [s EXCEPT !.group = NoGroup, !.member = FALSE]

\* The daemon is asked to quit, and waited for.
StopDaemon(s) == [s EXCEPT !.up = FALSE]

\* The settings go with the directory they are kept in.
RemoveUserFiles(s) == [s EXCEPT !.setting = FALSE, !.auto = FALSE]

DoClean(step, s) ==
    CASE step = "stop" -> [s EXCEPT !.unit = FALSE]
      [] step = "remove_ks" ->
            [s EXCEPT !.file = [f \in KillSwitchFiles |-> "none"], !.stamp = "none"]
      [] step = "del_group_ks" -> CleanupGroupIfUnused(s, s.rule # "none")
      [] step = "remove_pk_stamp" -> [s EXCEPT !.ruleStamp = "none"]
      [] step = "remove_rule" -> [s EXCEPT !.rule = "none"]
      [] step = "del_group_pk" -> CleanupGroupIfUnused(s, s.file["sudoers"] # "none")
      [] step = "ks_off" -> TurnOffDaemonSetting(s)
      [] step = "auto_off" -> IF s.up THEN [s EXCEPT !.auto = FALSE] ELSE s
      [] step = "quit" -> StopDaemon(s)
      [] step = "remove_user" -> RemoveUserFiles(s)
      [] OTHER -> s

Do(step, s, g) == DoClean(step, DoSetup(step, s, g))

After(steps, s) ==
    FoldLeft(LAMBDA acc, step : Do(step, acc, CHOOSE g \in Gids : TRUE), s, steps)

\* A reboot ends the session: the next one has the groups of its user, and
\* the unit starts where it is installed and was left enabled.
Boot(s) ==
    [s EXCEPT !.session = IF s.member THEN s.group ELSE NoGroup,
              !.unit = s.unit /\ s.file["unit"] # "none",
              !.up = FALSE]
-----------------------------------------------------------------------------
Init ==
    /\ sys \in {[file |-> [f \in KillSwitchFiles |-> "none"], stamp |-> "none",
                 rule |-> r, ruleStamp |-> "none", group |-> NoGroup,
                 member |-> FALSE, session |-> NoGroup, unit |-> FALSE,
                 setting |-> FALSE, auto |-> FALSE, up |-> FALSE] :
                r \in {"none", "legacy"}}
    /\ job = <<>>

Run(command) ==
    /\ job = <<>>
    /\ command # <<>>
    /\ job' = command
    /\ UNCHANGED sys

Setup == \E p, k \in BOOLEAN : Run(SetupCommand(p, k))
Clean == \E p, k \in BOOLEAN : Run(CleanCommand(p, k))
CleanAll == Run(CleanAllCommand)
Refresh == \E p, k, o \in BOOLEAN : Run(RefreshIntegrations(sys, p, k, o))

RunStep ==
    /\ job # <<>>
    /\ \E g \in Gids : sys' = Do(Head(job), sys, g)
    /\ job' = Tail(job)

\* set -euo pipefail, and the `?` of the caller.  Removing the group and
\* talking to the daemon only warn when they fail.
FailStep ==
    /\ job # <<>>
    /\ job' = IF Head(job) \in {"del_group_ks", "del_group_pk", "ks_off", "auto_off"}
                THEN Tail(job) ELSE <<>>
    /\ UNCHANGED sys

Reboot ==
    /\ sys' = Boot(sys)
    /\ job' = <<>>

\* A package upgrade brings other files: what is installed is now old.
Aged(v) == IF v = "current" THEN "old" ELSE v
Upgrade ==
    /\ job = <<>>
    /\ sys' = [sys EXCEPT !.file = [f \in KillSwitchFiles |-> Aged(sys.file[f])],
                          !.stamp = Aged(sys.stamp), !.rule = Aged(sys.rule),
                          !.ruleStamp = Aged(sys.ruleStamp)]
    /\ UNCHANGED job

\* The daemon starts: it takes the kill switch from the unit, and drops
\* auto-connect when polkit denies it.
StartDaemon ==
    /\ ~sys.up
    /\ sys' = [sys EXCEPT !.up = TRUE, !.setting = sys.unit,
                          !.auto = sys.auto /\ PolkitStatus(sys) # "denied"]
    /\ UNCHANGED job

\* The user toggles the kill switch or auto-connect in kvn.
ToggleKillSwitch ==
    /\ sys.up
    /\ Applies(sys, ~sys.setting)
    /\ sys' = [Applied(sys, ~sys.setting) EXCEPT !.setting = ~sys.setting]
    /\ UNCHANGED job

ToggleAutoConnect ==
    /\ sys.up
    /\ sys.auto \/ PolkitStatus(sys) = "ready"
    /\ sys' = [sys EXCEPT !.auto = ~sys.auto]
    /\ UNCHANGED job

Next ==
    \/ Setup \/ Clean \/ CleanAll \/ Refresh \/ RunStep \/ FailStep
    \/ Reboot \/ Upgrade \/ StartDaemon \/ ToggleKillSwitch \/ ToggleAutoConnect

Spec == Init /\ [][Next]_vars
-----------------------------------------------------------------------------
TypeOK == sys \in SysType /\ job \in Seq(StepNames)

(***************************************************************************)
(* What the tour tells of an integration is true, however setup, refresh   *)
(* and clean were cut short: "ready" means that kvn may use it in this     *)
(* session, "reboot" that the next session will find it ready              *)
(* (polkit_setup_state_from, killswitch_setup_state_from).  The helper     *)
(* and the hash are readable, the sudoers rule they stand for is not.      *)
(***************************************************************************)
SetupStateIsTrue ==
    /\ KillSwitchSetupState(sys) = "ready" => Applies(sys, TRUE)
    /\ PolkitSetupState(sys) = "ready" => Granted(sys)
    /\ KillSwitchSetupState(sys) = "reboot" => KillSwitchSetupState(Boot(sys)) = "ready"
    /\ PolkitSetupState(sys) = "reboot" => PolkitSetupState(Boot(sys)) = "ready"

(***************************************************************************)
(* The fix that `kvn doctor` proposes for the kill switch and the polkit   *)
(* rule works from every state the scripts leave behind: after the setup   *)
(* and a reboot both checks pass.                                          *)
(***************************************************************************)
RemedyConverges ==
    job = <<>> =>
        LET fixed == Boot(After(SetupCommand(TRUE, TRUE), sys)) IN
        CheckKillSwitch(fixed) = "pass" /\ CheckPolkit(fixed) = "pass"

(***************************************************************************)
(* Refreshing the installed files, as a package upgrade does, never takes  *)
(* a permission away that this session has: neither the passwordless DNS   *)
(* of a rule older than kvn 0.28 nor the helper of the kill switch, at no  *)
(* step of the scripts (refresh_integrations).                             *)
(***************************************************************************)
RefreshKeepsAccess ==
    \A p, k, o \in BOOLEAN :
        LET after == Boot(After(RefreshIntegrations(sys, p, k, o), sys)) IN
        /\ Granted(Boot(sys)) => Granted(after)
        /\ Applies(Boot(sys), TRUE) => Applies(after, TRUE)
=============================================================================
