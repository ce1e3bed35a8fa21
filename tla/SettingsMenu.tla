---------------------------- MODULE SettingsMenu ----------------------------
(***************************************************************************)
(* The settings menu of the TUI (app/update/key/settings_menu.rs, dns.rs,  *)
(* confirm_disable.rs).  Changing a value on a page only drafts it; Enter  *)
(* commits the page's drafts, Esc, q and Backspace drop them.  The drafts  *)
(* live in the daemon, where the settings also change under an open page:  *)
(* by the answer to a request under way, by commands, by edits of the      *)
(* files; and a disconnect closes whatever is open.  A commit that has to  *)
(* be saved merges the edits it finds in the file, or fails: then the      *)
(* settings are what they were, and no worker it asked for is started.     *)
(*                                                                         *)
(* Rule drafts of the routing page are module RoutingEdits', what a commit *)
(* does to the connection ConnectionLifecycle's and to the files           *)
(* ConfigStore's.                                                          *)
(***************************************************************************)
EXTENDS Integers, Sequences, SequencesExt, FiniteSets, FiniteSetsExt

CONSTANT
    Scopes          \* sets of settings pages opened in one behaviour

VARIABLES
    scope,          \* the member of Scopes this behaviour is about
    saved,          \* config.settings: the value of every setting
    modes,          \* the modes routing.json declares
    presets,        \* the DNS presets of the configuration
    autoPending,    \* auto_connect_pending
    killPending,    \* kill_switch_pending: "on", "off" or NoDraft
    workers,        \* kill switch changes and polkit checks being carried out
    page,           \* overlay: a page, a dialog or "closed"
    help,           \* the help is open over it
    row,            \* the selected row of the page
    draft           \* drafted value of every setting, or NoDraft

vars == <<scope, saved, modes, presets, autoPending, killPending, workers, page, help,
          row, draft>>

NoDraft == "-"
Global == "global"

\* Polkit checks that may run at once: one asked for while another, withdrawn,
\* has not answered yet.
MaxChecks == 2

\* The pages, in the order of the menu, and their settings by row.
Entries == <<"connection", "dns", "interface", "routing">>
Fields == [connection |-> <<"auto", "kill">>, interface |-> <<"theme", "icons">>,
           routing |-> <<"mode">>, dns |-> <<"preset", "fakeip">>]

Pages == DOMAIN Fields
Settings == UNION {Range(Fields[p]) : p \in Pages}
MenuPages == Pages \cup {"root"}

Position(s, v) == CHOOSE i \in DOMAIN s : s[i] = v
Flip(v) == IF v = "on" THEN "off" ELSE "on"

\* The themes on offer.  "omarchy" is one more on the desktop that has it: a
\* file written there still names it elsewhere.
Themes == <<"nord", "dracula">>
SavedThemes == Append(Themes, "omarchy")

-----------------------------------------------------------------------------
(* What a page shows.                                                      *)

\* The global mode needs no declaration.
Declares(id) == id = Global \/ id \in Range(modes)

\* A change under way counts as made; an undeclared mode is the global one.
Live(f) ==
    CASE f = "auto" -> IF autoPending THEN "on" ELSE saved.auto
      [] f = "kill" -> IF killPending # NoDraft THEN killPending ELSE saved.kill
      [] f = "mode" -> IF Declares(saved.mode) THEN saved.mode ELSE Global
      [] OTHER      -> saved[f]

Shown(f) == IF draft[f] # NoDraft THEN draft[f] ELSE Live(f)

\* A row is marked that does not show the saved value.
Dirty(f) == Shown(f) # IF f = "mode" THEN Live(f) ELSE saved[f]

Rendered(p) == [i \in DOMAIN Fields[p] |->
                   [value |-> Shown(Fields[p][i]), dirty |-> Dirty(Fields[p][i])]]

\* The rules of the shown mode and the final outbound follow the mode.
ModeRules(id) == IF id = "ru" /\ Declares(id) THEN 2 ELSE 0
PageRows(p) == CASE p = "root"    -> Len(Entries)
                 [] p = "routing" -> ModeRules(Shown("mode")) + 2
                 [] OTHER         -> 2

\* The routing page, whose rows come and go, starts every key by clamping.
Selected == IF page = "routing" THEN Min({row, PageRows(page)}) ELSE row

-----------------------------------------------------------------------------
(* Moving between pages.                                                   *)

NoDrafts(fields) == [f \in Settings |-> IF f \in fields THEN NoDraft ELSE draft[f]]

settings == <<saved, modes, presets, autoPending, killPending, workers>>

OpenMenu ==
    /\ page = "closed" /\ ~help
    /\ page' = "root" /\ row' = 1
    /\ UNCHANGED <<scope, settings, help, draft>>

\* Seeded fault: only the drafts of the other pages are dropped.
OpenEntry_Kept(p) ==
    /\ page = "root" /\ ~help /\ p \in scope
    /\ page' = p /\ row' = 1
    /\ draft' = NoDrafts(Settings \ Range(Fields[p]))
    /\ UNCHANGED <<scope, settings, help>>

\* By its letter or by Enter.  Every page drops what is left of its own drafts
\* when it opens.
OpenEntry(p) ==
    /\ page = "root" /\ ~help /\ p \in scope
    /\ page' = p /\ row' = 1
    /\ draft' = NoDrafts(Range(Fields[p]))
    /\ UNCHANGED <<scope, settings, help>>

MoveRow ==
    /\ page \in MenuPages /\ ~help
    /\ row' \in {Min({Selected + 1, PageRows(page)}), Max({Selected - 1, 1}),
                 PageRows(page)}
    /\ UNCHANGED <<scope, settings, page, help, draft>>

\* The DNS overlay drops its own drafts, the settings menu all of its own.
LeftBehind(p) == IF p = "dns" THEN NoDrafts(Range(Fields["dns"]))
                 ELSE NoDrafts(Settings \ Range(Fields["dns"]))

\* Backspace returns to the entry of the page.
Back ==
    /\ page \in Pages /\ ~help
    /\ page' = "root" /\ row' = Position(Entries, page)
    /\ draft' = LeftBehind(page)
    /\ UNCHANGED <<scope, settings, help>>

Close ==
    /\ page \in MenuPages /\ ~help
    /\ page' = "closed" /\ draft' = LeftBehind(page)
    /\ UNCHANGED <<scope, settings, help, row>>

ToggleHelp ==
    /\ help' = ~help
    /\ UNCHANGED <<scope, settings, page, row, draft>>

OverlayClosed == page' = "closed" /\ help' = FALSE

\* Disconnecting (from any client) closes the overlay and leaves the drafts.
Disconnect ==
    /\ OverlayClosed
    /\ UNCHANGED <<scope, settings, row, draft>>

-----------------------------------------------------------------------------
(* Drafting.                                                               *)

Neighbour(s, i, forward) ==
    IF forward THEN s[(i % Len(s)) + 1] ELSE s[((i + Len(s) - 2) % Len(s)) + 1]

\* The neighbour of the shown value.  If that one is gone, the first theme, the
\* neighbour of the first mode, the first or the last preset.
Cycled(f, forward) ==
    LET v == Shown(f) IN
    CASE f = "theme" ->
           IF v \in Range(Themes) THEN Neighbour(Themes, Position(Themes, v), forward)
           ELSE Themes[1]
      [] f = "mode" ->
           Neighbour(modes, IF v \in Range(modes) THEN Position(modes, v) ELSE 1, forward)
      [] f = "preset" ->
           IF v \in Range(presets) THEN Neighbour(presets, Position(presets, v), forward)
           ELSE IF forward THEN presets[1] ELSE Last(presets)
      [] OTHER -> Flip(v)

\* h and l on the row of a setting.  The kill switch cannot be drafted while a
\* change of it is under way, nor a mode where none is declared.
Cycle(forward) ==
    /\ page \in Pages /\ ~help /\ Selected \in DOMAIN Fields[page]
    /\ LET f == Fields[page][Selected] IN
       /\ f = "kill" => killPending = NoDraft
       /\ f = "mode" => modes # <<>>
       /\ draft' = [draft EXCEPT ![f] = Cycled(f, forward)]
    /\ row' = Selected
    /\ UNCHANGED <<scope, settings, page, help>>

-----------------------------------------------------------------------------
(* Saving.                                                                 *)

\* What an edit of profiles.json may change; an edited kill switch is ignored.
Editable == UNION {Range(Fields[p]) : p \in scope} \ {"kill"}

\* The edit of the given settings.
Edited(s, fields) ==
    [f \in Settings |->
        IF f \notin fields THEN s[f]
        ELSE CASE f = "theme"  -> Neighbour(SavedThemes, Position(SavedThemes, s[f]), TRUE)
               [] f = "mode"   -> IF s[f] = Global THEN "ru" ELSE Global
               [] f = "preset" -> IF s[f] = "cloudflare" THEN "home" ELSE "cloudflare"
               [] OTHER        -> Flip(s[f])]

\* Configurations whose selected preset does not exist are not accepted.
PresetLists == IF "dns" \in scope THEN {<<"cloudflare">>, <<"cloudflare", "home">>}
               ELSE {presets}
FromFile(s, fields, ps) ==
    LET edited == Edited(s, fields) IN
    /\ edited.preset \in Range(ps)
    /\ saved' = edited /\ presets' = ps

\* SaveConfig merges what the file has for the settings that this step did not
\* change...
SaveMerges(s) ==
    \E fields \in SUBSET {f \in Editable : s[f] = saved[f]}, ps \in PresetLists :
        FromFile(s, fields, ps)

\* ... or fails, and the settings are restored.
SaveFails == UNCHANGED <<saved, presets>>

-----------------------------------------------------------------------------
(* Committing.                                                             *)

\* Seeded fault: turning auto-connect off leaves a request under way.
SetAutoConnect_KeepsRequest(v, s, pending) ==
    IF v = "on" THEN [saved |-> s, pending |-> pending \/ s.auto = "off"]
    ELSE [saved |-> [s EXCEPT !.auto = "off"], pending |-> pending]

\* Turning auto-connect on asks polkit first; turning it off is immediate and
\* withdraws a request under way.
SetAutoConnect(v, s, pending) ==
    IF v = "on" THEN [saved |-> s, pending |-> pending \/ s.auto = "off"]
    ELSE [saved |-> [s EXCEPT !.auto = "off"], pending |-> FALSE]

\* One change of the kill switch at a time.
SetKillSwitch(v) == IF killPending # NoDraft \/ saved.kill = v THEN killPending ELSE v

\* The workers of requests that were not pending before.
WorkersStart(auto, kill) ==
    LET asked == auto.pending /\ ~autoPending IN
    /\ asked => workers.checks < MaxChecks
    /\ workers' = [kill   |-> workers.kill \cup ({kill} \ {killPending}),
                   checks |-> workers.checks + (IF asked THEN 1 ELSE 0)]

\* Both requests are pending whether or not the save they came with succeeds.
Request(auto, kill) ==
    /\ autoPending' = auto.pending /\ killPending' = kill
    /\ IF auto.saved = saved
         THEN WorkersStart(auto, kill) /\ UNCHANGED <<saved, presets>>
         ELSE \/ SaveMerges(auto.saved) /\ WorkersStart(auto, kill)
              \/ SaveFails /\ UNCHANGED workers

AsIs == [saved |-> saved, pending |-> autoPending]

CommitConnection ==
    /\ Request(IF draft.auto = NoDraft THEN AsIs
               ELSE SetAutoConnect(draft.auto, saved, autoPending),
               IF draft.kill = NoDraft THEN killPending ELSE SetKillSwitch(draft.kill))
    /\ draft' = NoDrafts({"auto", "kill"})

\* A commit that changes nothing is not saved.
SaveChanged(s) == IF s = saved THEN UNCHANGED <<saved, presets>>
                  ELSE SaveMerges(s) \/ SaveFails

CommitInterface ==
    /\ SaveChanged([saved EXCEPT !.theme = Shown("theme"), !.icons = Shown("icons")])
    /\ draft' = NoDrafts({"theme", "icons"})
    /\ UNCHANGED <<autoPending, killPending, workers>>

\* The mode that is in force already is selected without being saved.
CommitRouting ==
    /\ LET s == [saved EXCEPT !.mode = draft.mode] IN
       CASE draft.mode = NoDraft \/ ~Declares(draft.mode) -> UNCHANGED <<saved, presets>>
         [] draft.mode = Live("mode") -> saved' = s /\ UNCHANGED presets
         [] OTHER -> SaveMerges(s) \/ SaveFails
    /\ draft' = NoDrafts({"mode"})
    /\ UNCHANGED <<autoPending, killPending, workers>>

\* A drafted preset that is gone is an error, and the other draft waits.
CommitDns ==
    /\ IF draft.preset \notin Range(presets) \cup {NoDraft}
         THEN draft' = NoDrafts({"preset"}) /\ UNCHANGED <<saved, presets>>
         ELSE /\ SaveChanged([saved EXCEPT !.preset = Shown("preset"),
                                           !.fakeip = Shown("fakeip")])
              /\ draft' = NoDrafts({"preset", "fakeip"})
    /\ UNCHANGED <<autoPending, killPending, workers>>

EnterKey ==
    /\ page \in Pages /\ ~help
    /\ CASE page = "connection" -> CommitConnection
         [] page = "interface"  -> CommitInterface
         [] page = "routing"    -> CommitRouting
         [] page = "dns"        -> CommitDns
    /\ row' = Selected
    /\ UNCHANGED <<scope, modes, page, help>>

-----------------------------------------------------------------------------
(* The toggles of the main screen: disabling asks first.                   *)

ToggleAutoConnect ==
    /\ page = "closed" /\ ~help /\ "connection" \in scope
    /\ IF saved.auto = "on" /\ ~autoPending
         THEN page' = "confirm auto" /\ UNCHANGED settings
         ELSE /\ Request(SetAutoConnect("on", saved, autoPending), killPending)
              /\ UNCHANGED <<modes, page>>
    /\ UNCHANGED <<scope, help, row, draft>>

ToggleKillSwitch ==
    /\ page = "closed" /\ ~help /\ "connection" \in scope
    /\ IF saved.kill = "on" /\ killPending = NoDraft
         THEN page' = "confirm kill" /\ UNCHANGED settings
         ELSE Request(AsIs, SetKillSwitch("on")) /\ UNCHANGED <<modes, page>>
    /\ UNCHANGED <<scope, help, row, draft>>

Confirm ==
    /\ page \in {"confirm auto", "confirm kill"} /\ ~help
    /\ page' = "closed"
    /\ IF page = "confirm auto"
         THEN Request(SetAutoConnect("off", saved, autoPending), killPending)
         ELSE Request(AsIs, SetKillSwitch("off"))
    /\ UNCHANGED <<scope, modes, help, row, draft>>

Cancel ==
    /\ page \in {"confirm auto", "confirm kill"} /\ ~help
    /\ page' = "closed"
    /\ UNCHANGED <<scope, settings, help, row, draft>>

-----------------------------------------------------------------------------
(* Changes from elsewhere.                                                 *)

\* An answer nobody waits for is ignored.
AutoConnectPolkitChecked(ok) ==
    /\ workers.checks > 0
    /\ workers' = [workers EXCEPT !.checks = @ - 1]
    /\ autoPending' = FALSE
    /\ IF autoPending /\ ok
         THEN SaveMerges([saved EXCEPT !.auto = "on"]) \/ SaveFails
         ELSE UNCHANGED <<saved, presets>>
    /\ UNCHANGED <<scope, modes, killPending, page, help, row, draft>>

\* The switch is on or off even if that cannot be saved.
KillSwitchApplied(v, ok) ==
    /\ v \in workers.kill
    /\ workers' = [workers EXCEPT !.kill = @ \ {v}]
    /\ killPending' = IF killPending = v THEN NoDraft ELSE killPending
    /\ IF killPending = v /\ ok
         THEN LET s == [saved EXCEPT !.kill = v] IN
              SaveMerges(s) \/ (saved' = s /\ UNCHANGED presets)
         ELSE UNCHANGED <<saved, presets>>
    /\ UNCHANGED <<scope, modes, autoPending, page, help, row, draft>>

\* `kvn kill-switch on|off` through the daemon.
KillSwitchCommand(v) ==
    /\ "connection" \in scope
    /\ Request(AsIs, SetKillSwitch(v))
    /\ UNCHANGED <<scope, modes, page, help, row, draft>>

\* `kvn clean-all` turns auto-connect off; any client may turn it on.
AutoConnectCommand(v) ==
    /\ "connection" \in scope
    /\ Request(SetAutoConnect(v, saved, autoPending), killPending)
    /\ UNCHANGED <<scope, modes, page, help, row, draft>>

\* profiles.json was edited, by one setting or by several.  Without the profile
\* of the connection it disconnects.
ConfigReloaded ==
    /\ \E fields \in SUBSET Editable, ps \in PresetLists : FromFile(saved, fields, ps)
    /\ OverlayClosed \/ UNCHANGED <<page, help>>
    /\ UNCHANGED <<scope, modes, autoPending, killPending, workers, row, draft>>

\* routing.json was edited: a drafted mode it no longer has is dropped.
RoutingReloaded ==
    /\ "routing" \in scope
    /\ modes' \in {<<>>, <<Global>>, <<"ru">>, <<"ru", Global>>}
    /\ draft' = IF draft.mode \in Range(modes') \cup {Global} THEN draft
                ELSE NoDrafts({"mode"})
    /\ UNCHANGED <<scope, saved, presets, autoPending, killPending, workers, page, help,
                   row>>

\* `kvn routing <mode>`, or the mode picked in its list; saved in any case.
CommitRoutingMode ==
    /\ "routing" \in scope
    /\ \E id \in {Global, "ru"} :
          /\ Declares(id)
          /\ SaveMerges([saved EXCEPT !.mode = id]) \/ SaveFails
    /\ UNCHANGED <<scope, modes, autoPending, killPending, workers, page, help, row, draft>>

-----------------------------------------------------------------------------
Init ==
    /\ scope \in Scopes
    /\ saved = [auto |-> "off", kill |-> "off", theme |-> "nord", icons |-> "on",
                mode |-> Global, preset |-> "cloudflare", fakeip |-> "off"]
    /\ modes = <<"ru", Global>> /\ presets = <<"cloudflare", "home">>
    /\ autoPending = FALSE /\ killPending = NoDraft
    /\ workers = [kill |-> {}, checks |-> 0]
    /\ page = "closed" /\ help = FALSE /\ row = 1
    /\ draft = [f \in Settings |-> NoDraft]

Next ==
    \/ OpenMenu \/ MoveRow \/ Back \/ Close \/ ToggleHelp \/ Disconnect \/ EnterKey
    \/ \E p \in Pages : OpenEntry(p)
    \/ \E forward \in BOOLEAN : Cycle(forward)
    \/ ToggleAutoConnect \/ ToggleKillSwitch \/ Confirm \/ Cancel
    \/ \E ok \in BOOLEAN : AutoConnectPolkitChecked(ok)
    \/ \E v \in {"on", "off"} : \/ KillSwitchCommand(v) \/ AutoConnectCommand(v)
                                \/ \E ok \in BOOLEAN : KillSwitchApplied(v, ok)
    \/ ConfigReloaded \/ RoutingReloaded \/ CommitRoutingMode

Spec == Init /\ [][Next]_vars

-----------------------------------------------------------------------------
(* Properties.                                                             *)

\* Enter on a page makes every change the page shows, or asks for it to be
\* made, whatever happened under the page; unless it had to be saved and that
\* failed, the preset is gone, which is an error, or a change of the kill
\* switch is under way.
NotSaved(f, v) ==
    saved' = saved /\ f # "kill" /\ saved[f] # v /\ (f = "auto" => v = "off")

AppliesWhatIsShown ==
    \A i \in DOMAIN Fields[page] :
        LET f == Fields[page][i]
            v == Rendered(page)[i].value IN
        \/ v = Live(f)
        \/ Live(f)' = v
        \/ NotSaved(f, v)
        \/ f = "kill" /\ killPending # NoDraft
        \/ page = "dns" /\ draft.preset \notin Range(presets) \cup {NoDraft}

EnterAppliesWhatIsShown == EnterKey => AppliesWhatIsShown

\* A page opens with the settings as they are: nothing drafted on it before,
\* and left behind when a disconnect closed it, comes back, and a row is marked
\* only for a change under way.
ShowsWhatIs(p) ==
    \A i \in DOMAIN Fields[p] :
        LET f == Fields[p][i] IN
        /\ Rendered(p)[i].value = Live(f)
        /\ Rendered(p)[i].dirty => \/ f = "auto" /\ autoPending
                                   \/ f = "kill" /\ killPending # NoDraft

PageOpensAsSaved == \A p \in Pages : page' = p /\ page # p => ShowsWhatIs(p)'
=============================================================================
