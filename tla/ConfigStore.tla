----------------------------- MODULE ConfigStore -----------------------------
(***************************************************************************)
(* profiles.json and the threads that read and write it: the daemon's main *)
(* loop, which commits every change with a three-way merge and a check of  *)
(* the file's revision; the reload workers, which load the file (and may   *)
(* write it back normalised or with a generated HWID); the startup; other  *)
(* programs; and one external editor, whose document is merged into the    *)
(* file by the daemon.                                                     *)
(*                                                                         *)
(* A configuration is a kill switch and a function from the other fields   *)
(* to values.  What the file holds is compared as a whole, as the code     *)
(* compares bytes.                                                         *)
(***************************************************************************)
EXTENDS Naturals, Sequences, FiniteSets

CONSTANTS
    Fields,         \* every setting, profile and subscription but the kill switch
    Values,         \* the values of a field
    LastConnected,  \* the field last_connected_profile
    Hwid,           \* the field hwid; not in Fields when it is always set
    Empty,          \* the default value of a field; an empty hwid
    FirstRun,       \* the settings of Config::for_first_run
    Workers,        \* reload workers
    Startup,        \* the loading done by Model::new
    None,
    RenameRaces,    \* may others write between a writer's check and its rename
    MaxChanges,     \* bound: changes asked of the daemon
    MaxForeign,     \* bound: writes of other programs
    MaxReloads,     \* bound: reloads
    MaxFailures,    \* bound: I/O errors, and helper and validation failures
    MaxCrashes,     \* bound: crashes of the daemon
    MaxEdits,       \* bound: changes made in the editor
    MaxSubmits      \* bound: submissions of the editor

ASSUME FieldsAssumption ==
    /\ LastConnected \in Fields
    /\ Empty \in Values
    /\ FirstRun \in [Fields -> Values]
    /\ Startup \notin Workers
    /\ RenameRaces \in BOOLEAN

Config == [killSwitch: BOOLEAN, settings: [Fields -> Values]]

ASSUME NoneAssumption == None \notin Config /\ None \notin BOOLEAN

Default == [killSwitch |-> FALSE, settings |-> [f \in Fields |-> Empty]]

FirstRunConfig == [killSwitch |-> FALSE, settings |-> FirstRun]

(***************************************************************************)
(* The contents of profiles.json.  "broken" stands for a text that cannot  *)
(* be read, parsed or migrated, or that fails validation; "tidy" is false  *)
(* for a text that loading migrates or normalises.                         *)
(***************************************************************************)
Files == [kind: {"text", "broken", "absent"}, config: Config, tidy: BOOLEAN]

Text(c, tidy) == [kind |-> "text", config |-> c, tidy |-> tidy]
Broken == [kind |-> "broken", config |-> Default, tidy |-> TRUE]
Absent == [kind |-> "absent", config |-> Default, tidy |-> TRUE]

VARIABLES
    file,       \* profiles.json
    config,     \* model.config
    unsaved,    \* model.unsaved_state_merge_base
    blocked,    \* model.config_persistence_blocked
    pending,    \* model.kill_switch_pending
    up,         \* where the daemon is: down, loading, reconciling or in its loop
    commit,     \* the commit_config_change the main thread is executing
    loader,     \* the threads executing load_config
    inbox,      \* the messages of the main loop
    helper,     \* the argument of the kill-switch worker, or None
    unit,       \* is the kill-switch unit active
    shown,      \* the configuration in the client's last snapshot
    session,    \* the external editor
    reply,      \* the answer to the editor's request
    reconciled, \* auxiliary: did this daemon's startup learn the unit's state
    confirmed,  \* auxiliary: the fields of confirmed state not saved yet
    count       \* what the bounds bound

model == <<config, unsaved, blocked, pending, confirmed>>
editor == <<shown, session, reply>>
kernel == <<helper, unit>>
vars == <<file, model, up, commit, loader, inbox, kernel, editor, reconciled, count>>

Loaders == Workers \union {Startup}

(***************************************************************************)
(* "own" is auxiliary: the fields the change is about.                     *)
(***************************************************************************)
Commits == [stage: {"none", "read", "verify", "publish"},
            kind: {"save", "confirm", "edit", "reconcile"},
            base: Config, before: Config, edited: Config,
            own: SUBSET Fields, expected: Files, id: Nat]

NoCommit == [stage |-> "none", kind |-> "save",
             base |-> Default, before |-> Default, edited |-> Default,
             own |-> {}, expected |-> Absent, id |-> 0]

LoaderStates == [stage: {"idle", "load", "verify", "publish", "hwid", "send"},
                 text: Files, result: Config, ok: BOOLEAN]

Idle == [stage |-> "idle", text |-> Absent, result |-> Default, ok |-> FALSE]

Messages == [type: {"reloaded"}, ok: BOOLEAN, config: Config]
     \union [type: {"killswitch"}, ok: BOOLEAN, enabled: BOOLEAN]
     \union [type: {"edit"}, base: Config, edited: Config,
             own: SUBSET Fields, id: Nat]

Sessions == [state: {"closed", "editing", "waiting"},
             opened: Config, base: Config, doc: Config,
             touched: SUBSET Fields, id: Nat]

Closed(id) == [state |-> "closed", opened |-> Default, base |-> Default,
               doc |-> Default, touched |-> {}, id |-> id]

Replies == [result: {"saved", "conflict", "failed"}, current: Config, id: Nat]

Counters == [changes: Nat, foreign: Nat, reloads: Nat, failures: Nat, crashes: Nat,
             edits: Nat]

TypeOK ==
    /\ file \in Files
    /\ config \in Config
    /\ unsaved \in Config \union {None}
    /\ blocked \in BOOLEAN
    /\ pending \in BOOLEAN \union {None}
    /\ up \in {"down", "loading", "reconcile", "loop"}
    /\ commit \in Commits
    /\ loader \in [Loaders -> LoaderStates]
    /\ inbox \in Seq(Messages)
    /\ helper \in BOOLEAN \union {None}
    /\ unit \in BOOLEAN
    /\ shown \in Config
    /\ session \in Sessions
    /\ reply \in Replies \union {None}
    /\ reconciled \in BOOLEAN
    /\ confirmed \in SUBSET Fields
    /\ count \in Counters

(***************************************************************************)
(* The three-way merge of merge.rs, field by field; the kill switch is     *)
(* always taken from the edited side.                                      *)
(***************************************************************************)
MergeField(base, current, edited) == IF edited = base THEN current ELSE edited

Conflicts(base, current, edited) ==
    {f \in Fields : /\ edited.settings[f] # base.settings[f]
                    /\ current.settings[f] # base.settings[f]
                    /\ current.settings[f] # edited.settings[f]}

\* Mutation of Merge: the kill switch is merged like any other field.
Merge_KillSwitchToo(base, current, edited) ==
    [killSwitch |-> MergeField(base.killSwitch, current.killSwitch, edited.killSwitch),
     settings |-> [f \in Fields |->
        MergeField(base.settings[f], current.settings[f], edited.settings[f])]]

Merge(base, current, edited) ==
    [killSwitch |-> edited.killSwitch,
     settings |-> [f \in Fields |->
        MergeField(base.settings[f], current.settings[f], edited.settings[f])]]

\* Mutation of ConflictDocuments: the edited document is shown as it was.
ConflictDocuments_Edited(base, current, edited) == {edited}

(***************************************************************************)
(* The texts a user can leave after resolving the document with conflict   *)
(* markers: merged where the sides agree, one of the sides where not.      *)
(***************************************************************************)
ConflictDocuments(base, current, edited) ==
    LET merged == Merge(base, current, edited)
        clash == Conflicts(base, current, edited)
    IN {[killSwitch |-> MergeField(base.killSwitch, current.killSwitch, edited.killSwitch),
         settings |-> [f \in Fields |-> IF f \in mine \/ f \notin clash
                                        THEN merged.settings[f]
                                        ELSE current.settings[f]]]
        : mine \in SUBSET clash}

(***************************************************************************)
(* A writer renames its file over profiles.json right after its last look  *)
(* at it.  Without RenameRaces nobody writes between the two.              *)
(***************************************************************************)
Publishing == \/ commit.stage = "publish"
              \/ \E l \in Loaders : loader[l].stage = "publish"

MayWrite == RenameRaces \/ ~Publishing

Fails == /\ count.failures < MaxFailures
         /\ count' = [count EXCEPT !.failures = @ + 1]

-----------------------------------------------------------------------------
(* commit_config_change *)

InLoop == up = "loop" /\ commit.stage = "none"

\* Mutations of MergeBase: the base of an earlier failed save is forgotten; it is
\* used although there is none.
MergeBase_Before == config
MergeBase_Unchecked == unsaved

MergeBase == IF unsaved = None THEN config ELSE unsaved

BeginCommit(kind, base, edited, own, id) ==
    commit' = [stage |-> "read", kind |-> kind, base |-> base,
               before |-> config, edited |-> edited, own |-> own,
               expected |-> Absent, id |-> id]

Answer(result, current) ==
    reply' = [result |-> result, current |-> current, id |-> commit.id]

(***************************************************************************)
(* What the caller of a failed commit does.                                *)
(***************************************************************************)
CommitFailed(result, current) ==
    /\ commit' = NoCommit
    /\ \/ /\ commit.kind = "save"
          /\ config' = commit.before
          /\ UNCHANGED <<unsaved, confirmed, up, reply>>
       \/ /\ commit.kind = "confirm"
          /\ unsaved' = IF unsaved = None THEN commit.before ELSE unsaved
          /\ confirmed' = commit.own
          /\ UNCHANGED <<config, up, reply>>
       \/ /\ commit.kind = "edit"
          /\ Answer(result, current)
          /\ UNCHANGED <<config, unsaved, confirmed, up>>
       \/ /\ commit.kind = "reconcile"
          /\ config' = [config EXCEPT !.killSwitch = commit.edited.killSwitch]
          /\ up' = "loop"
          /\ UNCHANGED <<unsaved, confirmed, reply>>
    /\ UNCHANGED <<file, blocked, pending, loader, inbox, kernel, shown, session,
                   reconciled>>

CommitRead ==
    /\ commit.stage = "read"
    /\ ~blocked
    /\ file.kind # "broken"
    /\ Conflicts(commit.base, file.config, commit.edited) = {}
    /\ commit' = [commit EXCEPT !.stage = "verify", !.expected = file]
    /\ UNCHANGED <<file, model, up, loader, inbox, kernel, editor, reconciled, count>>

CommitConflict ==
    /\ commit.stage = "read"
    /\ ~blocked
    /\ file.kind # "broken"
    /\ Conflicts(commit.base, file.config, commit.edited) # {}
    /\ CommitFailed("conflict", file.config)
    /\ UNCHANGED count

CommitRefused ==
    /\ \/ commit.stage = "read" /\ (blocked \/ file.kind = "broken")
       \/ commit.stage = "verify" /\ file # commit.expected
    /\ CommitFailed("failed", Default)
    /\ UNCHANGED count

CommitError ==
    /\ commit.stage # "none"
    /\ CommitFailed("failed", Default)
    /\ Fails

\* Mutation of CommitVerify: the revision is not checked.
CommitVerify_Unchecked ==
    /\ commit.stage = "verify"
    /\ MayWrite
    /\ commit' = [commit EXCEPT !.stage = "publish"]
    /\ UNCHANGED <<file, model, up, loader, inbox, kernel, editor, reconciled, count>>

CommitVerify ==
    /\ commit.stage = "verify"
    /\ file = commit.expected
    /\ MayWrite
    /\ commit' = [commit EXCEPT !.stage = "publish"]
    /\ UNCHANGED <<file, model, up, loader, inbox, kernel, editor, reconciled, count>>

\* Mutation of ReloadedConfig: the file's kill switch is taken over.
ReloadedConfig_Whole(c) == c

(***************************************************************************)
(* handle_config_reloaded: everything but the kill switch is replaced.     *)
(***************************************************************************)
ReloadedConfig(c) == [c EXCEPT !.killSwitch = config.killSwitch]

HandleConfigReloaded(c) ==
    /\ config' = ReloadedConfig(c)
    /\ blocked' = FALSE
    /\ unsaved' = None
    /\ confirmed' = {}

CommitPublish ==
    LET merged == Merge(commit.base, commit.expected.config, commit.edited) IN
    /\ commit.stage = "publish"
    /\ file' = Text(merged, TRUE)
    /\ commit' = NoCommit
    /\ \/ /\ commit.kind \in {"save", "confirm"}
          /\ config' = merged
          /\ unsaved' = None
          /\ confirmed' = {}
          /\ UNCHANGED <<blocked, up, reply>>
       \/ /\ commit.kind = "edit"
          /\ HandleConfigReloaded(merged)
          /\ Answer("saved", Default)
          /\ UNCHANGED up
       \/ /\ commit.kind = "reconcile"
          /\ config' = merged
          /\ up' = "loop"
          /\ UNCHANGED <<unsaved, confirmed, blocked, reply>>
    /\ UNCHANGED <<pending, loader, inbox, kernel, shown, session, reconciled, count>>

-----------------------------------------------------------------------------
(* The main loop *)

(***************************************************************************)
(* A key or command whose update changes the configuration and asks for    *)
(* SaveConfig.                                                             *)
(***************************************************************************)
RequestChange(f, v) ==
    LET edited == [config EXCEPT !.settings[f] = v] IN
    /\ InLoop
    /\ count.changes < MaxChanges
    /\ v # config.settings[f]
    /\ count' = [count EXCEPT !.changes = @ + 1]
    /\ config' = edited
    /\ BeginCommit("save", MergeBase, edited, confirmed \union {f}, 0)
    /\ UNCHANGED <<file, unsaved, blocked, pending, confirmed, up, loader, inbox,
                   kernel, editor, reconciled>>

(***************************************************************************)
(* A connection came up: the profile is recorded as the last connected.    *)
(***************************************************************************)
ConfirmConnected(v) ==
    LET edited == [config EXCEPT !.settings[LastConnected] = v] IN
    /\ InLoop
    /\ count.changes < MaxChanges
    /\ v # config.settings[LastConnected]
    /\ count' = [count EXCEPT !.changes = @ + 1]
    /\ config' = edited
    /\ BeginCommit("confirm", MergeBase, edited, confirmed \union {LastConnected}, 0)
    /\ UNCHANGED <<file, unsaved, blocked, pending, confirmed, up, loader, inbox,
                   kernel, editor, reconciled>>

SetKillSwitch ==
    /\ InLoop
    /\ count.changes < MaxChanges
    /\ pending = None
    /\ count' = [count EXCEPT !.changes = @ + 1]
    /\ pending' = ~config.killSwitch
    /\ helper' = ~config.killSwitch
    /\ UNCHANGED <<file, config, unsaved, blocked, confirmed, up, commit, loader,
                   inbox, unit, editor, reconciled>>

(***************************************************************************)
(* The worker of ApplyKillSwitch runs the helper and reports.              *)
(***************************************************************************)
ApplyKillSwitch ==
    /\ helper # None
    /\ helper' = None
    /\ \/ /\ unit' = helper
          /\ inbox' = Append(inbox, [type |-> "killswitch", ok |-> TRUE, enabled |-> helper])
          /\ UNCHANGED count
       \/ /\ Fails
          /\ inbox' = Append(inbox, [type |-> "killswitch", ok |-> FALSE, enabled |-> helper])
          /\ UNCHANGED unit
    /\ UNCHANGED <<file, model, up, commit, loader, editor, reconciled>>

OnKillSwitchApplied ==
    /\ InLoop
    /\ inbox # <<>>
    /\ Head(inbox).type = "killswitch"
    /\ inbox' = Tail(inbox)
    /\ \/ /\ pending # Head(inbox).enabled
          /\ UNCHANGED <<config, pending, commit>>
       \/ /\ pending = Head(inbox).enabled
          /\ ~Head(inbox).ok
          /\ pending' = None
          /\ UNCHANGED <<config, commit>>
       \/ /\ pending = Head(inbox).enabled
          /\ Head(inbox).ok
          /\ pending' = None
          /\ config' = [config EXCEPT !.killSwitch = Head(inbox).enabled]
          /\ BeginCommit("confirm", MergeBase, config', confirmed, 0)
    /\ UNCHANGED <<file, unsaved, blocked, confirmed, up, loader, kernel, editor,
                   reconciled, count>>

Reload(w) ==
    /\ InLoop
    /\ count.reloads < MaxReloads
    /\ loader[w].stage = "idle"
    /\ count' = [count EXCEPT !.reloads = @ + 1]
    /\ loader' = [loader EXCEPT ![w] = [Idle EXCEPT !.stage = "load"]]
    /\ UNCHANGED <<file, model, up, commit, inbox, kernel, editor, reconciled>>

OnConfigReloaded ==
    /\ InLoop
    /\ inbox # <<>>
    /\ Head(inbox).type = "reloaded"
    /\ inbox' = Tail(inbox)
    /\ IF Head(inbox).ok
       THEN HandleConfigReloaded(Head(inbox).config) /\ UNCHANGED pending
       ELSE UNCHANGED model
    /\ UNCHANGED <<file, up, commit, loader, kernel, editor, reconciled, count>>

(***************************************************************************)
(* ApplyEditedConfig: the kill switch of the document is ignored.          *)
(***************************************************************************)
OnApplyEditedConfig ==
    LET m == Head(inbox) IN
    /\ InLoop
    /\ inbox # <<>>
    /\ m.type = "edit"
    /\ inbox' = Tail(inbox)
    /\ \/ /\ blocked
          /\ reply' = [result |-> "failed", current |-> Default, id |-> m.id]
          /\ UNCHANGED commit
       \/ /\ ~blocked
          /\ BeginCommit("edit", m.base,
                         [m.edited EXCEPT !.killSwitch = config.killSwitch], m.own, m.id)
          /\ UNCHANGED reply
    /\ UNCHANGED <<file, model, up, loader, kernel, shown, session, reconciled, count>>

-----------------------------------------------------------------------------
(* load_config, in a reload worker or at startup *)

(***************************************************************************)
(* The end of load_config_at: ensure_hwid generates a missing HWID, which  *)
(* is then written without a look at the file.                             *)
(***************************************************************************)
HasHwid(c) == Hwid \in Fields => c.settings[Hwid] # Empty

Loaded(l, c) ==
    \/ /\ HasHwid(c)
       /\ loader' = [loader EXCEPT ![l].stage = "send", ![l].ok = TRUE, ![l].result = c]
    \/ /\ ~HasHwid(c)
       /\ \E id \in Values \ {Empty} :
             loader' = [loader EXCEPT ![l].stage = "hwid", ![l].ok = TRUE,
                                      ![l].result = [c EXCEPT !.settings[Hwid] = id]]

LoadFailed(l) == loader' = [loader EXCEPT ![l].stage = "send", ![l].ok = FALSE]

LoadRead(l) ==
    /\ loader[l].stage = "load"
    /\ \/ file.kind = "absent" /\ Loaded(l, FirstRunConfig)
       \/ file.kind = "broken" /\ LoadFailed(l)
       \/ file.kind = "text" /\ file.tidy /\ Loaded(l, file.config)
       \/ /\ file.kind = "text" /\ ~file.tidy
          /\ loader' = [loader EXCEPT ![l].stage = "verify", ![l].text = file]
    /\ UNCHANGED <<file, model, up, commit, inbox, kernel, editor, reconciled, count>>

LoadVerify(l) ==
    /\ loader[l].stage = "verify"
    /\ \/ file # loader[l].text /\ LoadFailed(l)
       \/ /\ file = loader[l].text
          /\ MayWrite
          /\ loader' = [loader EXCEPT ![l].stage = "publish"]
    /\ UNCHANGED <<file, model, up, commit, inbox, kernel, editor, reconciled, count>>

LoadPublish(l) ==
    /\ loader[l].stage = "publish"
    /\ file' = Text(loader[l].text.config, TRUE)
    /\ Loaded(l, loader[l].text.config)
    /\ UNCHANGED <<model, up, commit, inbox, kernel, editor, reconciled, count>>

LoadHwid(l) ==
    /\ loader[l].stage = "hwid"
    /\ MayWrite
    /\ file' = Text(loader[l].result, TRUE)
    /\ loader' = [loader EXCEPT ![l].stage = "send"]
    /\ UNCHANGED <<model, up, commit, inbox, kernel, editor, reconciled, count>>

LoadError(l) ==
    /\ loader[l].stage \in {"load", "verify", "publish", "hwid"}
    /\ Fails
    /\ LoadFailed(l)
    /\ UNCHANGED <<file, model, up, commit, inbox, kernel, editor, reconciled>>

LoadSend(w) ==
    /\ w # Startup
    /\ loader[w].stage = "send"
    /\ inbox' = Append(inbox, [type |-> "reloaded", ok |-> loader[w].ok,
                               config |-> loader[w].result])
    /\ loader' = [loader EXCEPT ![w] = Idle]
    /\ UNCHANGED <<file, model, up, commit, kernel, editor, reconciled, count>>

(***************************************************************************)
(* Model::new falls back to the defaults and blocks saving when the file   *)
(* does not load.                                                          *)
(***************************************************************************)
ModelNew ==
    /\ up = "loading"
    /\ loader[Startup].stage = "send"
    /\ IF loader[Startup].ok
       THEN config' = loader[Startup].result /\ blocked' = FALSE
       ELSE config' = Default /\ blocked' = TRUE
    /\ up' = "reconcile"
    /\ loader' = [loader EXCEPT ![Startup] = Idle]
    /\ UNCHANGED <<file, unsaved, confirmed, pending, commit, inbox, kernel, editor, reconciled, count>>

ReconcileKillSwitch ==
    /\ up = "reconcile"
    /\ commit.stage = "none"
    /\ \/ /\ Fails
          /\ reconciled' = FALSE
          /\ up' = "loop"
          /\ UNCHANGED commit
       \/ /\ reconciled' = TRUE
          /\ config.killSwitch = unit
          /\ up' = "loop"
          /\ UNCHANGED <<commit, count>>
       \/ /\ reconciled' = TRUE
          /\ config.killSwitch # unit
          /\ BeginCommit("reconcile", config, [config EXCEPT !.killSwitch = unit], {}, 0)
          /\ UNCHANGED <<up, count>>
    /\ UNCHANGED <<file, model, loader, inbox, kernel, editor>>

-----------------------------------------------------------------------------
(* The daemon's death and restart, other programs, the client *)

Crash ==
    /\ up # "down"
    /\ count.crashes < MaxCrashes
    /\ count' = [count EXCEPT !.crashes = @ + 1]
    /\ up' = "down"
    /\ commit' = NoCommit
    /\ loader' = [l \in Loaders |-> Idle]
    /\ inbox' = <<>>
    /\ helper' = None
    /\ reconciled' = FALSE
    /\ config' = Default
    /\ unsaved' = None
    /\ confirmed' = {}
    /\ blocked' = FALSE
    /\ pending' = None
    /\ UNCHANGED <<file, unit, editor>>

Start ==
    /\ up = "down"
    /\ up' = "loading"
    /\ loader' = [loader EXCEPT ![Startup] = [Idle EXCEPT !.stage = "load"]]
    /\ UNCHANGED <<file, model, commit, inbox, kernel, editor, reconciled, count>>

ForeignWrite ==
    /\ MayWrite
    /\ count.foreign < MaxForeign
    /\ count' = [count EXCEPT !.foreign = @ + 1]
    /\ \/ file' = Broken
       \/ file' = Absent
       \/ \E f \in Fields, v \in Values, tidy \in BOOLEAN :
             file' = Text([file.config EXCEPT !.settings[f] = v], tidy)
       \/ file' = Text([file.config EXCEPT !.killSwitch = ~@], TRUE)
    /\ UNCHANGED <<model, up, commit, loader, inbox, kernel, editor, reconciled>>

(***************************************************************************)
(* The main loop broadcasts the model after each message; the client reads *)
(* the snapshot some time later.                                           *)
(***************************************************************************)
ReadSnapshot ==
    /\ InLoop
    /\ shown' = config
    /\ UNCHANGED <<file, model, up, commit, loader, inbox, kernel, session, reply,
                   reconciled, count>>

OpenEditor ==
    /\ session.state = "closed"
    /\ session.id < MaxSubmits
    /\ session' = [state |-> "editing", opened |-> shown, base |-> shown,
                   doc |-> shown, touched |-> {}, id |-> session.id]
    /\ UNCHANGED <<file, model, up, commit, loader, inbox, kernel, shown, reply,
                   reconciled, count>>

EditDocument ==
    /\ session.state = "editing"
    /\ count.edits < MaxEdits
    /\ count' = [count EXCEPT !.edits = @ + 1]
    /\ \/ \E f \in Fields, v \in Values :
             session' = [session EXCEPT !.doc = [@ EXCEPT !.settings[f] = v],
                                        !.touched = @ \union {f}]
       \/ \E k \in BOOLEAN :
             session' = [session EXCEPT !.doc = [@ EXCEPT !.killSwitch = k]]
    /\ UNCHANGED <<file, model, up, commit, loader, inbox, kernel, shown, reply,
                   reconciled>>

(***************************************************************************)
(* The user leaves the editor: an unchanged document ends the session, any *)
(* other is sent to the daemon.                                            *)
(***************************************************************************)
SubmitEdit ==
    /\ session.state = "editing"
    /\ \/ /\ session.doc = session.opened
          /\ session' = Closed(session.id)
          /\ UNCHANGED inbox
       \/ /\ session.doc # session.opened
          /\ session.id < MaxSubmits
          /\ up = "loop"
          /\ session' = [session EXCEPT !.state = "waiting", !.id = @ + 1]
          /\ inbox' = Append(inbox, [type |-> "edit", base |-> session.base,
                                     edited |-> session.doc, own |-> session.touched,
                                     id |-> session.id + 1])
       \/ /\ session.doc # session.opened
          /\ up # "loop"
          /\ session' = Closed(session.id)
          /\ UNCHANGED inbox
    /\ UNCHANGED <<file, model, up, commit, loader, kernel, shown, reply, reconciled,
                   count>>

(***************************************************************************)
(* The answer is only taken by the request it belongs to; an answer to a   *)
(* request that timed out is dropped.                                      *)
(***************************************************************************)
TakeReply ==
    /\ session.state = "waiting"
    /\ reply # None
    /\ reply.id = session.id
    /\ reply' = None
    /\ \/ session' = Closed(session.id)
       \/ /\ reply.result = "conflict"
          /\ \E doc \in ConflictDocuments(session.base, reply.current, session.doc) :
                session' = [session EXCEPT !.state = "editing",
                                           !.base = reply.current, !.doc = doc]
    /\ UNCHANGED <<file, model, up, commit, loader, inbox, kernel, shown, reconciled,
                   count>>

ReplyTimeout ==
    /\ session.state = "waiting"
    /\ session' = Closed(session.id)
    /\ UNCHANGED <<file, model, up, commit, loader, inbox, kernel, shown, reply,
                   reconciled, count>>

-----------------------------------------------------------------------------
Init ==
    /\ file \in {Absent} \union {Text([Default EXCEPT !.killSwitch = k], TRUE) : k \in BOOLEAN}
    /\ config = Default
    /\ unsaved = None
    /\ blocked = FALSE
    /\ pending = None
    /\ up = "down"
    /\ commit = NoCommit
    /\ loader = [l \in Loaders |-> Idle]
    /\ inbox = <<>>
    /\ helper = None
    /\ unit = FALSE
    /\ shown = Default
    /\ session = Closed(0)
    /\ reply = None
    /\ reconciled = FALSE
    /\ confirmed = {}
    /\ count = [changes |-> 0, foreign |-> 0, reloads |-> 0, failures |-> 0, crashes |-> 0,
                edits |-> 0]

CommitNext == CommitRead \/ CommitConflict \/ CommitRefused \/ CommitError
              \/ CommitVerify \/ CommitPublish

LoaderNext(l) == LoadRead(l) \/ LoadVerify(l) \/ LoadPublish(l) \/ LoadHwid(l)
                 \/ LoadError(l) \/ LoadSend(l)

LoopNext ==
    \/ \E v \in Values : \/ ConfirmConnected(v)
                         \/ \E f \in Fields : RequestChange(f, v)
    \/ SetKillSwitch
    \/ OnKillSwitchApplied
    \/ \E w \in Workers : Reload(w)
    \/ OnConfigReloaded
    \/ OnApplyEditedConfig
    \/ ModelNew
    \/ ReconcileKillSwitch

EditorNext == ReadSnapshot \/ OpenEditor \/ EditDocument \/ SubmitEdit \/ TakeReply
              \/ ReplyTimeout

Next ==
    \/ CommitNext
    \/ \E l \in Loaders : LoaderNext(l)
    \/ LoopNext
    \/ ApplyKillSwitch
    \/ Crash
    \/ Start
    \/ ForeignWrite
    \/ EditorNext

Spec == Init /\ [][Next]_vars

-----------------------------------------------------------------------------
(* Properties *)

(***************************************************************************)
(* A write of the daemon changes only the fields its change is about: a    *)
(* save the fields the user or a confirmation changed, an editor's         *)
(* document the fields the user touched (also after resolving conflicts),  *)
(* a loader's write nothing but a missing HWID.  What other programs and   *)
(* earlier saves wrote stays (commit_config_change, load_config).          *)
(***************************************************************************)
OwnFieldsOnly ==
    [][(file' # file /\ file.kind # "absent" /\ count'.foreign = count.foreign) =>
         \A f \in Fields : file'.config.settings[f] # file.config.settings[f] =>
            IF commit' # commit THEN f \in commit.own ELSE f = Hwid]_vars

(***************************************************************************)
(* The next save of the main loop writes the confirmed state that an       *)
(* earlier save could not write (unsaved_state_merge_base).                *)
(***************************************************************************)
NextSaveKeepsConfirmed ==
    [][(commit.kind \in {"save", "confirm"} /\ commit.stage = "publish" /\ file' # file
          /\ unsaved # None /\ commit' # commit) =>
         \A f \in confirmed : config.settings[f] # unsaved.settings[f] =>
            file'.config.settings[f] = config.settings[f]]_vars

(***************************************************************************)
(* Once startup has read the unit's state, the model's kill switch is that *)
(* of the unit whenever no result of the helper is on its way: no reload,  *)
(* edit, merge, failed save or restart changes it                          *)
(* (handle_config_reloaded, commit_edited, reconcile_kill_switch_state).   *)
(***************************************************************************)
InFlight == \E i \in 1..Len(inbox) : inbox[i].type = "killswitch"

KillSwitchFollowsUnit ==
    (InLoop /\ reconciled /\ ~InFlight) => config.killSwitch = unit

(***************************************************************************)
(* Every commit writes the model's kill switch to the file, whatever the   *)
(* file, the document or an older base says (commit_config_change).        *)
(***************************************************************************)
CommitsWriteKillSwitch ==
    [][(commit.stage = "publish" /\ commit'.stage = "none" /\ file' # file
          /\ reconciled /\ ~InFlight) => file'.config.killSwitch = unit]_vars

-----------------------------------------------------------------------------
(* The inductive invariant of the proofs *)

ChangesOnly(old, new, own) ==
    \A f \in Fields : new.settings[f] # old.settings[f] => f \in own

Saving == commit.stage # "none" /\ commit.kind \in {"save", "confirm"}

\* What is about to be written changes only the fields it is about: a commit in
\* progress, confirmed state waiting for the next save, an edit on its way and
\* the document in the editor.
CommitOwn == commit.stage # "none" => ChangesOnly(commit.base, commit.edited, commit.own)

UnsavedOwn ==
    unsaved # None => /\ up = "loop"
                      /\ ~Saving => ChangesOnly(unsaved, config, confirmed)

SavingOwn ==
    Saving => /\ config = commit.edited
              /\ unsaved = None => commit.base = commit.before
              /\ unsaved # None => /\ commit.base = unsaved
                                  /\ ChangesOnly(unsaved, commit.before, confirmed)

InboxOwn ==
    \A i \in 1..Len(inbox) : inbox[i].type = "edit" =>
        ChangesOnly(inbox[i].base, inbox[i].edited, inbox[i].own)

SessionOwn ==
    session.state # "closed" => ChangesOnly(session.base, session.doc, session.touched)

OwnInv == CommitOwn /\ UnsavedOwn /\ SavingOwn /\ InboxOwn /\ SessionOwn

\* One writer at a time is between its check and its rename, and the file is
\* still what it checked.
PublishInv ==
    ~RenameRaces =>
        /\ commit.stage = "publish" => /\ file = commit.expected
                                       /\ \A l \in Loaders : loader[l].stage # "publish"
        /\ \A l \in Loaders : loader[l].stage = "publish" =>
              /\ file = loader[l].text
              /\ \A k \in Loaders : loader[k].stage = "publish" => k = l

\* Only a missing HWID is generated and written.
HwidInv == \A l \in Loaders : loader[l].stage = "hwid" => Hwid \in Fields

\* At most one run of the kill-switch helper is on its way, and it is the one
\* the model waits for.
HelperInv ==
    /\ up # "loop" => helper = None /\ ~InFlight
    /\ helper # None => pending = helper /\ ~InFlight
    /\ \A i \in 1..Len(inbox) : inbox[i].type = "killswitch" =>
          /\ pending = inbox[i].enabled
          /\ \A j \in 1..Len(inbox) : inbox[j].type = "killswitch" => j = i

\* The model differs from the unit only while the result that says so is in
\* the inbox.
UnitInv ==
    (up = "loop" /\ reconciled) =>
        /\ ~InFlight => config.killSwitch = unit
        /\ \A i \in 1..Len(inbox) : inbox[i].type = "killswitch" =>
              unit = IF inbox[i].ok THEN inbox[i].enabled ELSE config.killSwitch

\* A commit carries the kill switch of the model, the startup's that of the
\* unit.
CommitSwitch ==
    /\ (commit.stage # "none" /\ commit.kind = "reconcile") =>
          up = "reconcile" /\ commit.edited.killSwitch = unit
    /\ (commit.stage # "none" /\ commit.kind # "reconcile") =>
          up = "loop" /\ commit.edited.killSwitch = config.killSwitch
    /\ (commit.stage # "none" /\ commit.kind = "save") =>
          commit.before.killSwitch = config.killSwitch

KillSwitchInv == HelperInv /\ UnitInv /\ CommitSwitch

StoreInv == TypeOK /\ OwnInv /\ PublishInv /\ KillSwitchInv
=============================================================================
