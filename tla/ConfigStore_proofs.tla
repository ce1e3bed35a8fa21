------------------------- MODULE ConfigStore_proofs -------------------------
(***************************************************************************)
(* Proofs about ConfigStore for every set of fields, values and workers    *)
(* and every bound: its types, that StoreInv is inductive, and what        *)
(* follows from it: the daemon's writes change only the fields they are    *)
(* about, the next save keeps confirmed state, and the model's kill switch *)
(* is that of the unit.                                                    *)
(***************************************************************************)
EXTENDS ConfigStore, TLAPS

-----------------------------------------------------------------------------
(* What the operators return *)

\* Constant configurations and files are well typed.
LEMMA DefaultTypes ==
    /\ Default \in Config
    /\ FirstRunConfig \in Config
    /\ Broken \in Files
    /\ Absent \in Files
    /\ NoCommit \in Commits
    /\ Idle \in LoaderStates
<1>1. Default \in Config /\ FirstRunConfig \in Config
    BY FieldsAssumption DEF Default, FirstRunConfig, Config
<1>2. Broken \in Files /\ Absent \in Files
    BY <1>1 DEF Broken, Absent, Files
<1>3. NoCommit \in Commits
    BY <1>1, <1>2 DEF NoCommit, Commits
<1>4. Idle \in LoaderStates
    BY <1>1, <1>2 DEF Idle, LoaderStates
<1> QED
    BY <1>1, <1>2, <1>3, <1>4

\* A configuration with one field or its kill switch replaced is one.
LEMMA ConfigUpdate ==
    ASSUME NEW c \in Config
    PROVE  /\ c.killSwitch \in BOOLEAN
           /\ c.settings \in [Fields -> Values]
           /\ \A k \in BOOLEAN : [c EXCEPT !.killSwitch = k] \in Config
           /\ \A f \in Fields, v \in Values : [c EXCEPT !.settings[f] = v] \in Config
    BY DEF Config

\* A file holding a configuration is well typed.
LEMMA TextType ==
    ASSUME NEW c \in Config, NEW tidy \in BOOLEAN
    PROVE  Text(c, tidy) \in Files
    BY DEF Text, Files

\* The merge returns a configuration in which every field comes from the
\* current or, when the edit changed it, from the edited side.
LEMMA MergeCorrect ==
    ASSUME NEW base \in Config, NEW current \in Config, NEW edited \in Config
    PROVE  /\ Merge(base, current, edited) \in Config
           /\ Merge(base, current, edited).killSwitch = edited.killSwitch
           /\ \A f \in Fields :
                Merge(base, current, edited).settings[f] =
                    IF edited.settings[f] = base.settings[f]
                    THEN current.settings[f] ELSE edited.settings[f]
    BY DEF Config, Merge, MergeField

\* A document with resolved conflicts differs from the current configuration
\* only in fields the edit had changed.
LEMMA ConflictDocumentCorrect ==
    ASSUME NEW base \in Config, NEW current \in Config, NEW edited \in Config,
           NEW own, ChangesOnly(base, edited, own),
           NEW doc \in ConflictDocuments(base, current, edited)
    PROVE  doc \in Config /\ ChangesOnly(current, doc, own)
<1> DEFINE merged == Merge(base, current, edited)
           clash == Conflicts(base, current, edited)
<1>1. PICK mine \in SUBSET clash :
        doc = [killSwitch |-> MergeField(base.killSwitch, current.killSwitch,
                                         edited.killSwitch),
               settings |-> [f \in Fields |-> IF f \in mine \/ f \notin clash
                                              THEN merged.settings[f]
                                              ELSE current.settings[f]]]
    BY DEF ConflictDocuments
<1>2. merged \in Config
    BY MergeCorrect
<1>3. MergeField(base.killSwitch, current.killSwitch, edited.killSwitch) \in BOOLEAN
    BY DEF Config, MergeField
<1>4. doc \in Config
    <2> HIDE DEF merged, clash
    <2> QED BY <1>1, <1>2, <1>3 DEF Config
<1>5. ASSUME NEW f \in Fields, doc.settings[f] # current.settings[f]
      PROVE  f \in own
    <2>1. doc.settings[f] = merged.settings[f]
        <3> HIDE DEF merged, clash
        <3> QED BY <1>1, <1>5
    <2>2. edited.settings[f] # base.settings[f]
        BY <1>5, <2>1, MergeCorrect
    <2> QED BY <2>2 DEF ChangesOnly
<1> QED
    BY <1>4, <1>5 DEF ChangesOnly

\* A session whose document, base or state changes is well typed.
LEMMA SessionUpdate ==
    ASSUME NEW s \in Sessions
    PROVE  /\ [s EXCEPT !.state = "waiting", !.id = @ + 1] \in Sessions
           /\ \A d \in Config : [s EXCEPT !.doc = d] \in Sessions
           /\ \A d \in Config, f \in Fields :
                [s EXCEPT !.doc = d, !.touched = @ \union {f}] \in Sessions
           /\ \A b, d \in Config :
                [s EXCEPT !.state = "editing", !.base = b, !.doc = d] \in Sessions
<1>1. /\ s.id + 1 \in Nat
      /\ \A f \in Fields : s.touched \union {f} \in SUBSET Fields
    BY DEF Sessions
<1>2. [s EXCEPT !.state = "waiting", !.id = @ + 1] \in Sessions
    BY <1>1 DEF Sessions
<1>3. \A d \in Config : [s EXCEPT !.doc = d] \in Sessions
    BY DEF Sessions
<1>4. \A d \in Config, f \in Fields :
         [s EXCEPT !.doc = d, !.touched = @ \union {f}] \in Sessions
    BY <1>1 DEF Sessions
<1>5. \A b, d \in Config :
         [s EXCEPT !.state = "editing", !.base = b, !.doc = d] \in Sessions
    BY DEF Sessions
<1> QED
    BY <1>2, <1>3, <1>4, <1>5

-----------------------------------------------------------------------------
(* Types *)

\* The initial state is well typed.
LEMMA InitTypes == Init => TypeOK
<1> SUFFICES ASSUME Init PROVE TypeOK
    OBVIOUS
<1>1. file \in Files
    BY DefaultTypes, ConfigUpdate, TextType DEF Init
<1>2. session \in Sessions
    BY DefaultTypes DEF Init, Closed, Sessions
<1>3. count \in Counters
    BY DEF Init, Counters
<1>4. inbox \in Seq(Messages)
    BY DEF Init
<1> QED
    BY <1>1, <1>2, <1>3, <1>4, DefaultTypes DEF Init, TypeOK

\* A step of a commit (commit_config_change and what its callers do with the
\* result) keeps the types.
LEMMA CommitTypes ==
    ASSUME TypeOK, CommitNext
    PROVE  TypeOK'
<1> USE DefaultTypes DEF TypeOK
<1>0. /\ commit.before \in Config /\ commit.base \in Config /\ commit.edited \in Config
      /\ commit.own \in SUBSET Fields /\ commit.id \in Nat /\ commit.expected \in Files
      /\ commit.edited.killSwitch \in BOOLEAN
      /\ commit.expected.config \in Config
      /\ file.config \in Config
    BY DEF Commits, Files, Config
<1>1. ASSUME NEW result \in {"saved", "conflict", "failed"}, NEW current \in Config,
             Answer(result, current)
      PROVE  reply' \in Replies
    BY <1>0, <1>1 DEF Answer, Replies
<1>2. ASSUME NEW result \in {"conflict", "failed"}, NEW current \in Config,
             CommitFailed(result, current), count' \in Counters
      PROVE  TypeOK'
    <2>1. config' \in Config
        BY <1>0, <1>2, ConfigUpdate DEF CommitFailed
    <2>2. reply' \in Replies \union {None}
        BY <1>1, <1>2 DEF CommitFailed
    <2> QED
        BY <1>0, <1>2, <2>1, <2>2 DEF CommitFailed, kernel
<1>3. CASE CommitRead
    <2>1. commit' \in Commits
        BY <1>3 DEF CommitRead, Commits
    <2> QED
        BY <1>3, <2>1 DEF CommitRead, model, kernel, editor
<1>4. CASE CommitConflict
    BY <1>0, <1>2, <1>4 DEF CommitConflict
<1>5. CASE CommitRefused
    BY <1>2, <1>5 DEF CommitRefused
<1>6. CASE CommitError
    <2>1. count' \in Counters
        BY <1>6 DEF CommitError, Fails, Counters
    <2> QED
        BY <1>2, <1>6, <2>1 DEF CommitError
<1>7. CASE CommitVerify
    <2>1. commit' \in Commits
        BY <1>7 DEF CommitVerify, Commits
    <2> QED
        BY <1>7, <2>1 DEF CommitVerify, model, kernel, editor
<1>8. CASE CommitPublish
    <2> DEFINE merged == Merge(commit.base, commit.expected.config, commit.edited)
    <2>1. merged \in Config
        BY <1>0, MergeCorrect
    <2> HIDE DEF merged
    <2>2. file' \in Files
        BY <1>8, <2>1, TextType DEF CommitPublish, merged
    <2>3. config' \in Config
        BY <1>8, <2>1, ConfigUpdate DEF CommitPublish, HandleConfigReloaded, ReloadedConfig,
                                        merged
    <2>4. reply' \in Replies \union {None}
        BY <1>1, <1>8 DEF CommitPublish
    <2> QED
        BY <1>8, <2>2, <2>3, <2>4 DEF CommitPublish, HandleConfigReloaded, kernel
<1> QED
    BY <1>3, <1>4, <1>5, <1>6, <1>7, <1>8 DEF CommitNext

\* A step of load_config keeps the types.
LEMMA LoaderTypes ==
    ASSUME TypeOK, NEW l \in Loaders, LoaderNext(l)
    PROVE  TypeOK'
<1> USE DefaultTypes DEF TypeOK
<1>0. /\ file.config \in Config
      /\ loader[l] \in LoaderStates
      /\ loader[l].text.config \in Config /\ loader[l].result \in Config
      /\ loader[l].ok \in BOOLEAN
    BY DEF Files, LoaderStates
<1>1. ASSUME NEW c \in Config, Loaded(l, c)
      PROVE  loader' \in [Loaders -> LoaderStates]
    <2>1. CASE HasHwid(c)
        BY <1>1, <2>1 DEF Loaded, LoaderStates
    <2>2. CASE ~HasHwid(c)
        <3>1. PICK id \in Values :
                loader' = [loader EXCEPT ![l].stage = "hwid", ![l].ok = TRUE,
                                         ![l].result = [c EXCEPT !.settings[Hwid] = id]]
            BY <1>1, <2>2 DEF Loaded
        <3>2. [c EXCEPT !.settings[Hwid] = id] \in Config
            BY <2>2, ConfigUpdate DEF HasHwid
        <3> QED
            BY <3>1, <3>2 DEF LoaderStates
    <2> QED
        BY <2>1, <2>2
<1>2. ASSUME LoadFailed(l)
      PROVE  loader' \in [Loaders -> LoaderStates]
    BY <1>2 DEF LoadFailed, LoaderStates
<1>3. CASE LoadRead(l)
    <2>1. loader' \in [Loaders -> LoaderStates]
        <3>1. CASE file.kind = "text" /\ ~file.tidy
            BY <1>3, <3>1 DEF LoadRead, LoaderStates
        <3>2. CASE ~(file.kind = "text" /\ ~file.tidy)
            BY <1>0, <1>1, <1>2, <1>3, <3>2 DEF LoadRead
        <3> QED
            BY <3>1, <3>2
    <2> QED
        BY <1>3, <2>1 DEF LoadRead, model, kernel, editor
<1>4. CASE LoadVerify(l)
    <2>1. loader' \in [Loaders -> LoaderStates]
        BY <1>2, <1>4 DEF LoadVerify, LoaderStates
    <2> QED
        BY <1>4, <2>1 DEF LoadVerify, model, kernel, editor
<1>5. CASE LoadPublish(l)
    <2>1. loader' \in [Loaders -> LoaderStates]
        BY <1>0, <1>1, <1>5 DEF LoadPublish
    <2>2. file' \in Files
        BY <1>0, <1>5, TextType DEF LoadPublish
    <2> QED
        BY <1>5, <2>1, <2>2 DEF LoadPublish, model, kernel, editor
<1>6. CASE LoadHwid(l)
    <2>1. loader' \in [Loaders -> LoaderStates]
        BY <1>6 DEF LoadHwid, LoaderStates
    <2>2. file' \in Files
        BY <1>0, <1>6, TextType DEF LoadHwid
    <2> QED
        BY <1>6, <2>1, <2>2 DEF LoadHwid, model, kernel, editor
<1>7. CASE LoadError(l)
    <2>1. count' \in Counters
        BY <1>7 DEF LoadError, Fails, Counters
    <2> QED
        BY <1>2, <1>7, <2>1 DEF LoadError, model, kernel, editor
<1>8. CASE LoadSend(l)
    <2>1. [type |-> "reloaded", ok |-> loader[l].ok, config |-> loader[l].result] \in Messages
        BY <1>0 DEF Messages
    <2>2. inbox' \in Seq(Messages)
        BY <1>8, <2>1 DEF LoadSend
    <2> QED
        BY <1>8, <2>2 DEF LoadSend, model, kernel, editor
<1> QED
    BY <1>3, <1>4, <1>5, <1>6, <1>7, <1>8 DEF LoaderNext

\* A message handled by the main loop, the startup and the kill-switch worker
\* keep the types.
LEMMA LoopTypes ==
    ASSUME TypeOK, LoopNext \/ ApplyKillSwitch
    PROVE  TypeOK'
<1> USE DefaultTypes DEF TypeOK
<1>0. /\ MergeBase \in Config
      /\ config.killSwitch \in BOOLEAN
    BY ConfigUpdate DEF MergeBase
<1>1. ASSUME NEW kind \in {"save", "confirm", "edit", "reconcile"}, NEW base \in Config,
             NEW edited \in Config, NEW own \in SUBSET Fields, NEW id \in Nat,
             BeginCommit(kind, base, edited, own, id)
      PROVE  commit' \in Commits
    BY <1>1 DEF BeginCommit, Commits
<1>2. ASSUME inbox # <<>>
      PROVE  Head(inbox) \in Messages /\ Tail(inbox) \in Seq(Messages)
    BY <1>2
<1>3. ASSUME NEW v \in Values, ConfirmConnected(v)
      PROVE  TypeOK'
    <2>1. config' \in Config
        BY <1>3, FieldsAssumption, ConfigUpdate DEF ConfirmConnected
    <2>2. commit' \in Commits
        BY <1>0, <1>1, <1>3, <2>1, FieldsAssumption DEF ConfirmConnected
    <2>3. count' \in Counters
        BY <1>3 DEF ConfirmConnected, Counters
    <2> QED
        BY <1>3, <2>1, <2>2, <2>3 DEF ConfirmConnected, kernel, editor
<1>4. ASSUME NEW v \in Values, NEW f \in Fields, RequestChange(f, v)
      PROVE  TypeOK'
    <2>1. config' \in Config
        BY <1>4, ConfigUpdate DEF RequestChange
    <2>2. commit' \in Commits
        BY <1>0, <1>1, <1>4, <2>1 DEF RequestChange
    <2>3. count' \in Counters
        BY <1>4 DEF RequestChange, Counters
    <2> QED
        BY <1>4, <2>1, <2>2, <2>3 DEF RequestChange, kernel, editor
<1>5. CASE SetKillSwitch
    <2>1. count' \in Counters
        BY <1>5 DEF SetKillSwitch, Counters
    <2> QED
        BY <1>0, <1>5, <2>1 DEF SetKillSwitch, editor
<1>6. CASE OnKillSwitchApplied
    <2>1. inbox' \in Seq(Messages)
        BY <1>2, <1>6 DEF OnKillSwitchApplied
    <2>2. Head(inbox).enabled \in BOOLEAN
        BY <1>2, <1>6 DEF OnKillSwitchApplied, Messages
    <2>3. config' \in Config
        BY <1>6, <2>2, ConfigUpdate DEF OnKillSwitchApplied
    <2>4. commit' \in Commits
        BY <1>0, <1>1, <1>6, <2>3 DEF OnKillSwitchApplied
    <2>5. pending' \in BOOLEAN \union {None}
        BY <1>6 DEF OnKillSwitchApplied
    <2> QED
        BY <1>6, <2>1, <2>3, <2>4, <2>5 DEF OnKillSwitchApplied, kernel, editor
<1>7. ASSUME NEW w \in Workers, Reload(w)
      PROVE  TypeOK'
    <2>1. loader' \in [Loaders -> LoaderStates]
        BY <1>7 DEF Reload, LoaderStates, Loaders
    <2>2. count' \in Counters
        BY <1>7 DEF Reload, Counters
    <2> QED
        BY <1>7, <2>1, <2>2 DEF Reload, model, kernel, editor
<1>8. CASE OnConfigReloaded
    <2>1. inbox' \in Seq(Messages)
        BY <1>2, <1>8 DEF OnConfigReloaded
    <2>2. Head(inbox).config \in Config
        BY <1>2, <1>8 DEF OnConfigReloaded, Messages
    <2>3. CASE Head(inbox).ok
        <3>1. config' \in Config
            BY <1>0, <1>8, <2>2, <2>3, ConfigUpdate
            DEF OnConfigReloaded, HandleConfigReloaded, ReloadedConfig
        <3> QED
            BY <1>8, <2>1, <2>3, <3>1 DEF OnConfigReloaded, HandleConfigReloaded, kernel, editor
    <2>4. CASE ~Head(inbox).ok
        BY <1>8, <2>1, <2>4 DEF OnConfigReloaded, model, kernel, editor
    <2> QED
        BY <2>3, <2>4
<1>9. CASE OnApplyEditedConfig
    <2>1. inbox' \in Seq(Messages)
        BY <1>2, <1>9 DEF OnApplyEditedConfig
    <2>2. /\ Head(inbox).base \in Config /\ Head(inbox).edited \in Config
          /\ Head(inbox).own \in SUBSET Fields /\ Head(inbox).id \in Nat
        BY <1>2, <1>9 DEF OnApplyEditedConfig, Messages
    <2>3. [Head(inbox).edited EXCEPT !.killSwitch = config.killSwitch] \in Config
        BY <1>0, <2>2, ConfigUpdate
    <2>4. commit' \in Commits
        BY <1>1, <1>9, <2>2, <2>3 DEF OnApplyEditedConfig
    <2>5. reply' \in Replies \union {None}
        BY <1>9, <2>2 DEF OnApplyEditedConfig, Replies
    <2> QED
        BY <1>9, <2>1, <2>4, <2>5 DEF OnApplyEditedConfig, model, kernel
<1>10. CASE ModelNew
    <2>1. loader[Startup].result \in Config
        BY DEF LoaderStates, Loaders
    <2>2. loader' \in [Loaders -> LoaderStates]
        BY <1>10 DEF ModelNew
    <2> QED
        BY <1>10, <2>1, <2>2 DEF ModelNew, kernel, editor
<1>11. CASE ReconcileKillSwitch
    <2>1. [config EXCEPT !.killSwitch = unit] \in Config
        BY ConfigUpdate
    <2>2. commit' \in Commits
        BY <1>1, <1>11, <2>1 DEF ReconcileKillSwitch
    <2>3. count' \in Counters
        BY <1>11 DEF ReconcileKillSwitch, Fails, Counters
    <2> QED
        BY <1>11, <2>2, <2>3 DEF ReconcileKillSwitch, model, kernel, editor
<1>12. CASE ApplyKillSwitch
    <2>1. helper \in BOOLEAN
        BY <1>12 DEF ApplyKillSwitch
    <2>2. /\ [type |-> "killswitch", ok |-> TRUE, enabled |-> helper] \in Messages
          /\ [type |-> "killswitch", ok |-> FALSE, enabled |-> helper] \in Messages
        BY <2>1 DEF Messages
    <2>3. inbox' \in Seq(Messages)
        BY <1>12, <2>2 DEF ApplyKillSwitch
    <2>4. count' \in Counters
        BY <1>12 DEF ApplyKillSwitch, Fails, Counters
    <2> QED
        BY <1>12, <2>1, <2>3, <2>4 DEF ApplyKillSwitch, model, editor
<1> QED
    BY <1>3, <1>4, <1>5, <1>6, <1>7, <1>8, <1>9, <1>10, <1>11, <1>12 DEF LoopNext

\* A crash, a start, another program's write and the editor keep the types.
LEMMA OutsideTypes ==
    ASSUME TypeOK, Crash \/ Start \/ ForeignWrite \/ EditorNext
    PROVE  TypeOK'
<1> USE DefaultTypes DEF TypeOK
<1>0. /\ session.base \in Config /\ session.doc \in Config /\ session.opened \in Config
      /\ session.touched \in SUBSET Fields /\ session.id \in Nat
      /\ session.doc.killSwitch \in BOOLEAN
      /\ file.config \in Config /\ file.config.killSwitch \in BOOLEAN
    BY DEF Sessions, Files, Config
<1>1. \A id \in Nat : Closed(id) \in Sessions
    BY DEF Closed, Sessions
<1>2. CASE Crash
    <2>1. count' \in Counters
        BY <1>2 DEF Crash, Counters
    <2>2. loader' \in [Loaders -> LoaderStates]
        BY <1>2 DEF Crash
    <2>3. inbox' \in Seq(Messages)
        BY <1>2 DEF Crash
    <2>4. commit' \in Commits /\ config' \in Config
        BY <1>2 DEF Crash
    <2> QED
        BY <1>2, <2>1, <2>2, <2>3, <2>4 DEF Crash, editor
<1>3. CASE Start
    <2>1. loader' \in [Loaders -> LoaderStates]
        BY <1>3 DEF Start, LoaderStates, Loaders
    <2> QED
        BY <1>3, <2>1 DEF Start, model, kernel, editor
<1>4. CASE ForeignWrite
    <2>1. \A k \in BOOLEAN : Text([file.config EXCEPT !.killSwitch = k], TRUE) \in Files
        BY <1>0, ConfigUpdate, TextType
    <2>2. \A f \in Fields, v \in Values, tidy \in BOOLEAN :
            Text([file.config EXCEPT !.settings[f] = v], tidy) \in Files
        BY <1>0, ConfigUpdate, TextType
    <2>3. file' \in Files
        BY <1>0, <1>4, <2>1, <2>2 DEF ForeignWrite
    <2>4. count' \in Counters
        BY <1>4 DEF ForeignWrite, Counters
    <2> QED
        BY <1>4, <2>3, <2>4 DEF ForeignWrite, model, kernel, editor
<1>5. CASE ReadSnapshot
    BY <1>5 DEF ReadSnapshot, model, kernel
<1>6. CASE OpenEditor
    <2>1. session' \in Sessions
        BY <1>0, <1>6 DEF OpenEditor, Sessions
    <2> QED
        BY <1>6, <2>1 DEF OpenEditor, model, kernel
<1>7. CASE EditDocument
    <2>1. \A f \in Fields, v \in Values : [session.doc EXCEPT !.settings[f] = v] \in Config
        BY <1>0, ConfigUpdate
    <2>2. \A k \in BOOLEAN : [session.doc EXCEPT !.killSwitch = k] \in Config
        BY <1>0, ConfigUpdate
    <2>3. ASSUME NEW f \in Fields, NEW v \in Values,
                 session' = [session EXCEPT !.doc = [@ EXCEPT !.settings[f] = v],
                                            !.touched = @ \union {f}]
          PROVE  session' \in Sessions
        BY <2>1, <2>3, SessionUpdate
    <2>4. ASSUME NEW k \in BOOLEAN,
                 session' = [session EXCEPT !.doc = [@ EXCEPT !.killSwitch = k]]
          PROVE  session' \in Sessions
        BY <2>2, <2>4, SessionUpdate
    <2>5. count' = [count EXCEPT !.edits = @ + 1]
        BY <1>7 DEF EditDocument
    <2>6. count' \in Counters
        BY <2>5 DEF Counters
    <2>7. session' \in Sessions
        BY <1>7, <2>3, <2>4 DEF EditDocument
    <2> QED
        BY <1>7, <2>6, <2>7 DEF EditDocument, model, kernel
<1>8. CASE SubmitEdit
    <2>1. [type |-> "edit", base |-> session.base, edited |-> session.doc,
           own |-> session.touched, id |-> session.id + 1] \in Messages
        BY <1>0 DEF Messages
    <2>2. inbox' \in Seq(Messages)
        BY <1>8, <2>1 DEF SubmitEdit
    <2>3. [session EXCEPT !.state = "waiting", !.id = @ + 1] \in Sessions
        BY SessionUpdate
    <2>4. session' \in Sessions
        BY <1>0, <1>1, <1>8, <2>3 DEF SubmitEdit
    <2> QED
        BY <1>8, <2>2, <2>4 DEF SubmitEdit, model, kernel
<1>9. CASE TakeReply
    <2>1. CASE session' = Closed(session.id)
        BY <1>0, <1>1, <1>9, <2>1 DEF TakeReply, model, kernel
    <2>2. CASE session' # Closed(session.id)
        <3>1. reply.current \in Config
            BY <1>9 DEF TakeReply, Replies
        <3>2. PICK doc \in ConflictDocuments(session.base, reply.current, session.doc) :
                session' = [session EXCEPT !.state = "editing", !.base = reply.current,
                                           !.doc = doc]
            BY <1>9, <2>2 DEF TakeReply
        <3>3. doc \in Config
            BY <1>0, <3>1, ConflictDocumentCorrect DEF ChangesOnly
        <3>4. session' \in Sessions
            BY <3>1, <3>2, <3>3, SessionUpdate
        <3> QED
            BY <1>9, <3>4 DEF TakeReply, model, kernel
    <2> QED
        BY <2>1, <2>2
<1>10. CASE ReplyTimeout
    BY <1>0, <1>1, <1>10 DEF ReplyTimeout, model, kernel
<1> QED
    BY <1>2, <1>3, <1>4, <1>5, <1>6, <1>7, <1>8, <1>9, <1>10 DEF EditorNext

\* Every step keeps the types.
LEMMA NextTypes == TypeOK /\ [Next]_vars => TypeOK'
<1> SUFFICES ASSUME TypeOK, [Next]_vars PROVE TypeOK'
    OBVIOUS
<1>1. CASE Next
    BY <1>1, CommitTypes, LoaderTypes, LoopTypes, OutsideTypes DEF Next
<1>2. CASE UNCHANGED vars
    BY <1>2 DEF TypeOK, vars, model, kernel, editor
<1> QED
    BY <1>1, <1>2

\* The variables of the configuration store always have their types.
THEOREM StoreTypeCorrect == Spec => []TypeOK
    BY InitTypes, NextTypes, PTL DEF Spec

-----------------------------------------------------------------------------
(* Safety.                                                                 *)

\* What the ends of a queue of messages are.
LEMMA QueueFacts ==
    ASSUME NEW s \in Seq(Messages)
    PROVE  /\ Len(s) \in Nat
           /\ s # <<>> => /\ Len(s) > 0
                          /\ Head(s) = s[1]
                          /\ Len(Tail(s)) = Len(s) - 1
                          /\ \A i \in 1..Len(s) - 1 : Tail(s)[i] = s[i + 1]
           /\ \A m \in Messages : /\ Len(Append(s, m)) = Len(s) + 1
                                  /\ Append(s, m)[Len(s) + 1] = m
                                  /\ \A i \in 1..Len(s) : Append(s, m)[i] = s[i]
    OBVIOUS

\* The commit in progress keeps the invariant, whether it succeeds or fails.
LEMMA CommitKeeps ==
    ASSUME StoreInv, TypeOK', CommitNext
    PROVE  StoreInv'
<1>t. /\ TypeOK /\ CommitOwn /\ UnsavedOwn /\ SavingOwn /\ InboxOwn /\ SessionOwn
      /\ PublishInv /\ HelperInv /\ UnitInv /\ CommitSwitch
    BY DEF StoreInv, OwnInv, KillSwitchInv
<1>0. /\ commit.before \in Config /\ commit.base \in Config /\ commit.edited \in Config
      /\ commit.expected.config \in Config
      /\ commit.kind \in {"save", "confirm", "edit", "reconcile"}
    BY <1>t DEF TypeOK, Commits, Files
<1>n. NoCommit.stage = "none"
    BY DEF NoCommit
<1>1. ASSUME NEW result, NEW current, CommitFailed(result, current), commit.stage # "none"
      PROVE  StoreInv'
    <2>1. CommitOwn' /\ SavingOwn' /\ InboxOwn' /\ SessionOwn'
        BY <1>1, <1>t, <1>n DEF CommitFailed, CommitOwn, SavingOwn, Saving, InboxOwn, SessionOwn
    <2>2. UnsavedOwn'
        <3>1. CASE commit.kind = "save"
            BY <1>1, <1>t, <1>n, <3>1
            DEF CommitFailed, CommitSwitch, UnsavedOwn, SavingOwn, Saving, ChangesOnly
        <3>2. CASE commit.kind = "confirm"
            BY <1>1, <1>t, <1>n, <3>2
            DEF CommitFailed, CommitSwitch, UnsavedOwn, SavingOwn, CommitOwn, Saving, ChangesOnly
        <3>3. CASE commit.kind = "edit"
            BY <1>1, <1>t, <1>n, <3>3
            DEF CommitFailed, CommitSwitch, UnsavedOwn, Saving, ChangesOnly
        <3>4. CASE commit.kind = "reconcile"
            BY <1>1, <1>t, <1>n, <3>4
            DEF CommitFailed, CommitSwitch, UnsavedOwn
        <3> QED
            BY <1>0, <3>1, <3>2, <3>3, <3>4
    <2>3. PublishInv'
        BY <1>1, <1>t, <1>n DEF CommitFailed, PublishInv
    <2>4. CommitSwitch'
        BY <1>1, <1>n DEF CommitFailed, CommitSwitch
    <2>5. HelperInv'
        BY <1>1, <1>t DEF CommitFailed, HelperInv, CommitSwitch, InFlight, kernel
    <2>6. UnitInv'
        <3>1. CASE commit.kind = "reconcile"
            BY <1>1, <1>t, <3>1
            DEF CommitFailed, UnitInv, HelperInv, CommitSwitch, InFlight, kernel, TypeOK, Config
        <3>2. CASE commit.kind # "reconcile"
            BY <1>1, <1>t, <3>2
            DEF CommitFailed, UnitInv, CommitSwitch, InFlight, kernel
        <3> QED
            BY <3>1, <3>2
    <2> QED
        BY <2>1, <2>2, <2>3, <2>4, <2>5, <2>6 DEF StoreInv, OwnInv, KillSwitchInv
<1>2. ASSUME NEW stage \in {"verify", "publish"}, commit.stage # "none",
             commit'.stage = stage, commit'.kind = commit.kind, commit'.base = commit.base,
             commit'.before = commit.before, commit'.edited = commit.edited,
             commit'.own = commit.own, PublishInv',
             UNCHANGED <<file, model, up, loader, inbox, kernel, editor, reconciled>>
      PROVE  StoreInv'
    <2>1. OwnInv'
        BY <1>2, <1>t
        DEF OwnInv, CommitOwn, UnsavedOwn, SavingOwn, Saving, InboxOwn, SessionOwn, ChangesOnly,
            model, editor
    <2>2. KillSwitchInv'
        BY <1>2, <1>t
        DEF KillSwitchInv, HelperInv, UnitInv, CommitSwitch, InFlight, model, kernel
    <2> QED
        BY <1>2, <2>1, <2>2 DEF StoreInv
<1>3. CASE CommitRead
    <2>1. /\ commit'.stage = "verify" /\ commit'.kind = commit.kind
          /\ commit'.base = commit.base /\ commit'.before = commit.before
          /\ commit'.edited = commit.edited /\ commit'.own = commit.own
        BY <1>3, <1>t DEF CommitRead, TypeOK, Commits
    <2>2. PublishInv'
        BY <1>3, <1>t, <2>1 DEF CommitRead, PublishInv
    <2> QED
        BY <1>2, <1>3, <2>1, <2>2 DEF CommitRead
<1>4. CASE CommitConflict
    BY <1>1, <1>4 DEF CommitConflict
<1>5. CASE CommitRefused
    BY <1>1, <1>5 DEF CommitRefused
<1>6. CASE CommitError
    BY <1>1, <1>6 DEF CommitError
<1>7. CASE CommitVerify
    <2>1. /\ commit'.stage = "publish" /\ commit'.kind = commit.kind
          /\ commit'.base = commit.base /\ commit'.before = commit.before
          /\ commit'.edited = commit.edited /\ commit'.own = commit.own
          /\ commit'.expected = commit.expected
        BY <1>7, <1>t DEF CommitVerify, TypeOK, Commits
    <2>2. PublishInv'
        BY <1>7, <1>t, <2>1 DEF CommitVerify, PublishInv, MayWrite, Publishing
    <2> QED
        BY <1>2, <1>7, <2>1, <2>2 DEF CommitVerify
<1>8. CASE CommitPublish
    <2> DEFINE merged == Merge(commit.base, commit.expected.config, commit.edited)
    <2>1. merged \in Config /\ merged.killSwitch = commit.edited.killSwitch
        BY <1>0, MergeCorrect
    <2> HIDE DEF merged
    <2>2. unsaved' = None
        BY <1>8, <1>t DEF CommitPublish, HandleConfigReloaded, UnsavedOwn, CommitSwitch
    <2>3. CommitOwn' /\ SavingOwn' /\ InboxOwn' /\ SessionOwn'
        BY <1>8, <1>t, <1>n DEF CommitPublish, CommitOwn, SavingOwn, Saving, InboxOwn, SessionOwn
    <2>4. PublishInv'
        BY <1>8, <1>t, <1>n DEF CommitPublish, PublishInv
    <2>5. CommitSwitch'
        BY <1>8, <1>n DEF CommitPublish, CommitSwitch
    <2>6. HelperInv'
        BY <1>8, <1>t DEF CommitPublish, HelperInv, CommitSwitch, InFlight, kernel
    <2>7. UnsavedOwn'
        BY <2>2 DEF UnsavedOwn
    <2>8. UnitInv'
        <3>1. config'.killSwitch = commit.edited.killSwitch
            BY <1>8, <1>t, <2>1
            DEF CommitPublish, CommitSwitch, HandleConfigReloaded, ReloadedConfig, merged, Config
        <3>2. CASE commit.kind = "reconcile"
            BY <1>8, <1>t, <3>1, <3>2
            DEF CommitPublish, UnitInv, HelperInv, CommitSwitch, InFlight, kernel
        <3>3. CASE commit.kind # "reconcile"
            BY <1>8, <1>t, <3>1, <3>3
            DEF CommitPublish, UnitInv, CommitSwitch, InFlight, kernel
        <3> QED
            BY <3>2, <3>3
    <2> QED
        BY <2>3, <2>4, <2>5, <2>6, <2>7, <2>8 DEF StoreInv, OwnInv, KillSwitchInv
<1> QED
    BY <1>3, <1>4, <1>5, <1>6, <1>7, <1>8 DEF CommitNext

\* Steps of load_config keep the invariant: without rename races nobody else
\* writes while a loader publishes.
LEMMA LoaderKeeps ==
    ASSUME StoreInv, TypeOK', NEW l \in Loaders, LoaderNext(l)
    PROVE  StoreInv'
<1>t. /\ TypeOK /\ OwnInv /\ PublishInv /\ KillSwitchInv
      /\ loader \in [Loaders -> LoaderStates] /\ inbox \in Seq(Messages)
    BY DEF StoreInv, TypeOK
<1>1. ASSUME UNCHANGED <<model, up, commit, inbox, kernel, editor, reconciled>>, PublishInv'
      PROVE  StoreInv'
    <2>1. OwnInv'
        BY <1>1, <1>t
        DEF OwnInv, CommitOwn, UnsavedOwn, SavingOwn, Saving, InboxOwn, SessionOwn, ChangesOnly,
            model, editor
    <2>2. KillSwitchInv'
        BY <1>1, <1>t
        DEF KillSwitchInv, HelperInv, UnitInv, CommitSwitch, InFlight, model, kernel
    <2> QED
        BY <1>1, <2>1, <2>2 DEF StoreInv
<1>2. ASSUME NEW c, Loaded(l, c)
      PROVE  /\ loader'[l].stage \in {"send", "hwid"}
             /\ \A k \in Loaders : k # l => loader'[k] = loader[k]
    BY <1>2, <1>t DEF Loaded, LoaderStates
<1>3. ASSUME LoadFailed(l)
      PROVE  /\ loader'[l].stage \in {"send", "hwid"}
             /\ \A k \in Loaders : k # l => loader'[k] = loader[k]
    BY <1>3, <1>t DEF LoadFailed, LoaderStates
<1>4. CASE LoadRead(l)
    <2>1. /\ loader'[l].stage # "publish"
          /\ \A k \in Loaders : k # l => loader'[k] = loader[k]
        <3>1. CASE file.kind = "text" /\ ~file.tidy
            BY <1>4, <1>t, <3>1 DEF LoadRead, LoaderStates
        <3>2. CASE ~(file.kind = "text" /\ ~file.tidy)
            BY <1>2, <1>3, <1>4, <3>2 DEF LoadRead
        <3> QED
            BY <3>1, <3>2
    <2>2. PublishInv'
        BY <1>4, <1>t, <2>1 DEF LoadRead, PublishInv
    <2> QED
        BY <1>1, <1>4, <2>2 DEF LoadRead
<1>5. CASE LoadVerify(l)
    <2>1. CASE file # loader[l].text
        <3>1. PublishInv'
            BY <1>3, <1>5, <1>t, <2>1 DEF LoadVerify, PublishInv
        <3> QED
            BY <1>1, <1>5, <3>1 DEF LoadVerify
    <2>2. CASE file = loader[l].text
        <3>1. loader' = [loader EXCEPT ![l].stage = "publish"] /\ MayWrite
            BY <1>5, <2>2 DEF LoadVerify
        <3>2. /\ loader'[l].text = loader[l].text
              /\ \A k \in Loaders : k # l => loader'[k] = loader[k]
            BY <1>t, <3>1 DEF LoaderStates
        <3>3. PublishInv'
            BY <1>5, <1>t, <2>2, <3>1, <3>2 DEF LoadVerify, PublishInv, MayWrite, Publishing
        <3> QED
            BY <1>1, <1>5, <3>3 DEF LoadVerify
    <2> QED
        BY <2>1, <2>2
<1>6. CASE LoadPublish(l)
    <2>1. PublishInv'
        BY <1>2, <1>6, <1>t DEF LoadPublish, PublishInv
    <2> QED
        BY <1>1, <1>6, <2>1 DEF LoadPublish
<1>7. CASE LoadHwid(l)
    <2>1. /\ loader'[l].stage = "send"
          /\ \A k \in Loaders : k # l => loader'[k] = loader[k]
        BY <1>7, <1>t DEF LoadHwid, LoaderStates
    <2>2. PublishInv'
        BY <1>7, <1>t, <2>1 DEF LoadHwid, PublishInv, MayWrite, Publishing
    <2> QED
        BY <1>1, <1>7, <2>2 DEF LoadHwid
<1>8. CASE LoadError(l)
    <2>1. PublishInv'
        BY <1>3, <1>8, <1>t DEF LoadError, PublishInv
    <2> QED
        BY <1>1, <1>8, <2>1 DEF LoadError
<1>9. CASE LoadSend(l)
    <2> DEFINE m == [type |-> "reloaded", ok |-> loader[l].ok, config |-> loader[l].result]
    <2>1. m \in Messages /\ m.type = "reloaded"
        BY <1>t DEF Messages, LoaderStates
    <2>2. inbox' = Append(inbox, m)
        BY <1>9 DEF LoadSend
    <2> HIDE DEF m
    <2>3. /\ Len(inbox') = Len(inbox) + 1
          /\ Len(inbox) \in Nat
          /\ inbox'[Len(inbox) + 1].type = "reloaded"
          /\ \A i \in 1..Len(inbox) : inbox'[i] = inbox[i]
        BY <1>t, <2>1, <2>2, QueueFacts
    <2>4. PublishInv'
        BY <1>9, <1>t DEF LoadSend, PublishInv, Idle
    <2>5. InboxOwn'
        BY <1>t, <2>3 DEF OwnInv, InboxOwn, ChangesOnly
    <2>6. CommitOwn' /\ UnsavedOwn' /\ SavingOwn' /\ SessionOwn'
        BY <1>9, <1>t
        DEF LoadSend, OwnInv, CommitOwn, UnsavedOwn, SavingOwn, Saving, SessionOwn, ChangesOnly,
            model, editor
    <2>7. InFlight' = InFlight
        BY <2>3 DEF InFlight
    <2>8. HelperInv' /\ UnitInv'
        BY <1>9, <1>t, <2>3, <2>7
        DEF LoadSend, KillSwitchInv, HelperInv, UnitInv, model, kernel
    <2>9. CommitSwitch'
        BY <1>9, <1>t DEF LoadSend, KillSwitchInv, CommitSwitch, model, kernel
    <2> QED
        BY <2>4, <2>5, <2>6, <2>8, <2>9 DEF StoreInv, OwnInv, KillSwitchInv
<1> QED
    BY <1>4, <1>5, <1>6, <1>7, <1>8, <1>9 DEF LoaderNext

\* The messages and inputs of the main loop, the startup and the kill-switch
\* worker keep the invariant.
LEMMA LoopKeeps ==
    ASSUME StoreInv, TypeOK', LoopNext \/ ApplyKillSwitch
    PROVE  StoreInv'
<1>t. /\ TypeOK /\ CommitOwn /\ UnsavedOwn /\ SavingOwn /\ InboxOwn /\ SessionOwn
      /\ PublishInv /\ HelperInv /\ UnitInv /\ CommitSwitch
      /\ inbox \in Seq(Messages) /\ config \in Config /\ commit \in Commits
      /\ loader \in [Loaders -> LoaderStates]
      /\ unsaved \in Config \union {None}
    BY DEF StoreInv, OwnInv, KillSwitchInv, TypeOK
<1>b. ASSUME NEW kind, NEW base, NEW edited, NEW own, NEW id,
             BeginCommit(kind, base, edited, own, id)
      PROVE  /\ commit'.stage = "read" /\ commit'.kind = kind /\ commit'.base = base
             /\ commit'.before = config /\ commit'.edited = edited /\ commit'.own = own
    BY <1>b DEF BeginCommit
<1>q. ASSUME inbox # <<>>, inbox' = Tail(inbox)
      PROVE  /\ Head(inbox) = inbox[1] /\ 1 \in 1..Len(inbox)
             /\ Len(inbox') = Len(inbox) - 1
             /\ \A i \in 1..Len(inbox') : i + 1 \in 1..Len(inbox) /\ inbox'[i] = inbox[i + 1]
             /\ InboxOwn'
    <2>1. /\ Head(inbox) = inbox[1] /\ 1 \in 1..Len(inbox)
          /\ Len(inbox') = Len(inbox) - 1
          /\ \A i \in 1..Len(inbox') : i + 1 \in 1..Len(inbox) /\ inbox'[i] = inbox[i + 1]
        BY <1>q, <1>t, QueueFacts
    <2> QED
        BY <1>t, <2>1 DEF InboxOwn, ChangesOnly
\* A change of one field, saved or confirmed.
<1>1. ASSUME NEW f \in Fields, NEW v \in Values, NEW kind \in {"save", "confirm"}, InLoop,
             config' = [config EXCEPT !.settings[f] = v],
             BeginCommit(kind, MergeBase, config', confirmed \union {f}, 0),
             UNCHANGED <<file, unsaved, blocked, pending, confirmed, up, loader, inbox,
                         kernel, editor, reconciled>>
      PROVE  StoreInv'
    <2>1. /\ config'.killSwitch = config.killSwitch
          /\ \A g \in Fields : g # f => config'.settings[g] = config.settings[g]
        BY <1>1, <1>t DEF Config
    <2>2. /\ commit'.stage = "read" /\ commit'.kind = kind /\ commit'.base = MergeBase
          /\ commit'.before = config /\ commit'.edited = config'
          /\ commit'.own = confirmed \union {f}
        BY <1>1, <1>b
    <2>3. commit.stage = "none" /\ up = "loop"
        BY <1>1 DEF InLoop
    <2>4. CommitOwn'
        BY <1>t, <2>1, <2>2, <2>3 DEF CommitOwn, UnsavedOwn, MergeBase, Saving, ChangesOnly
    <2>5. SavingOwn' /\ UnsavedOwn'
        BY <1>1, <1>t, <2>2, <2>3
        DEF SavingOwn, UnsavedOwn, MergeBase, Saving, ChangesOnly
    <2>6. InboxOwn' /\ SessionOwn'
        BY <1>1, <1>t DEF InboxOwn, SessionOwn, ChangesOnly, editor
    <2>7. PublishInv'
        BY <1>1, <1>t, <2>2 DEF PublishInv
    <2>8. HelperInv' /\ UnitInv' /\ CommitSwitch'
        BY <1>1, <1>t, <2>1, <2>2, <2>3
        DEF HelperInv, UnitInv, CommitSwitch, InFlight, kernel
    <2> QED
        BY <2>4, <2>5, <2>6, <2>7, <2>8 DEF StoreInv, OwnInv, KillSwitchInv
<1>2. ASSUME NEW v \in Values, ConfirmConnected(v)
      PROVE  StoreInv'
    BY <1>1, <1>2, FieldsAssumption DEF ConfirmConnected
<1>3. ASSUME NEW v \in Values, NEW f \in Fields, RequestChange(f, v)
      PROVE  StoreInv'
    BY <1>1, <1>3 DEF RequestChange
<1>4. CASE SetKillSwitch
    <2>1. OwnInv' /\ PublishInv'
        BY <1>4, <1>t
        DEF SetKillSwitch, OwnInv, CommitOwn, UnsavedOwn, SavingOwn, Saving, InboxOwn,
            SessionOwn, ChangesOnly, PublishInv, editor
    <2>2. ~InFlight
        BY <1>4, <1>t, NoneAssumption DEF SetKillSwitch, HelperInv, InFlight, Messages
    <2>3. HelperInv'
        BY <1>4, <1>t, <2>2 DEF SetKillSwitch, HelperInv, InFlight, InLoop
    <2>4. UnitInv' /\ CommitSwitch'
        BY <1>4, <1>t DEF SetKillSwitch, UnitInv, CommitSwitch, InFlight
    <2> QED
        BY <2>1, <2>3, <2>4 DEF StoreInv, KillSwitchInv
<1>5. CASE OnKillSwitchApplied
    <2>1. /\ commit.stage = "none" /\ up = "loop"
          /\ inbox # <<>> /\ inbox' = Tail(inbox) /\ Head(inbox).type = "killswitch"
          /\ UNCHANGED <<file, unsaved, blocked, confirmed, up, loader, kernel, editor,
                         reconciled>>
        BY <1>5 DEF OnKillSwitchApplied, InLoop
    <2>2. /\ inbox[1].type = "killswitch" /\ Head(inbox) = inbox[1] /\ 1 \in 1..Len(inbox)
          /\ InboxOwn'
          /\ \A i \in 1..Len(inbox') : i + 1 \in 1..Len(inbox) /\ inbox'[i] = inbox[i + 1]
        BY <1>q, <2>1
    <2>3. ~InFlight'
        BY <1>t, <2>2 DEF HelperInv, InFlight
    <2>4. pending = inbox[1].enabled /\ helper = None
        BY <1>t, <2>2 DEF HelperInv, InFlight
    <2>5. HelperInv'
        BY <2>1, <2>3, <2>4 DEF HelperInv, InFlight, kernel
    <2>6. SessionOwn'
        BY <2>1, <1>t DEF SessionOwn, ChangesOnly, editor
    <2>7. CASE ~inbox[1].ok
        <3>1. UNCHANGED <<config, commit>>
            BY <1>5, <2>2, <2>4, <2>7 DEF OnKillSwitchApplied
        <3>2. CommitOwn' /\ UnsavedOwn' /\ SavingOwn' /\ PublishInv' /\ CommitSwitch'
            BY <1>t, <2>1, <3>1
            DEF CommitOwn, UnsavedOwn, SavingOwn, Saving, PublishInv, CommitSwitch, ChangesOnly
        <3>3. UnitInv'
            BY <1>t, <2>1, <2>2, <2>3, <2>7, <3>1 DEF UnitInv, InFlight, kernel
        <3> QED
            BY <2>2, <2>5, <2>6, <3>2, <3>3 DEF StoreInv, OwnInv, KillSwitchInv
    <2>8. CASE inbox[1].ok
        <3>1. /\ config' = [config EXCEPT !.killSwitch = inbox[1].enabled]
              /\ BeginCommit("confirm", MergeBase, config', confirmed, 0)
            BY <1>5, <2>2, <2>4, <2>8 DEF OnKillSwitchApplied
        <3>2. config'.killSwitch = inbox[1].enabled /\ config'.settings = config.settings
            BY <1>t, <3>1 DEF Config
        <3>3. /\ commit'.stage = "read" /\ commit'.kind = "confirm" /\ commit'.base = MergeBase
              /\ commit'.before = config /\ commit'.edited = config'
              /\ commit'.own = confirmed
            BY <1>b, <3>1
        <3>4. CommitOwn'
            BY <1>t, <2>1, <3>2, <3>3 DEF CommitOwn, UnsavedOwn, MergeBase, Saving, ChangesOnly
        <3>5. SavingOwn' /\ UnsavedOwn'
            BY <1>t, <2>1, <3>3 DEF SavingOwn, UnsavedOwn, MergeBase, Saving, ChangesOnly
        <3>6. PublishInv'
            BY <1>t, <2>1, <3>3 DEF PublishInv
        <3>7. CommitSwitch'
            BY <2>1, <3>3 DEF CommitSwitch
        <3>8. UnitInv'
            BY <1>t, <2>1, <2>2, <2>3, <2>8, <3>2 DEF UnitInv, InFlight, kernel
        <3> QED
            BY <2>2, <2>5, <2>6, <3>4, <3>5, <3>6, <3>7, <3>8
            DEF StoreInv, OwnInv, KillSwitchInv
    <2> QED
        BY <2>7, <2>8
<1>6. ASSUME NEW w \in Workers, Reload(w)
      PROVE  StoreInv'
    <2>1. OwnInv'
        BY <1>6, <1>t
        DEF Reload, OwnInv, CommitOwn, UnsavedOwn, SavingOwn, Saving, InboxOwn, SessionOwn,
            ChangesOnly, model, editor
    <2>2. KillSwitchInv'
        BY <1>6, <1>t
        DEF Reload, KillSwitchInv, HelperInv, UnitInv, CommitSwitch, InFlight, model, kernel
    <2>3. loader'[w].stage = "load" /\ \A k \in Loaders : k # w => loader'[k] = loader[k]
        BY <1>6, <1>t DEF Reload, Idle, Loaders
    <2>4. PublishInv'
        BY <1>6, <1>t, <2>3 DEF Reload, PublishInv
    <2> QED
        BY <2>1, <2>2, <2>4 DEF StoreInv
\* A message of another kind leaves the helper's result where it is.
<1>m. ASSUME inbox # <<>>, inbox' = Tail(inbox), Head(inbox).type # "killswitch",
             config'.killSwitch = config.killSwitch,
             UNCHANGED <<up, pending, kernel, reconciled>>
      PROVE  HelperInv' /\ UnitInv'
    <2>1. /\ inbox[1].type # "killswitch" /\ Len(inbox) \in Nat
          /\ Len(inbox') = Len(inbox) - 1
          /\ \A i \in 1..Len(inbox') : i + 1 \in 1..Len(inbox) /\ inbox'[i] = inbox[i + 1]
        BY <1>m, <1>q, <1>t, QueueFacts
    <2>2. InFlight' => InFlight
        BY <2>1 DEF InFlight
    <2>3. InFlight => InFlight'
        <3>1. SUFFICES ASSUME NEW i \in 1..Len(inbox), inbox[i].type = "killswitch"
                       PROVE  InFlight'
            BY DEF InFlight
        <3>2. i - 1 \in 1..Len(inbox') /\ inbox'[i - 1] = inbox[i]
            BY <2>1, <3>1
        <3> QED
            BY <3>1, <3>2 DEF InFlight
    <2>4. HelperInv'
        BY <1>m, <1>t, <2>1, <2>2 DEF HelperInv, kernel
    <2>5. UnitInv'
        BY <1>m, <1>t, <2>1, <2>3 DEF UnitInv, kernel
    <2> QED
        BY <2>4, <2>5
<1>7. CASE OnConfigReloaded
    <2>1. /\ commit.stage = "none" /\ up = "loop"
          /\ inbox # <<>> /\ inbox' = Tail(inbox) /\ Head(inbox).type = "reloaded"
          /\ UNCHANGED <<file, pending, up, commit, loader, kernel, editor, reconciled>>
        BY <1>7 DEF OnConfigReloaded, InLoop, model
    <2>2. Head(inbox).config \in Config
        BY <1>t, <2>1 DEF Messages
    <2>3. config'.killSwitch = config.killSwitch
        BY <1>7, <1>t, <2>2
        DEF OnConfigReloaded, HandleConfigReloaded, ReloadedConfig, model, Config
    <2>4. InboxOwn' /\ HelperInv' /\ UnitInv'
        BY <1>m, <1>q, <2>1, <2>3
    <2>5. CommitOwn' /\ SavingOwn' /\ SessionOwn' /\ PublishInv' /\ CommitSwitch'
        BY <1>t, <2>1
        DEF CommitOwn, SavingOwn, Saving, SessionOwn, ChangesOnly, PublishInv, CommitSwitch,
            editor
    <2>6. UnsavedOwn'
        BY <1>7, <1>t, <2>1
        DEF OnConfigReloaded, HandleConfigReloaded, UnsavedOwn, Saving, ChangesOnly, model
    <2> QED
        BY <2>4, <2>5, <2>6 DEF StoreInv, OwnInv, KillSwitchInv
<1>8. CASE OnApplyEditedConfig
    <2>1. /\ commit.stage = "none" /\ up = "loop"
          /\ inbox # <<>> /\ inbox' = Tail(inbox) /\ Head(inbox).type = "edit"
          /\ UNCHANGED <<file, model, up, loader, kernel, shown, session, reconciled>>
        BY <1>8 DEF OnApplyEditedConfig, InLoop
    <2>2. InboxOwn' /\ HelperInv' /\ UnitInv'
        BY <1>m, <1>q, <2>1 DEF model
    <2>3. SessionOwn'
        BY <1>t, <2>1 DEF SessionOwn, ChangesOnly
    <2>4. CASE blocked
        <3>1. CommitOwn' /\ UnsavedOwn' /\ SavingOwn' /\ PublishInv' /\ CommitSwitch'
            BY <1>8, <1>t, <2>1, <2>4
            DEF OnApplyEditedConfig, CommitOwn, UnsavedOwn, SavingOwn, Saving, ChangesOnly,
                PublishInv, CommitSwitch, model
        <3> QED
            BY <2>2, <2>3, <3>1 DEF StoreInv, OwnInv, KillSwitchInv
    <2>5. CASE ~blocked
        <3> DEFINE edited == [inbox[1].edited EXCEPT !.killSwitch = config.killSwitch]
        <3>1. /\ Head(inbox) = inbox[1] /\ 1 \in 1..Len(inbox) /\ inbox[1].type = "edit"
            BY <1>q, <2>1
        <3>2. inbox[1].edited \in Config
            BY <1>t, <3>1 DEF Messages
        <3>3. edited.killSwitch = config.killSwitch /\ edited.settings = inbox[1].edited.settings
            BY <3>2 DEF Config
        <3>4. BeginCommit("edit", inbox[1].base, edited, inbox[1].own, inbox[1].id)
            BY <1>8, <2>5, <3>1 DEF OnApplyEditedConfig
        <3> HIDE DEF edited
        <3>5. /\ commit'.stage = "read" /\ commit'.kind = "edit"
              /\ commit'.base = inbox[1].base /\ commit'.edited = edited
              /\ commit'.own = inbox[1].own
            BY <1>b, <3>4
        <3>6. CommitOwn'
            BY <1>t, <3>1, <3>3, <3>5 DEF CommitOwn, InboxOwn, ChangesOnly
        <3>7. UnsavedOwn' /\ SavingOwn'
            BY <1>t, <2>1, <3>5 DEF UnsavedOwn, SavingOwn, Saving, ChangesOnly, model
        <3>8. PublishInv'
            BY <1>t, <2>1, <3>5 DEF PublishInv
        <3>9. CommitSwitch'
            BY <2>1, <3>3, <3>5 DEF CommitSwitch, model
        <3> QED
            BY <2>2, <2>3, <3>6, <3>7, <3>8, <3>9 DEF StoreInv, OwnInv, KillSwitchInv
    <2> QED
        BY <2>4, <2>5
<1>9. CASE ModelNew
    <2>1. OwnInv'
        BY <1>9, <1>t
        DEF ModelNew, OwnInv, CommitOwn, UnsavedOwn, SavingOwn, CommitSwitch, Saving, InboxOwn,
            SessionOwn, ChangesOnly, editor
    <2>2. loader'[Startup].stage = "idle" /\ \A k \in Workers : loader'[k] = loader[k]
        BY <1>9, <1>t, FieldsAssumption DEF ModelNew, Idle, Loaders
    <2>3. PublishInv'
        BY <1>9, <1>t, <2>2 DEF ModelNew, PublishInv, Loaders
    <2>4. KillSwitchInv'
        BY <1>9, <1>t
        DEF ModelNew, KillSwitchInv, HelperInv, UnitInv, CommitSwitch, InFlight, kernel
    <2> QED
        BY <2>1, <2>3, <2>4 DEF StoreInv
<1>10. CASE ReconcileKillSwitch
    <2>1. /\ commit.stage = "none" /\ up = "reconcile"
          /\ UNCHANGED <<file, model, loader, inbox, kernel, editor>>
        BY <1>10 DEF ReconcileKillSwitch
    <2>2. InboxOwn' /\ SessionOwn'
        BY <1>t, <2>1 DEF InboxOwn, SessionOwn, ChangesOnly, editor
    <2>3. unsaved = None /\ unsaved' = None /\ helper' = None /\ ~InFlight'
        BY <1>t, <2>1 DEF UnsavedOwn, HelperInv, InFlight, kernel, model
    <2>4. HelperInv' /\ UnsavedOwn'
        BY <2>3 DEF HelperInv, UnsavedOwn, InFlight
    <2>5. CASE commit' = commit
        <3>1. CommitOwn' /\ SavingOwn' /\ PublishInv' /\ CommitSwitch'
            BY <1>t, <2>1, <2>5 DEF CommitOwn, SavingOwn, Saving, PublishInv, CommitSwitch
        <3>2. BeginCommit("reconcile", config, [config EXCEPT !.killSwitch = unit], {}, 0)
                => commit'.stage = "read"
            BY <1>b
        <3>3. UnitInv'
            BY <1>10, <2>1, <2>3, <2>5, <3>2
            DEF ReconcileKillSwitch, UnitInv, InFlight, kernel, model
        <3> QED
            BY <2>2, <2>4, <3>1, <3>3 DEF StoreInv, OwnInv, KillSwitchInv
    <2>6. CASE commit' # commit
        <3> DEFINE edited == [config EXCEPT !.killSwitch = unit]
        <3>1. BeginCommit("reconcile", config, edited, {}, 0) /\ UNCHANGED up
            BY <1>10, <2>6 DEF ReconcileKillSwitch
        <3>2. edited.killSwitch = unit /\ edited.settings = config.settings
            BY <1>t DEF Config
        <3> HIDE DEF edited
        <3>3. /\ commit'.stage = "read" /\ commit'.kind = "reconcile"
              /\ commit'.base = config /\ commit'.edited = edited
            BY <1>b, <3>1
        <3>4. CommitOwn' /\ SavingOwn'
            BY <3>2, <3>3 DEF CommitOwn, SavingOwn, Saving, ChangesOnly
        <3>5. PublishInv'
            BY <1>t, <2>1, <3>3 DEF PublishInv
        <3>6. CommitSwitch' /\ UnitInv'
            BY <2>1, <3>1, <3>2, <3>3 DEF CommitSwitch, UnitInv, kernel
        <3> QED
            BY <2>2, <2>4, <3>4, <3>5, <3>6 DEF StoreInv, OwnInv, KillSwitchInv
    <2> QED
        BY <2>5, <2>6
<1>11. CASE ApplyKillSwitch
    <2>1. helper \in BOOLEAN /\ pending = helper /\ ~InFlight /\ up = "loop" /\ helper' = None
        BY <1>11, <1>t DEF ApplyKillSwitch, HelperInv, TypeOK
    <2>2. PICK ok \in BOOLEAN :
            /\ inbox' = Append(inbox, [type |-> "killswitch", ok |-> ok, enabled |-> helper])
            /\ unit' = IF ok THEN helper ELSE unit
        BY <1>11 DEF ApplyKillSwitch
    <2> DEFINE m == [type |-> "killswitch", ok |-> ok, enabled |-> helper]
    <2>3. m \in Messages /\ m.type = "killswitch" /\ m.ok = ok /\ m.enabled = helper
        BY <2>1, <2>2 DEF Messages
    <2>4. inbox' = Append(inbox, m)
        BY <2>2
    <2> HIDE DEF m
    <2>5. /\ Len(inbox') = Len(inbox) + 1 /\ Len(inbox) \in Nat
          /\ inbox'[Len(inbox) + 1] = m
          /\ \A i \in 1..Len(inbox) : inbox'[i] = inbox[i]
        BY <1>t, <2>3, <2>4, QueueFacts
    <2>6. UNCHANGED <<file, model, up, commit, loader, editor, reconciled>>
        BY <1>11 DEF ApplyKillSwitch
    <2>7. InFlight'
        BY <2>3, <2>5 DEF InFlight
    <2>8. \A i \in 1..Len(inbox') : inbox'[i].type = "killswitch" => i = Len(inbox) + 1
        BY <2>1, <2>5 DEF InFlight
    <2>9. HelperInv'
        BY <2>1, <2>3, <2>5, <2>6, <2>8 DEF HelperInv, model
    <2>10. UnitInv'
        BY <1>t, <2>1, <2>2, <2>3, <2>5, <2>6, <2>7, <2>8 DEF UnitInv, model
    <2>11. CommitSwitch'
        BY <1>t, <2>1, <2>6 DEF CommitSwitch, model
    <2>12. InboxOwn'
        BY <1>t, <2>3, <2>5 DEF InboxOwn, ChangesOnly
    <2>13. CommitOwn' /\ UnsavedOwn' /\ SavingOwn' /\ SessionOwn' /\ PublishInv'
        BY <1>t, <2>6
        DEF CommitOwn, UnsavedOwn, SavingOwn, Saving, SessionOwn, ChangesOnly, PublishInv, model,
            editor
    <2> QED
        BY <2>9, <2>10, <2>11, <2>12, <2>13 DEF StoreInv, OwnInv, KillSwitchInv
<1> QED
    BY <1>2, <1>3, <1>4, <1>5, <1>6, <1>7, <1>8, <1>9, <1>10, <1>11 DEF LoopNext

\* A crash, a start, another program's write and the editor keep the invariant.
LEMMA OutsideKeeps ==
    ASSUME StoreInv, TypeOK', Crash \/ Start \/ ForeignWrite \/ EditorNext
    PROVE  StoreInv'
<1>t. /\ TypeOK /\ CommitOwn /\ UnsavedOwn /\ SavingOwn /\ InboxOwn /\ SessionOwn
      /\ PublishInv /\ HelperInv /\ UnitInv /\ CommitSwitch
      /\ inbox \in Seq(Messages) /\ session \in Sessions
      /\ loader \in [Loaders -> LoaderStates]
    BY DEF StoreInv, OwnInv, KillSwitchInv, TypeOK
<1>0. session.base \in Config /\ session.doc \in Config
    BY <1>t DEF Sessions
<1>1. CASE Crash
    <2>1. /\ commit'.stage = "none" /\ unsaved' = None /\ inbox' = <<>> /\ helper' = None
          /\ up' = "down" /\ \A l \in Loaders : loader'[l].stage = "idle"
        BY <1>1 DEF Crash, NoCommit, Idle
    <2>2. ~InFlight' /\ InboxOwn'
        BY <2>1 DEF InFlight, InboxOwn
    <2>3. CommitOwn' /\ UnsavedOwn' /\ SavingOwn' /\ PublishInv' /\ CommitSwitch' /\ UnitInv'
        BY <2>1 DEF CommitOwn, UnsavedOwn, SavingOwn, Saving, PublishInv, CommitSwitch, UnitInv
    <2>4. HelperInv'
        BY <2>1, <2>2 DEF HelperInv
    <2>5. SessionOwn'
        BY <1>1, <1>t DEF Crash, SessionOwn, ChangesOnly, editor
    <2> QED
        BY <2>2, <2>3, <2>4, <2>5 DEF StoreInv, OwnInv, KillSwitchInv
<1>2. CASE Start
    <2>1. OwnInv' /\ KillSwitchInv'
        BY <1>2, <1>t
        DEF Start, OwnInv, CommitOwn, UnsavedOwn, SavingOwn, Saving, InboxOwn, SessionOwn,
            ChangesOnly, KillSwitchInv, HelperInv, UnitInv, CommitSwitch, InFlight, model,
            kernel, editor
    <2>2. loader'[Startup].stage = "load" /\ \A k \in Workers : loader'[k] = loader[k]
        BY <1>2, <1>t, FieldsAssumption DEF Start, Idle, Loaders
    <2>3. PublishInv'
        BY <1>2, <1>t, <2>2 DEF Start, PublishInv, Loaders
    <2> QED
        BY <2>1, <2>3 DEF StoreInv
\* A step that only touches the file, the editor and its reply.
<1>3. ASSUME UNCHANGED <<model, up, commit, loader, inbox, kernel, reconciled>>,
             PublishInv', SessionOwn'
      PROVE  StoreInv'
    <2>1. CommitOwn' /\ UnsavedOwn' /\ SavingOwn' /\ InboxOwn'
        BY <1>3, <1>t
        DEF CommitOwn, UnsavedOwn, SavingOwn, Saving, InboxOwn, ChangesOnly, model
    <2>2. KillSwitchInv'
        BY <1>3, <1>t
        DEF KillSwitchInv, HelperInv, UnitInv, CommitSwitch, InFlight, model, kernel
    <2> QED
        BY <1>3, <2>1, <2>2 DEF StoreInv, OwnInv
<1>4. CASE ForeignWrite
    <2>1. PublishInv'
        BY <1>4, <1>t DEF ForeignWrite, PublishInv, MayWrite, Publishing
    <2>2. SessionOwn'
        BY <1>4, <1>t DEF ForeignWrite, SessionOwn, ChangesOnly, editor
    <2> QED
        BY <1>3, <1>4, <2>1, <2>2 DEF ForeignWrite
<1>5. ASSUME UNCHANGED <<file, commit, loader>>
      PROVE  PublishInv'
    BY <1>5, <1>t DEF PublishInv
<1>6. CASE ReadSnapshot
    <2>1. SessionOwn'
        BY <1>6, <1>t DEF ReadSnapshot, SessionOwn, ChangesOnly
    <2> QED
        BY <1>3, <1>5, <1>6, <2>1 DEF ReadSnapshot
<1>7. CASE OpenEditor
    <2>1. SessionOwn'
        BY <1>7 DEF OpenEditor, SessionOwn, ChangesOnly
    <2> QED
        BY <1>3, <1>5, <1>7, <2>1 DEF OpenEditor
<1>8. CASE EditDocument
    <2>1. ASSUME NEW f \in Fields, NEW v \in Values,
                 session' = [session EXCEPT !.doc = [@ EXCEPT !.settings[f] = v],
                                            !.touched = @ \union {f}]
          PROVE  SessionOwn'
        <3>1. /\ session'.base = session.base /\ session'.touched = session.touched \union {f}
              /\ session'.doc = [session.doc EXCEPT !.settings[f] = v]
            BY <1>t, <2>1 DEF Sessions
        <3>2. \A g \in Fields : g # f => session'.doc.settings[g] = session.doc.settings[g]
            BY <1>0, <3>1 DEF Config
        <3> QED
            BY <1>8, <1>t, <3>1, <3>2 DEF EditDocument, SessionOwn, ChangesOnly
    <2>2. ASSUME NEW k \in BOOLEAN,
                 session' = [session EXCEPT !.doc = [@ EXCEPT !.killSwitch = k]]
          PROVE  SessionOwn'
        <3>1. /\ session'.base = session.base /\ session'.touched = session.touched
              /\ session'.doc = [session.doc EXCEPT !.killSwitch = k]
            BY <1>t, <2>2 DEF Sessions
        <3>2. session'.doc.settings = session.doc.settings
            BY <1>0, <3>1 DEF Config
        <3> QED
            BY <1>8, <1>t, <3>1, <3>2 DEF EditDocument, SessionOwn, ChangesOnly
    <2>3. SessionOwn'
        BY <1>8, <2>1, <2>2 DEF EditDocument
    <2> QED
        BY <1>3, <1>5, <1>8, <2>3 DEF EditDocument
<1>9. CASE SubmitEdit
    <2>1. UNCHANGED <<file, model, up, commit, loader, kernel, reconciled>> /\ PublishInv'
        BY <1>5, <1>9 DEF SubmitEdit
    <2>2. CASE session' = Closed(session.id) /\ UNCHANGED inbox
        BY <1>3, <2>1, <2>2 DEF SessionOwn, Closed
    <2>3. CASE ~(session' = Closed(session.id) /\ UNCHANGED inbox)
        <3> DEFINE m == [type |-> "edit", base |-> session.base, edited |-> session.doc,
                         own |-> session.touched, id |-> session.id + 1]
        <3>1. /\ up = "loop" /\ session.state = "editing"
              /\ session' = [session EXCEPT !.state = "waiting", !.id = @ + 1]
              /\ inbox' = Append(inbox, m)
            BY <1>9, <2>3 DEF SubmitEdit
        <3>2. /\ m \in Messages /\ m.type = "edit" /\ m.base = session.base
              /\ m.edited = session.doc /\ m.own = session.touched
            BY <1>t DEF Messages, Sessions
        <3> HIDE DEF m
        <3>3. /\ Len(inbox') = Len(inbox) + 1 /\ Len(inbox) \in Nat
              /\ inbox'[Len(inbox) + 1] = m
              /\ \A i \in 1..Len(inbox) : inbox'[i] = inbox[i]
            BY <1>t, <3>1, <3>2, QueueFacts
        <3>4. InboxOwn'
            BY <1>t, <3>1, <3>2, <3>3 DEF InboxOwn, SessionOwn, ChangesOnly
        <3>5. /\ session'.base = session.base /\ session'.doc = session.doc
              /\ session'.touched = session.touched
            BY <1>t, <3>1 DEF Sessions
        <3>6. SessionOwn'
            BY <1>t, <3>1, <3>5 DEF SessionOwn, ChangesOnly
        <3>7. CommitOwn' /\ UnsavedOwn' /\ SavingOwn'
            BY <1>t, <2>1 DEF CommitOwn, UnsavedOwn, SavingOwn, Saving, ChangesOnly, model
        <3>8. InFlight' = InFlight
            BY <3>2, <3>3 DEF InFlight
        <3>9. HelperInv' /\ UnitInv'
            BY <1>t, <2>1, <3>2, <3>3, <3>8 DEF HelperInv, UnitInv, model, kernel
        <3>10. CommitSwitch'
            BY <1>t, <2>1 DEF CommitSwitch, model, kernel
        <3> QED
            BY <2>1, <3>4, <3>6, <3>7, <3>9, <3>10 DEF StoreInv, OwnInv, KillSwitchInv
    <2> QED
        BY <2>2, <2>3
<1>10. CASE TakeReply
    <2>1. SessionOwn'
        <3>1. CASE session' = Closed(session.id)
            BY <3>1 DEF SessionOwn, Closed
        <3>2. CASE session' # Closed(session.id)
            <4>1. reply.current \in Config
                BY <1>10, <1>t DEF TakeReply, TypeOK, Replies
            <4>2. PICK doc \in ConflictDocuments(session.base, reply.current, session.doc) :
                    session' = [session EXCEPT !.state = "editing", !.base = reply.current,
                                               !.doc = doc]
                BY <1>10, <3>2 DEF TakeReply
            <4>3. ChangesOnly(session.base, session.doc, session.touched)
                BY <1>10, <1>t DEF TakeReply, SessionOwn
            <4>4. ChangesOnly(reply.current, doc, session.touched)
                BY <1>0, <4>1, <4>3, ConflictDocumentCorrect
            <4>5. /\ session'.base = reply.current /\ session'.doc = doc
                  /\ session'.touched = session.touched
                BY <1>t, <4>2 DEF Sessions
            <4> QED
                BY <4>4, <4>5 DEF SessionOwn, ChangesOnly
        <3> QED
            BY <3>1, <3>2
    <2> QED
        BY <1>3, <1>5, <1>10, <2>1 DEF TakeReply
<1>11. CASE ReplyTimeout
    <2>1. SessionOwn'
        BY <1>11 DEF ReplyTimeout, SessionOwn, Closed
    <2> QED
        BY <1>3, <1>5, <1>11, <2>1 DEF ReplyTimeout
<1> QED
    BY <1>1, <1>2, <1>4, <1>6, <1>7, <1>8, <1>9, <1>10, <1>11 DEF EditorNext

-----------------------------------------------------------------------------
(* Theorems *)

\* The initial states satisfy the invariant.
LEMMA InitStore == Init => StoreInv
<1> SUFFICES ASSUME Init PROVE StoreInv
    OBVIOUS
<1>1. /\ commit.stage = "none" /\ unsaved = None /\ session.state = "closed"
      /\ inbox = <<>> /\ helper = None /\ up = "down"
      /\ \A l \in Loaders : loader[l].stage = "idle"
    BY DEF Init, NoCommit, Closed, Idle
<1>2. OwnInv
    BY <1>1 DEF OwnInv, CommitOwn, UnsavedOwn, SavingOwn, Saving, InboxOwn, SessionOwn
<1>3. PublishInv
    BY <1>1 DEF PublishInv
<1>4. KillSwitchInv
    BY <1>1 DEF KillSwitchInv, HelperInv, UnitInv, CommitSwitch, InFlight
<1> QED
    BY <1>2, <1>3, <1>4, InitTypes DEF StoreInv

\* Every step keeps the invariant.
LEMMA NextStore == StoreInv /\ [Next]_vars => StoreInv'
<1> SUFFICES ASSUME StoreInv, [Next]_vars PROVE StoreInv'
    OBVIOUS
<1>1. TypeOK'
    BY NextTypes DEF StoreInv
<1>2. CASE Next
    BY <1>1, <1>2, CommitKeeps, LoaderKeeps, LoopKeeps, OutsideKeeps DEF Next
<1>3. CASE UNCHANGED vars
    <2>1. OwnInv' /\ PublishInv'
        BY <1>3
        DEF StoreInv, OwnInv, CommitOwn, UnsavedOwn, SavingOwn, Saving, InboxOwn, SessionOwn,
            ChangesOnly, PublishInv, vars, model, kernel, editor
    <2>2. KillSwitchInv'
        BY <1>3
        DEF StoreInv, KillSwitchInv, HelperInv, UnitInv, CommitSwitch, InFlight, vars, model,
            kernel, editor
    <2> QED
        BY <1>1, <2>1, <2>2 DEF StoreInv
<1> QED
    BY <1>2, <1>3

\* The invariant of the configuration store holds in every reachable state.
THEOREM StoreInvariant == Spec => []StoreInv
    BY InitStore, NextStore, PTL DEF Spec

\* Once startup has read the unit's state, the model's kill switch is that of
\* the unit whenever no result of the helper is on its way: reloads, edits,
\* merges, failed saves and restarts never change it.
THEOREM KillSwitchCorrect == Spec => []KillSwitchFollowsUnit
<1>1. StoreInv => KillSwitchFollowsUnit
    BY DEF StoreInv, KillSwitchInv, UnitInv, KillSwitchFollowsUnit, InLoop
<1> QED
    BY <1>1, StoreInvariant, PTL

\* A HWID is only written where there is such a field.
LEMMA HwidOnlyMissing == Spec => []HwidInv
<1>1. Init => HwidInv
    BY DEF Init, HwidInv, Idle
<1>2. TypeOK /\ HwidInv /\ [Next]_vars => HwidInv'
    <2> SUFFICES ASSUME TypeOK, HwidInv, [Next]_vars PROVE HwidInv'
        OBVIOUS
    <2>t. loader \in [Loaders -> LoaderStates]
        BY DEF TypeOK
    <2>1. ASSUME UNCHANGED loader PROVE HwidInv'
        BY <2>1 DEF HwidInv
    <2>2. ASSUME CommitNext PROVE UNCHANGED loader
        BY <2>2 DEF CommitNext, CommitRead, CommitConflict, CommitRefused, CommitError,
                    CommitVerify, CommitPublish, CommitFailed
    <2>3. ASSUME NEW l \in Loaders, LoaderNext(l) PROVE HwidInv'
        <3>1. ASSUME NEW c, Loaded(l, c) PROVE HwidInv'
            BY <2>t, <3>1 DEF Loaded, HasHwid, HwidInv, LoaderStates
        <3>2. ASSUME LoadFailed(l) PROVE HwidInv'
            BY <2>t, <3>2 DEF LoadFailed, HwidInv, LoaderStates
        <3>3. CASE LoadRead(l)
            BY <2>t, <3>1, <3>2, <3>3 DEF LoadRead, HwidInv, LoaderStates
        <3>4. CASE LoadVerify(l)
            BY <2>t, <3>2, <3>4 DEF LoadVerify, HwidInv, LoaderStates
        <3>5. CASE LoadPublish(l)
            BY <3>1, <3>5 DEF LoadPublish
        <3>6. CASE LoadHwid(l)
            BY <2>t, <3>6 DEF LoadHwid, HwidInv, LoaderStates
        <3>7. CASE LoadError(l)
            BY <3>2, <3>7 DEF LoadError
        <3>8. CASE LoadSend(l)
            BY <2>t, <3>8 DEF LoadSend, HwidInv, LoaderStates, Idle
        <3> QED
            BY <2>3, <3>3, <3>4, <3>5, <3>6, <3>7, <3>8 DEF LoaderNext
    <2>4. ASSUME LoopNext PROVE HwidInv'
        <3>1. ASSUME NEW w \in Workers, Reload(w) PROVE HwidInv'
            BY <2>t, <3>1 DEF Reload, HwidInv, Idle, Loaders
        <3>2. CASE ModelNew
            BY <2>t, <3>2 DEF ModelNew, HwidInv, Idle, Loaders
        <3>3. CASE SetKillSwitch \/ OnKillSwitchApplied \/ OnConfigReloaded
                   \/ OnApplyEditedConfig \/ ReconcileKillSwitch
            BY <2>1, <3>3 DEF SetKillSwitch, OnKillSwitchApplied, OnConfigReloaded,
                              OnApplyEditedConfig, ReconcileKillSwitch
        <3>4. ASSUME NEW v \in Values, ConfirmConnected(v) PROVE HwidInv'
            BY <2>1, <3>4 DEF ConfirmConnected
        <3>5. ASSUME NEW v \in Values, NEW f \in Fields, RequestChange(f, v) PROVE HwidInv'
            BY <2>1, <3>5 DEF RequestChange
        <3> QED
            BY <2>4, <3>1, <3>2, <3>3, <3>4, <3>5 DEF LoopNext
    <2>5. CASE Crash
        BY <2>5 DEF Crash, HwidInv, Idle
    <2>6. CASE Start
        BY <2>t, <2>6 DEF Start, HwidInv, Idle
    <2>7. CASE ApplyKillSwitch \/ ForeignWrite \/ EditorNext \/ UNCHANGED vars
        BY <2>1, <2>7
        DEF ApplyKillSwitch, ForeignWrite, EditorNext, ReadSnapshot, OpenEditor, EditDocument,
            SubmitEdit, TakeReply, ReplyTimeout, vars
    <2> QED
        BY <2>1, <2>2, <2>3, <2>4, <2>5, <2>6, <2>7 DEF Next
<1> QED
    BY <1>1, <1>2, StoreTypeCorrect, PTL DEF Spec

\* Only the last step of a commit, a loader and other programs change the file.
LEMMA OnlyWritersWrite ==
    ASSUME Next, file' # file
    PROVE  \/ CommitPublish
           \/ \E l \in Loaders : LoadPublish(l) \/ LoadHwid(l)
           \/ ForeignWrite
<1>1. ASSUME CommitNext PROVE CommitPublish
    BY <1>1 DEF CommitNext, CommitRead, CommitConflict, CommitRefused, CommitError,
                CommitVerify, CommitFailed
<1>2. ASSUME NEW l \in Loaders, LoaderNext(l) PROVE LoadPublish(l) \/ LoadHwid(l)
    BY <1>2 DEF LoaderNext, LoadRead, LoadVerify, LoadError, LoadSend
<1>3. ~LoopNext
    BY DEF LoopNext, ConfirmConnected, RequestChange, SetKillSwitch, OnKillSwitchApplied,
           Reload, OnConfigReloaded, OnApplyEditedConfig, ModelNew, ReconcileKillSwitch
<1>4. ~(ApplyKillSwitch \/ Crash \/ Start \/ EditorNext)
    BY DEF ApplyKillSwitch, Crash, Start, EditorNext, ReadSnapshot, OpenEditor, EditDocument,
           SubmitEdit, TakeReply, ReplyTimeout
<1> QED
    BY <1>1, <1>2, <1>3, <1>4 DEF Next

\* Where nobody writes between a writer's check and its rename, and no HWID is
\* missing, every write of the daemon changes only the fields it is about:
\* what other programs and earlier saves wrote survives stale models, stale
\* reloads, old merge bases and resolved conflicts.
THEOREM WritesKeepTheRest ==
    ASSUME ~RenameRaces, Hwid \notin Fields
    PROVE  Spec => OwnFieldsOnly
<1> DEFINE Kept == (file' # file /\ file.kind # "absent" /\ count'.foreign = count.foreign) =>
         \A f \in Fields : file'.config.settings[f] # file.config.settings[f] =>
            IF commit' # commit THEN f \in commit.own ELSE f = Hwid
<1>1. StoreInv /\ HwidInv /\ [Next]_vars => [Kept]_vars
    <2> SUFFICES ASSUME StoreInv, HwidInv, Next, file' # file, count'.foreign = count.foreign,
                        NEW f \in Fields,
                        file'.config.settings[f] # file.config.settings[f]
                 PROVE  IF commit' # commit THEN f \in commit.own ELSE f = Hwid
        OBVIOUS
    <2>t. TypeOK /\ PublishInv /\ CommitOwn
        BY DEF StoreInv, OwnInv
    <2>1. ASSUME CommitPublish
          PROVE  f \in commit.own /\ commit' # commit
        <3>1. /\ commit.base \in Config /\ commit.edited \in Config
              /\ commit.expected.config \in Config
            BY <2>t DEF TypeOK, Commits, Files
        <3>2. file = commit.expected /\ commit.stage = "publish"
            BY <2>1, <2>t DEF CommitPublish, PublishInv
        <3>3. file'.config = Merge(commit.base, commit.expected.config, commit.edited)
            BY <2>1 DEF CommitPublish, Text
        <3>4. commit.edited.settings[f] # commit.base.settings[f]
            BY <3>1, <3>2, <3>3, MergeCorrect
        <3>5. commit'.stage = "none"
            BY <2>1 DEF CommitPublish, NoCommit
        <3> QED
            BY <2>t, <3>2, <3>4, <3>5 DEF CommitOwn, ChangesOnly
    <2>2. ASSUME NEW l \in Loaders, LoadPublish(l)
          PROVE  FALSE
        BY <2>2, <2>t DEF LoadPublish, PublishInv, Text
    <2>3. ASSUME NEW l \in Loaders, LoadHwid(l)
          PROVE  FALSE
        BY <2>3 DEF LoadHwid, HwidInv
    <2>4. ASSUME ForeignWrite
          PROVE  FALSE
        BY <2>4, <2>t DEF ForeignWrite, TypeOK, Counters
    <2> QED
        BY <2>1, <2>2, <2>3, <2>4, OnlyWritersWrite
<1> QED
    BY <1>1, StoreInvariant, HwidOnlyMissing, PTL DEF Spec, OwnFieldsOnly
\* The next save of the main loop writes the confirmed state an earlier save
\* could not write, whatever was reloaded, merged or changed since.
THEOREM ConfirmedStateKept == Spec => NextSaveKeepsConfirmed
<1> DEFINE Kept == (commit.kind \in {"save", "confirm"} /\ commit.stage = "publish" /\ file' # file
          /\ unsaved # None /\ commit' # commit) =>
         \A f \in confirmed : config.settings[f] # unsaved.settings[f] =>
            file'.config.settings[f] = config.settings[f]
<1>1. StoreInv /\ [Next]_vars => [Kept]_vars
    <2> SUFFICES ASSUME StoreInv, Next, commit.kind \in {"save", "confirm"},
                        commit.stage = "publish", file' # file, unsaved # None,
                        commit' # commit, NEW f \in confirmed,
                        config.settings[f] # unsaved.settings[f]
                 PROVE  file'.config.settings[f] = config.settings[f]
        OBVIOUS
    <2>1. CommitPublish
        BY OnlyWritersWrite DEF LoadPublish, LoadHwid, ForeignWrite
    <2>2. /\ commit.base \in Config /\ commit.edited \in Config
          /\ commit.expected.config \in Config /\ f \in Fields
        BY DEF StoreInv, TypeOK, Commits, Files
    <2>3. config = commit.edited /\ commit.base = unsaved
        BY DEF StoreInv, OwnInv, SavingOwn, Saving
    <2>4. file'.config = Merge(commit.base, commit.expected.config, commit.edited)
        BY <2>1 DEF CommitPublish, Text
    <2> QED
        BY <2>2, <2>3, <2>4, MergeCorrect
<1> QED
    BY <1>1, StoreInvariant, PTL DEF Spec, NextSaveKeepsConfirmed

\* Whatever the file, the document or an older base says, a commit writes the
\* kill switch of the unit.
THEOREM KillSwitchWritten == Spec => CommitsWriteKillSwitch
<1> DEFINE Written == (commit.stage = "publish" /\ commit'.stage = "none" /\ file' # file
          /\ reconciled /\ ~InFlight) => file'.config.killSwitch = unit
<1>1. StoreInv /\ [Next]_vars => [Written]_vars
    <2> SUFFICES ASSUME StoreInv, Next, commit.stage = "publish", commit'.stage = "none",
                        file' # file, reconciled, ~InFlight
                 PROVE  file'.config.killSwitch = unit
        OBVIOUS
    <2>1. CommitPublish
        BY OnlyWritersWrite DEF LoadPublish, LoadHwid, ForeignWrite
    <2>2. file'.config.killSwitch = commit.edited.killSwitch
        BY <2>1 DEF CommitPublish, Text, Merge
    <2>3. commit.kind = "reconcile" => commit.edited.killSwitch = unit
        BY DEF StoreInv, KillSwitchInv, CommitSwitch
    <2>4. commit.kind # "reconcile" => commit.edited.killSwitch = unit
        BY DEF StoreInv, KillSwitchInv, CommitSwitch, UnitInv
    <2> QED
        BY <2>2, <2>3, <2>4
<1> QED
    BY <1>1, StoreInvariant, PTL DEF Spec, CommitsWriteKillSwitch
=============================================================================
