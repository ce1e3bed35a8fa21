--------------------------- MODULE RoutingEdits ---------------------------
(***************************************************************************)
(* How a change reaches routing.json: as a draft of the rule page that     *)
(* Enter submits, or as a text of the external editor that is checked,     *)
(* submitted, and reopened on problems and conflicts (tui_client/editor,   *)
(* tui_client/handler/key/routing_rules.rs, config/routing.rs,             *)
(* app/update/config_reload.rs, app/model.rs).  What cannot be saved goes  *)
(* to the recovery directory (config/recovery.rs).                         *)
(*                                                                         *)
(* A document holds the rules of two modes, m and n; rules are merged mode *)
(* by mode, as a whole.  The page drafts the rules of m.  One client edits *)
(* here; others type into the same page and write the same file.           *)
(***************************************************************************)
EXTENDS Naturals, Sequences, SequencesExt

CONSTANTS Retention,   \* RETENTION_PER_KIND
          MaxChanges   \* how often somebody changes something

Modes == {"m", "n"}
Docs == [m : 0..2, n : 0..1]

\* A text parses, does not, or has the markers of a conflict (with my edit).
Doc(d) == [kind |-> "doc", doc |-> d]
Conflicted(d) == [kind |-> "conflict", doc |-> d]
Broken == [kind |-> "broken", doc |-> [m |-> 0, n |-> 0]]
Texts == {Doc(d) : d \in Docs} \cup {Broken}

VARIABLES
    disk,      \* routing.json
    routing,   \* Model.routing of the daemon
    broken,    \* Model.routing_error
    draft,     \* the draft of the rules of m: what it began from, what it is
    view,      \* what the client last heard of routing, broken and draft
    loaded,    \* a RoutingReloaded on its way
    session,   \* the edit of the client: phase, base, opened, snap
    recovery,  \* recovery files of edits, by name
    archive,   \* recovery files of invalid versions of routing.json, by name
    retained,  \* the snapshot that was left where it is, until the next edit
    changes    \* changes made so far

daemon == <<disk, routing, broken, draft, archive>>
kept == <<recovery, retained>>
vars == <<disk, routing, broken, draft, view, loaded, session, recovery, archive,
          retained, changes>>

Nothing == [kind |-> "none", doc |-> [m |-> 0, n |-> 0]]
NoDraft == [saved |-> 0, rules |-> 0]
NoSession == [phase |-> "none", base |-> Nothing, opened |-> Nothing, snap |-> Nothing]
-----------------------------------------------------------------------------
(* The recovery directory.                                                 *)

\* Seeded fault: prune does not spare the file that was just written.
Pruned_Unprotected(files, at) ==
    SubSeq(files, Len(files) - Retention + 1, Len(files))

\* prune, sparing the file at the given place.
Pruned(files, at) ==
    LET removed == Len(files) - Retention
        Gone(i) == i # at /\ Len(SelectSeq([j \in 1..i |-> j], LAMBDA j : j # at)) <= removed
    IN  [i \in 1..Len(SelectSeq([j \in DOMAIN files |-> j], LAMBDA j : ~Gone(j))) |->
            files[SelectSeq([j \in DOMAIN files |-> j], LAMBDA j : ~Gone(j))[i]]]
PrunedTo(files, at) == IF Len(files) <= Retention THEN files ELSE Pruned(files, at)

\* preserve_at: a name is a local time, which may be set back.
Preserve(files, text) ==
    LET others == SelectSeq(files, LAMBDA t : t # text) IN
    {PrunedTo(InsertAt(others, at, text), at) : at \in 1..(Len(others) + 1)}
-----------------------------------------------------------------------------

(* The daemon.                                                             *)

Conflicts(base, current, edited) ==
    {i \in Modes : base[i] # current[i] /\ base[i] # edited[i] /\ current[i] # edited[i]}
MergeRouting(base, current, edited) ==
    [i \in Modes |-> IF edited[i] = base[i] THEN current[i] ELSE edited[i]]

\* handle_routing_reloaded
Adopt(d) ==
    /\ routing' = d
    /\ broken' = FALSE

\* handle_routing_edit_saved
AdoptEdit(d) == Adopt(d) /\ draft' = NoDraft

\* commit_edit_at: what a submitted edit may come to.
CommitSaves(base, edited) ==
    /\ \/ base.kind = "doc" /\ disk.kind = "doc"
          /\ Conflicts(base.doc, disk.doc, edited) = {}
          /\ disk' = Doc(MergeRouting(base.doc, disk.doc, edited))
          /\ UNCHANGED archive
       \/ base.kind = "broken" /\ disk = base
          /\ disk' = Doc(edited)
          /\ archive' \in Preserve(archive, disk)
    /\ AdoptEdit(disk'.doc)
CommitConflicts(base, edited) ==
    /\ base.kind = "doc" /\ disk.kind = "doc"
    /\ Conflicts(base.doc, disk.doc, edited) # {}
    /\ UNCHANGED daemon
\* The file or the result is invalid, or the write fails.
CommitFails == UNCHANGED daemon

\* draft_shown_mode_rules: drafting the saved rules again is no draft.
Drafted(rules) ==
    LET saved == IF draft = NoDraft THEN routing.m ELSE draft.saved IN
    IF rules = saved THEN NoDraft ELSE [saved |-> saved, rules |-> rules]

\* A key of any client on a rule of the routing page.
DraftRules ==
    /\ ~broken
    /\ changes < MaxChanges
    /\ \E rules \in 0..2 : draft' = Drafted(rules)
    /\ changes' = changes + 1
    /\ UNCHANGED <<disk, routing, broken, view, loaded, session, archive, kept>>

\* clear_settings_drafts
DiscardDraft ==
    /\ draft # NoDraft
    /\ draft' = NoDraft
    /\ UNCHANGED <<disk, routing, broken, view, loaded, session, archive, kept, changes>>

\* The worker of a reload reads the file; its message comes later.
Reload ==
    /\ loaded = Nothing
    /\ loaded' = disk
    /\ UNCHANGED <<daemon, view, session, kept, changes>>
RoutingReloaded ==
    /\ loaded # Nothing
    /\ IF loaded.kind = "doc" THEN Adopt(loaded.doc) /\ UNCHANGED draft
       ELSE broken' = TRUE /\ draft' = NoDraft /\ UNCHANGED routing
    /\ loaded' = Nothing
    /\ UNCHANGED <<disk, view, session, archive, kept, changes>>

\* Another program, add_region_modes or another client writes the file.
WriteFile ==
    /\ changes < MaxChanges
    /\ disk' \in Texts
    /\ changes' = changes + 1
    /\ UNCHANGED <<routing, broken, draft, view, loaded, session, archive, kept>>

\* A snapshot of the daemon reaches the client.
Snapshot ==
    /\ view' = [routing |-> routing, broken |-> broken, draft |-> draft]
    /\ UNCHANGED <<daemon, loaded, session, kept, changes>>
-----------------------------------------------------------------------------
(* The client.                                                             *)

\* Seeded fault: an edit that was cancelled is dropped with its snapshot.
FinishEdit_Cancelled(result) ==
    /\ session' = NoSession
    /\ IF result \in {"saved", "cancelled"} \/ session.snap = session.opened THEN UNCHANGED kept
       ELSE \/ recovery' \in Preserve(recovery, session.snap) /\ UNCHANGED retained
            \/ retained' = {session.snap} /\ UNCHANGED recovery

\* finish_edit, preserve_invalid_edit: preserving may fail.
FinishEdit(result) ==
    /\ session' = NoSession
    /\ IF result = "saved" \/ session.snap = session.opened THEN UNCHANGED kept
       ELSE \/ recovery' \in Preserve(recovery, session.snap) /\ UNCHANGED retained
            \/ retained' = {session.snap} /\ UNCHANGED recovery
Session(phase, base, text) ==
    [phase |-> phase, base |-> base, opened |-> text, snap |-> text]

\* Seeded fault: the edit is based on the rules of now, not on those it began from.
RoutingRulesEdit_Current ==
    [base |-> view.routing,
     edited |-> [view.routing EXCEPT !.m = view.draft.rules]]

\* routing_rules_edit
RoutingRulesEdit ==
    [base |-> [view.routing EXCEPT !.m = view.draft.saved],
     edited |-> [view.routing EXCEPT !.m = view.draft.rules]]

\* open_routing_editor: with the draft, or with the file as it is.  The
\* snapshot of the process has one name.
OpenRoutingEditor ==
    /\ session = NoSession
    /\ session' =
        IF view.draft # NoDraft
            THEN Session("editor", Doc(RoutingRulesEdit.base), Doc(RoutingRulesEdit.edited))
            ELSE Session("editor", disk, disk)
    /\ retained' = {}
    /\ UNCHANGED <<daemon, view, loaded, recovery, changes>>

\* apply, on Enter: submit_routing_rules and what the daemon answers.
SubmitRules ==
    /\ session = NoSession
    /\ view.draft # NoDraft
    /\ LET base == Doc(RoutingRulesEdit.base)
           edited == RoutingRulesEdit.edited IN
        \/ CommitSaves(base, edited) /\ UNCHANGED session
        \/ CommitConflicts(base, edited)
           /\ session' = [Session("ask", Doc(disk.doc), Conflicted(edited)) EXCEPT
                            !.snap = Nothing]
        \/ CommitFails /\ UNCHANGED session
    /\ UNCHANGED <<view, loaded, kept, changes>>

\* resolve_routing_rules_conflict: the draft stays when the answer is no.
AskConflict ==
    /\ session.phase = "ask"
    /\ \/ session' = NoSession /\ UNCHANGED retained
       \/ session' = Session("editor", session.base, session.opened) /\ retained' = {}
    /\ UNCHANGED <<daemon, view, loaded, recovery, changes>>

\* check_edit, check_routing_edit: no markers are left and the document is valid.
Accepted(text) == text.kind = "doc"

\* rebase: the snapshot becomes the document with the markers.
Rebased(edited) ==
    [session EXCEPT !.phase = "prompt", !.base = Doc(disk.doc), !.snap = Conflicted(edited)]

EditorSaves ==
    /\ session.phase = "editor"
    /\ changes < MaxChanges
    /\ \E text \in Texts :
        /\ text # session.snap
        /\ session' = [session EXCEPT !.snap = text]
    /\ changes' = changes + 1
    /\ UNCHANGED <<daemon, view, loaded, kept>>
EditorExits ==
    /\ session.phase = "editor"
    /\ IF session.snap = session.opened
        THEN FinishEdit("unchanged")
        ELSE /\ session' = [session EXCEPT !.phase =
                                IF Accepted(session.snap) THEN "submit" ELSE "prompt"]
             /\ UNCHANGED kept
    /\ UNCHANGED <<daemon, view, loaded, changes>>
EditorFails ==
    /\ session.phase = "editor"
    /\ FinishEdit("failed")
    /\ UNCHANGED <<daemon, view, loaded, changes>>

\* retry_edit
Retry ==
    /\ session.phase = "prompt"
    /\ session' = [session EXCEPT !.phase = "editor"]
    /\ UNCHANGED <<daemon, view, loaded, kept, changes>>
Cancel ==
    /\ session.phase = "prompt"
    /\ FinishEdit("cancelled")
    /\ UNCHANGED <<daemon, view, loaded, changes>>
PromptFails ==
    /\ session.phase = "prompt"
    /\ FinishEdit("failed")
    /\ UNCHANGED <<daemon, view, loaded, changes>>

\* submit, and the answer of the daemon, which may be lost.
Submit ==
    /\ session.phase = "submit"
    /\ LET edited == session.snap.doc IN
        \/ CommitSaves(session.base, edited) /\ FinishEdit("saved")
        \/ CommitSaves(session.base, edited) /\ FinishEdit("failed")
        \/ CommitFails /\ FinishEdit("failed")
        \/ /\ CommitConflicts(session.base, edited)
           /\ \/ session' = Rebased(edited) /\ UNCHANGED kept
              \/ FinishEdit("failed")
    /\ UNCHANGED <<view, loaded, changes>>
-----------------------------------------------------------------------------
Init ==
    /\ disk = Doc([m |-> 0, n |-> 0])
    /\ routing = [m |-> 0, n |-> 0] /\ broken = FALSE /\ draft = NoDraft
    /\ view = [routing |-> routing, broken |-> broken, draft |-> draft]
    /\ loaded = Nothing /\ session = NoSession
    /\ recovery = <<>> /\ archive = <<>> /\ retained = {} /\ changes = 0

Next ==
    \/ DraftRules \/ DiscardDraft \/ Reload \/ RoutingReloaded \/ WriteFile \/ Snapshot
    \/ OpenRoutingEditor \/ SubmitRules \/ AskConflict
    \/ EditorSaves \/ EditorExits \/ EditorFails \/ Retry \/ Cancel \/ PromptFails \/ Submit

Spec == Init /\ [][Next]_vars
-----------------------------------------------------------------------------
(***************************************************************************)
(* When an edit ends, the text that the user left in the editor is in      *)
(* routing.json, in a recovery file or still at its snapshot: no           *)
(* cancellation, failed editor, prompt, submission or write, and no        *)
(* recovery name that sorts before the others, loses it (finish_edit,      *)
(* preserve_at).                                                           *)
(***************************************************************************)
EditIsKept ==
    session # NoSession /\ session' = NoSession
         /\ session.snap \notin {session.opened, Nothing}
     => \/ session.snap \in Range(recovery') \cup retained'
        \/ /\ disk'.kind = "doc" /\ session.snap.kind = "doc"
           /\ \A i \in Modes : session.snap.doc[i] # session.base.doc[i] =>
                 disk'.doc[i] = session.snap.doc[i]

(***************************************************************************)
(* Enter on the rule page replaces the rules of a mode only when the file  *)
(* still has those that the draft began from: rules that somebody else     *)
(* wrote in between, even after a reload showed them, end in a conflict    *)
(* (routing_rules_edit, commit_edit_at).                                   *)
(***************************************************************************)
RulesSeenBeforeReplaced ==
    SubmitRules /\ disk'.doc.m # disk.doc.m => disk.doc.m = view.draft.saved

(***************************************************************************)
(* A draft of the rule page lasts until Enter writes it, the user discards *)
(* it or a reload finds the file invalid.                                  *)
(***************************************************************************)
DraftsAreKept ==
    draft # NoDraft /\ draft' = NoDraft =>
     \/ DiscardDraft \/ DraftRules \/ broken'
     \/ disk'.kind = "doc" /\ disk'.doc.m = draft.rules
=============================================================================
