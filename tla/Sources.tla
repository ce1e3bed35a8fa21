------------------------------- MODULE Sources -------------------------------
(***************************************************************************)
(* The list of profiles and subscriptions and what is selected in it       *)
(* (app/model.rs, app/update/key/sources.rs, reorder.rs, confirm_delete.rs,*)
(* app/update/paste.rs).                                                   *)
(*                                                                         *)
(* The selection is a row number.  Keys of any client, subscription        *)
(* updates, reloads of profiles.json and saves that fail all change the    *)
(* rows under it.  Every change made by a key is saved: a failed save puts *)
(* the previous configuration back (daemon/config_io.rs).  What a save     *)
(* merges from the disk is ConfigStore's; here it arrives with a reload.   *)
(***************************************************************************)
EXTENDS Integers, Sequences, FiniteSets, SequencesExt

CONSTANTS
    Ids,        \* profile ids
    Subs,       \* subscription ids
    Edited      \* configurations an editor may leave on the disk

Standalone == "standalone"
NoId == 0

VARIABLES
    config,     \* [profiles: sequence of [id, sub], subs: sequence]
    selected,   \* model.selected, a row counted from 0
    overlay,    \* "None", "ConfirmDelete", or the help opened over it
    link        \* the profile that is connected or connecting, or NoId

vars == <<config, selected, overlay, link>>

ProfileIds(c) == {c.profiles[n].id : n \in DOMAIN c.profiles}
OfSource(c, s) == SelectSeq(c.profiles, LAMBDA p : p.sub = s)

\* sort_profiles_by_source: stable, standalone profiles first.
Normalised(c) ==
    [c EXCEPT !.profiles = OfSource(c, Standalone)
                           \o FlattenSeq([n \in DOMAIN c.subs |-> OfSource(c, c.subs[n])])]

-----------------------------------------------------------------------------
(* Rows.                                                                   *)

ProfileRow(p) == [kind |-> "profile", id |-> p.id, sub |-> p.sub]
HeaderRow(s) == [kind |-> "header", id |-> NoId, sub |-> s]
NoRow == [kind |-> "none", id |-> NoId, sub |-> Standalone]

RowsOf(profiles) == [n \in DOMAIN profiles |-> ProfileRow(profiles[n])]

\* source_rows
Rows(c) ==
    RowsOf(OfSource(c, Standalone))
        \o FlattenSeq([n \in DOMAIN c.subs |-> <<HeaderRow(c.subs[n])>> \o RowsOf(OfSource(c, c.subs[n]))])

\* selected_row
RowAt(c, n) == IF n < Len(Rows(c)) THEN Rows(c)[n + 1] ELSE NoRow
SelectedRow == RowAt(config, selected)

Position(c, Test(_)) ==
    LET hits == {n \in DOMAIN Rows(c) : Test(Rows(c)[n])}
    IN  IF hits = {} THEN 0 ELSE (CHOOSE n \in hits : \A m \in hits : n <= m) - 1

\* row_for_profile
RowForProfile(c, id) == Position(c, LAMBDA r : r.kind = "profile" /\ r.id = id)

\* row_for_subscription_header
RowForHeader(c, s) == Position(c, LAMBDA r : r.kind = "header" /\ r.sub = s)

Clamped(c, n) == IF n < Len(Rows(c)) THEN n ELSE IF Rows(c) = <<>> THEN 0 ELSE Len(Rows(c)) - 1

\* Seeded fault: the row number is kept, whatever the rows are.
SelectionIn_SameRow(c, old) == Clamped(c, selected)

\* replace_config_preserving_selection: the same profile, or the same
\* subscription, or the same row where it still exists.
SelectionIn(c, old) ==
    IF old.kind = "profile" /\ old.id \in ProfileIds(c) THEN RowForProfile(c, old.id)
    ELSE IF old.kind = "header" /\ old.sub \in Range(c.subs) THEN RowForHeader(c, old.sub)
    ELSE Clamped(c, selected)

\* select_next, select_prev, select_first, select_last, SelectSource,
\* MoveSourceSelection and a scroll of the pane: any existing row.
Select(n) ==
    /\ overlay = "None"
    /\ n < Len(Rows(config))
    /\ selected' = n
    /\ UNCHANGED <<config, overlay, link>>

-----------------------------------------------------------------------------
(* Saved changes.                                                          *)

\* persist_requested_change: the save normalises the new configuration, and
\* the selection follows its row of `edited`; a failed one restores `config`
\* and its row.
Saved(edited, row) ==
    \/ /\ config' = Normalised(edited)
       /\ selected' = SelectionIn(Normalised(edited), row)
    \/ /\ config' = config
       /\ selected' = SelectionIn(config, row)

Swapped(s, i, j) == [s EXCEPT ![i] = s[j], ![j] = s[i]]

\* move_profile: the next member of the same source.
Neighbours(i, up) == {j \in DOMAIN config.profiles :
    /\ config.profiles[j].sub = config.profiles[i].sub
    /\ IF up THEN j < i ELSE j > i}
Nearest(i, js) == CHOOSE j \in js : \A k \in js : (j - i) * (j - i) <= (k - i) * (k - i)

MoveProfile(up) ==
    \E i \in DOMAIN config.profiles :
        /\ SelectedRow = ProfileRow(config.profiles[i])
        /\ Neighbours(i, up) /= {}
        /\ LET j == Nearest(i, Neighbours(i, up)) IN
           Saved([config EXCEPT !.profiles = Swapped(@, i, j)], SelectedRow)

\* move_subscription
MoveSubscription(up) ==
    \E i \in DOMAIN config.subs :
        LET j == IF up THEN i - 1 ELSE i + 1 IN
        /\ SelectedRow = HeaderRow(config.subs[i])
        /\ j \in DOMAIN config.subs
        /\ Saved([config EXCEPT !.subs = Swapped(@, i, j)], SelectedRow)

\* move_selected_source
Move ==
    /\ overlay = "None"
    /\ \E up \in BOOLEAN : MoveProfile(up) \/ MoveSubscription(up)
    /\ UNCHANGED <<overlay, link>>

\* handle_clipboard_text with the link of a server that is not in the list:
\* add_profile selects it.
PasteProfile(id) ==
    /\ id \notin ProfileIds(config)
    /\ LET new == [id |-> id, sub |-> Standalone] IN
       Saved([config EXCEPT !.profiles = Append(@, new)], ProfileRow(new))
    /\ UNCHANGED <<overlay, link>>

\* add_and_fetch_subscription
PasteSubscription(s) ==
    /\ s \notin Range(config.subs)
    /\ Saved([config EXCEPT !.subs = Append(@, s)], HeaderRow(s))
    /\ UNCHANGED <<overlay, link>>

-----------------------------------------------------------------------------
(* Deleting.                                                               *)

\* is_connection_affected
IsConnectionAffected ==
    /\ link /= NoId
    /\ \E n \in DOMAIN config.profiles :
        /\ config.profiles[n].id = link
        /\ \/ SelectedRow = ProfileRow(config.profiles[n])
           \/ SelectedRow = HeaderRow(config.profiles[n].sub)

\* d: "Delete failed: disconnect first", or the dialog.
AskDelete ==
    /\ overlay = "None"
    /\ SelectedRow /= NoRow
    /\ ~IsConnectionAffected
    /\ overlay' = "ConfirmDelete"
    /\ UNCHANGED <<config, selected, link>>

\* delete_selected
Deleted ==
    IF SelectedRow.kind = "header"
    THEN [profiles |-> SelectSeq(config.profiles, LAMBDA p : p.sub /= SelectedRow.sub),
          subs |-> SelectSeq(config.subs, LAMBDA s : s /= SelectedRow.sub)]
    ELSE [config EXCEPT !.profiles = SelectSeq(@, LAMBDA p : p.id /= SelectedRow.id)]

\* Seeded fault: the connection is not looked at again.
ConfirmDelete_Unchecked ==
    /\ overlay = "ConfirmDelete"
    /\ overlay' = "None"
    /\ Saved(Deleted, RowAt(Deleted, Clamped(Deleted, selected)))
    /\ UNCHANGED link

\* handle_confirm_delete: what is selected now is deleted, unless a
\* connection needs it by now.
ConfirmDelete ==
    /\ overlay = "ConfirmDelete"
    /\ overlay' = "None"
    /\ IF IsConnectionAffected \/ SelectedRow = NoRow
       THEN UNCHANGED <<config, selected>>
       ELSE Saved(Deleted, RowAt(Deleted, Clamped(Deleted, selected)))
    /\ UNCHANGED link

\* n, q and Esc
CancelDelete ==
    /\ overlay = "ConfirmDelete"
    /\ overlay' = "None"
    /\ UNCHANGED <<config, selected, link>>

\* open_help and handle_help: restore_overlay brings the dialog back.
ToggleHelp ==
    /\ overlay \in {"ConfirmDelete", "Help"}
    /\ overlay' = IF overlay = "Help" THEN "ConfirmDelete" ELSE "Help"
    /\ UNCHANGED <<config, selected, link>>

-----------------------------------------------------------------------------
(* The connection and the background.                                      *)

\* Enter, ConnectProfile and Toggle: queue_connect.
Connect(id) ==
    /\ id \in ProfileIds(config)
    /\ link' = id
    /\ UNCHANGED <<config, selected, overlay>>

\* Disconnect closes every overlay (daemon/connection.rs).
Disconnect ==
    /\ link /= NoId
    /\ link' = NoId
    /\ overlay' = "None"
    /\ UNCHANGED <<config, selected>>

\* A connection whose profile is gone is ended.
LinkIn(c) == IF link \in ProfileIds(c) THEN link ELSE NoId
ClosesOverlay(c) == IF LinkIn(c) = link THEN overlay ELSE "None"

\* handle_config_reloaded
Reload(c) ==
    /\ config' = c
    /\ selected' = SelectionIn(c, SelectedRow)
    /\ link' = LinkIn(c)
    /\ overlay' = ClosesOverlay(c)

\* handle_subscription_result_at: the profiles of `s` are the fetched ones;
\* the header is selected, after a failed update too.  When the save fails
\* the effects are dropped with it, the disconnect among them.
SubscriptionResult(s, ids) ==
    LET kept == SelectSeq(config.profiles, LAMBDA p : p.sub /= s)
        c == Normalised([config EXCEPT !.profiles =
                 kept \o [n \in DOMAIN ids |-> [id |-> ids[n], sub |-> s]]])
    IN  /\ s \in Range(config.subs)
        /\ Range(ids) \cap {kept[n].id : n \in DOMAIN kept} = {}
        /\ \/ /\ config' = c
              /\ selected' = RowForHeader(c, s)
              /\ link' = LinkIn(c)
              /\ overlay' = ClosesOverlay(c)
           \/ /\ selected' = RowForHeader(config, s)
              /\ UNCHANGED <<config, link, overlay>>

Lists(ids) == {q \in UNION {[1..n -> ids] : n \in 0..Cardinality(ids)} : IsInjective(q)}

Init ==
    /\ config = [profiles |-> <<>>, subs |-> <<>>]
    /\ selected = 0
    /\ overlay = "None"
    /\ link = NoId

Next ==
    \/ \E n \in 0..(Cardinality(Ids) + Cardinality(Subs)) : Select(n)
    \/ Move \/ AskDelete \/ ConfirmDelete \/ CancelDelete \/ ToggleHelp \/ Disconnect
    \/ \E id \in Ids : PasteProfile(id) \/ Connect(id)
    \/ \E s \in Subs : PasteSubscription(s) \/ \E ids \in Lists(Ids) : SubscriptionResult(s, ids)
    \/ \E c \in Edited : Reload(c)

Spec == Init /\ [][Next]_vars

-----------------------------------------------------------------------------
(* Properties.                                                             *)

Sources(c) == Range(Rows(c))

\* The connection never runs on without its profile: neither a delete that
\* was asked for before it existed, nor an update or a reload that drops the
\* profile (confirm_delete.rs:13, subscription.rs:126, config_reload.rs:31).
ConnectionKeepsItsProfile == link \in ProfileIds(config) \cup {NoId}

\* The selection stays on its source while that exists, whatever is added,
\* removed or moved around it: only a new source and an updated subscription
\* take it over (model.rs:992-1017, reorder.rs:11-60).
SelectionFollowsSource ==
    config' /= config /\ SelectedRow \in Sources(config') =>
     \/ SelectedRow' = SelectedRow
     \/ SelectedRow' \notin Sources(config)
     \/ SelectedRow'.kind = "header" /\ OfSource(config', SelectedRow'.sub) /= OfSource(config, SelectedRow'.sub)
=============================================================================
