----------------------------- MODULE GeoUpdates -----------------------------
(***************************************************************************)
(* Rule-sets of the routing modes: automatic and manual updates, download  *)
(* threads, and how a connection follows what is on disk (app/update/      *)
(* geo.rs, routing.rs, tick.rs, config_reload.rs, daemon/geo.rs,           *)
(* route_plan.rs and what singbox/runner.rs asks of the cache).            *)
(*                                                                         *)
(* routing.json maps each mode to the rules it has: [sets, other], where   *)
(* sets are rules with a rule-set [key, url, required] and other stands    *)
(* for the rest of the mode.  The selected mode is the plan of the next    *)
(* tunnel.  The main loop knows the cache only through `states`, which     *)
(* messages of threads bring; a connect worker reads the disk itself.      *)
(***************************************************************************)
EXTENDS RuleSetCache, FiniteSets, SequencesExt

CONSTANTS
    Keys,       \* names of rule-set files
    Urls,       \* addresses they may come from
    Modes,      \* routing modes
    Routings,   \* versions of routing.json, functions from Modes
    Bounds      \* how often each kind of event may happen in a behaviour, and when

\* Keys pressed and edits of routing.json, downloads, connects, restarts,
\* metadata that cannot be written and new versions on the servers.
Events == {"user", "reload", "fetch", "connect", "restart", "disk", "release"}

VARIABLES
    now,        \* local time
    auto,       \* settings.geo_routing.auto_update
    killSwitch,
    routing,    \* model.routing
    mode,       \* the selected mode
    epoch,      \* model.geo_schedule_epoch
    states,     \* model.rule_set_states, by key
    marks,      \* model.rule_set_updates: Manual or Automatic
    attempts,   \* model.rule_set_automatic_attempts, by key
    meta,       \* metadata.json: [epoch, records]
    files,      \* the rule-set files, by key
    remote,     \* the version each server serves
    jobs,       \* download threads
    refreshes,  \* threads of refresh_rule_set_states: [sets, epoch, read, states]
    msgs,       \* messages to the main loop, in order
    link,       \* [state, fallback, worker, tunnel]
    stale,      \* rule-sets of which a thread reports what is no longer so: downloaded from an
                \* address routing.json no longer has, or read before a download ended
    count,      \* events so far
    bound       \* the member of Bounds this behaviour keeps to

cache == <<meta, files, remote>>
settings == <<auto, killSwitch, mode>>
model == <<epoch, states, marks, attempts>>
threads == <<jobs, refreshes>>
vars == <<now, settings, routing, model, cache, threads, msgs, link, stale, count, bound>>

-----------------------------------------------------------------------------
(* Plans (route_plan.rs).                                                  *)

RuleSet(entry) == [key |-> entry.key, url |-> entry.url]
RuleSets(plan) == {RuleSet(e) : e \in plan.sets}
Required(plan) == {RuleSet(e) : e \in {x \in plan.sets : x.required}}

Plan == routing[mode]
Selectable(r) == UNION {RuleSets(r[m]) : m \in Modes}
KeysOf(sets) == {rs.key : rs \in sets}

\* The rule-sets of a plan that are on disk.  A tunnel does without the rules
\* of the others, and without a required one it runs in the fallback.
Available(plan) == {rs \in RuleSets(plan) : HasCurrent(meta, files, rs)}
Fallback(plan, used) == Required(plan) \ used /= {}
Skipped(plan, used) == {RuleSet(e) : e \in {x \in plan.sets : ~x.required}} \ used

-----------------------------------------------------------------------------
(* The connection, as far as rule-sets are concerned.                      *)

\* A worker has `read` what is available, which it will have sing-box use;
\* `edited` remembers that routing.json changed after the plan was taken.
NoPlan == [sets |-> {}, other |-> 0]
NoTunnel == [up |-> FALSE, plan |-> NoPlan, from |-> <<>>, edited |-> FALSE]
NoWorker == [on |-> FALSE, plan |-> NoPlan, read |-> FALSE, used |-> {}, edited |-> FALSE]
IdleLink == [state |-> "Idle", fallback |-> FALSE, worker |-> NoWorker, tunnel |-> NoTunnel]

\* queue_connect: the attempt in progress, if any, is superseded; what it
\* still reports is ignored.  The old tunnel runs until the worker starts.
Queued(l) == [l EXCEPT !.state = "Connecting", !.worker = NoWorker]
Superseded(ms) ==
    [i \in DOMAIN ms |-> IF ms[i].type = "Connected" THEN [type |-> "Superseded"] ELSE ms[i]]
CurrentMsgs(l, ms) == IF l.state = "Connecting" THEN Superseded(ms) ELSE ms

\* reconnect_with_new_settings
Reconnected(l) == IF l.state \in {"Connected", "ConnectPending"} THEN Queued(l) ELSE l

Edited(l) == [l EXCEPT !.worker.edited = l.worker.on]

Counts(events) ==
    /\ count' = [e \in Events |-> count[e] + Cardinality({i \in DOMAIN events : events[i] = e})]
    /\ \A e \in Events : count'[e] <= bound[e]
    /\ UNCHANGED bound

-----------------------------------------------------------------------------
(* Starting downloads.                                                     *)

DownloadAllowed == ~killSwitch \/ link.state = "Connected"
Marked == DOMAIN marks

\* Seeded fault: rule-sets that are being downloaded are downloaded again.
Startable_Marked(sets) == sets

Startable(sets) == {rs \in sets : rs.key \notin Marked}

\* start_rule_set_download and the thread of Effect::DownloadRuleSets.
StartDownload(sets, trigger, onlyMissing) ==
    LET start == Startable(sets)
        job == [sets |-> start, todo |-> SetToSeq(start), phase |-> "load", saved |-> meta,
                onlyMissing |-> onlyMissing, epoch |-> epoch, reports |-> <<>>,
                write |-> [on |-> trigger = "Automatic" \/ (onlyMissing /\ auto /= "Off"),
                           epoch |-> epoch, days |-> IntervalDays(auto)]]
    IN  /\ marks' = Put(marks, [k \in KeysOf(start) |-> trigger])
        /\ jobs' = IF start = {} THEN jobs ELSE jobs \cup {job}

FetchEvents(sets) == [i \in 1..Cardinality(Startable(sets)) |-> "fetch"]

Due(k) ==
    /\ attempts[k] = Unset \/ now - attempts[k] >= 1
    /\ AutomaticDue(auto, states[k].retry, states[k].next, states[k].checked, now)

\* due_rule_sets: when one is due, all that are not being downloaded.
DueRuleSets ==
    LET idle == Startable(Selectable(routing)) IN
    IF DownloadAllowed /\ auto /= "Off" /\ \E rs \in idle : Due(rs.key) THEN idle ELSE {}

\* The turn of a tick that starts an automatic update.
TickUpdates ==
    LET due == DueRuleSets IN
    /\ due /= {}
    /\ attempts' = [k \in Keys |-> IF k \in KeysOf(due) THEN now ELSE attempts[k]]
    /\ StartDownload(due, "Automatic", FALSE)
    /\ Counts(FetchEvents(due))
    /\ UNCHANGED <<now, settings, routing, epoch, states, cache, refreshes, msgs, link, stale>>

\* update_geo (the U key)
UpdateGeo ==
    LET sets == Selectable(routing) IN
    /\ DownloadAllowed
    /\ Startable(sets) /= {}
    /\ StartDownload(sets, "Manual", FALSE)
    /\ Counts(<<"user">> \o FetchEvents(sets))
    /\ UNCHANGED <<now, settings, routing, epoch, states, attempts, cache, refreshes, msgs, link, stale>>

\* Seeded fault: states of an older schedule replace the ones of the reset.
Applied_AnyEpoch(old, known, e) == Put(old, known)

\* apply_rule_set_states: of states read under an older epoch, the schedule
\* is not taken.
Applied(old, known, e) ==
    Put(old, [k \in DOMAIN known |->
        IF e = epoch THEN known[k]
        ELSE [known[k] EXCEPT !.retry = old[k].retry, !.next = old[k].next]])

\* The I key: the next interval, and reset_update_schedules on the main
\* thread.  Metadata that cannot be written leaves the old schedules.
CycleGeoInterval ==
    LET sets == Selectable(routing)
        reset == ResetSchedules(meta, sets, auto' /= "Off", now)
    IN
    /\ auto' = NextSchedule(auto)
    /\ \/ /\ meta' = reset
          /\ epoch' = reset.epoch
          /\ states' = Put(states, StatesOf(reset, files, sets))
          /\ Counts(<<"user">>)
       \/ /\ Counts(<<"user", "disk">>)
          /\ UNCHANGED <<meta, epoch, states>>
    /\ UNCHANGED <<now, killSwitch, mode, routing, marks, attempts, files, remote, threads, msgs,
                   link, stale>>

-----------------------------------------------------------------------------
(* Changes of the plan.                                                    *)

\* commit_routing_mode and commit_routing_settings
SelectMode(m) ==
    /\ m /= mode
    /\ mode' = m
    /\ link' = IF link.state = "Connected" THEN Queued(link) ELSE link
    /\ Counts(<<"user">>)
    /\ UNCHANGED <<now, auto, killSwitch, routing, model, cache, threads, msgs, stale>>

\* A rule-set from a new address is downloaded first.
AwaitsDownload(old, new, started) ==
    \E rs \in RuleSets(new) :
        /\ \A o \in RuleSets(old) : o.url /= rs.url
        /\ rs.key \in KeysOf(started)

\* refresh_rule_set_states: a thread that reads the cache and then sends.
Reader(sets) == [sets |-> sets, epoch |-> epoch, read |-> FALSE, states |-> <<>>]

\* handle_routing_reloaded, for an edit, another program's write of
\* routing.json or the modes of a region: missing rule-sets are downloaded,
\* and a connection whose plan changed is made again, unless it waits for
\* the download.
ReloadRouting(r) ==
    LET sets == Selectable(r)
        changed == sets /= Selectable(routing)
        started == IF changed /\ DownloadAllowed THEN Startable(sets) ELSE {}
    IN
    /\ r /= routing
    /\ routing' = r
    /\ refreshes' = IF changed THEN refreshes \cup {Reader(sets)} ELSE refreshes
    /\ StartDownload(started, "Manual", TRUE)
    /\ link' = IF r[mode] /= routing[mode] /\ ~AwaitsDownload(routing[mode], r[mode], started)
               THEN Edited(Reconnected(link)) ELSE Edited(link)
    /\ msgs' = CurrentMsgs(link', msgs)
    /\ stale' = stale \cup {k \in Marked : \E rs \in sets : rs.key = k /\ rs \notin Selectable(routing)}
    /\ Counts(<<"reload">> \o FetchEvents(started))
    /\ UNCHANGED <<now, settings, epoch, states, attempts, cache>>

-----------------------------------------------------------------------------
(* Download threads: update_rule_sets, one rule-set after the other.       *)

Replace(j, new) == jobs' = (jobs \ {j}) \cup {new}

\* adopt_source; the metadata is loaded once, before the first one.
Adopt(j) ==
    LET rs == Head(j.todo)
        saved == IF j.phase = "load" THEN meta ELSE j.saved
        record == meta.records[rs.key]
    IN
    /\ j.phase \in {"load", "adopt"}
    /\ files' = [files EXCEPT ![rs.key] = AdoptedFile(record, @, rs)]
    /\ \/ meta' = [meta EXCEPT !.records[rs.key] = Adopted(record, rs)] /\ Counts(<<>>)
       \/ UNCHANGED meta /\ Counts(<<"disk">>)
    /\ Replace(j, [j EXCEPT !.phase = "fetch", !.saved = saved])
    /\ UNCHANGED <<now, settings, routing, model, remote, refreshes, msgs, link, stale>>

Outcome(failed, updated, already, etag) ==
    [failed |-> failed, updated |-> updated, alreadyPresent |-> already, etag |-> etag]

\* refresh_rule_set: HEAD and GET may each fail; a body that is no rule-set
\* leaves the file that was there.
Fetch(j) ==
    LET rs == Head(j.todo)
        version == remote[rs.url]
        ends(outcome) == Replace(j, [j EXCEPT !.phase = "record",
                                              !.reports = Put(@, [k \in {rs.key} |-> outcome])])
    IN
    /\ j.phase = "fetch"
    /\ IF j.onlyMissing /\ HasCurrent(j.saved, files, rs)
       THEN ends(Outcome(FALSE, FALSE, TRUE, Unset)) /\ UNCHANGED files
       ELSE \/ ends(Outcome(TRUE, FALSE, FALSE, Unset)) /\ UNCHANGED files
            \/ \E head \in {"ok", "status"} :
                 /\ head = "status" => HasCurrent(j.saved, files, rs)
                 /\ IF NeedsDownload(j.saved, files, rs, head, version)
                    THEN /\ files' = [files EXCEPT ![rs.key] = DownloadedFile(rs, version)]
                         /\ ends(Outcome(FALSE, TRUE, FALSE, version))
                    ELSE ends(Outcome(FALSE, FALSE, FALSE, Unset)) /\ UNCHANGED files
    /\ UNCHANGED <<now, settings, routing, model, meta, remote, refreshes, msgs, link, stale,
                   count, bound>>

\* record_outcome; the next rule-set, or none left.
Record(j) ==
    LET rs == Head(j.todo)
        rest == Tail(j.todo)
    IN
    /\ j.phase = "record"
    /\ \/ meta' = [meta EXCEPT !.records[rs.key] = Recorded(meta, rs, j.reports[rs.key], j.write, now)]
          /\ Counts(<<>>)
       \/ UNCHANGED meta /\ Counts(<<"disk">>)
    /\ Replace(j, [j EXCEPT !.todo = rest, !.phase = IF rest = <<>> THEN "send" ELSE "adopt"])
    /\ UNCHANGED <<now, settings, routing, model, files, remote, refreshes, msgs, link, stale>>

\* The message of the thread, with the states it reads at the end.
Send(j) ==
    /\ j.phase = "send"
    /\ jobs' = jobs \ {j}
    /\ msgs' = Append(msgs, [type |-> "Updated", reports |-> j.reports, epoch |-> j.epoch,
                             states |-> StatesOf(meta, files, j.sets)])
    /\ UNCHANGED <<now, settings, routing, model, cache, refreshes, link, stale, count, bound>>

ReadStates(t) ==
    /\ ~t.read
    /\ refreshes' = (refreshes \ {t}) \cup
           {[t EXCEPT !.read = TRUE, !.states = StatesOf(meta, files, t.sets)]}
    /\ UNCHANGED <<now, settings, routing, model, cache, jobs, msgs, link, stale, count, bound>>

\* Rule-sets whose states are no longer what a thread read, and of which no
\* download will report.
Outdated(known) ==
    LET sets == Selectable(routing)
        downloaded == UNION {KeysOf(j.sets) : j \in jobs}
    IN  {k \in (DOMAIN known \cap KeysOf(sets)) \ downloaded :
            known[k] /= StatesOf(meta, files, sets)[k]}

Refresh(t) ==
    /\ t.read
    /\ refreshes' = refreshes \ {t}
    /\ msgs' = Append(msgs, [type |-> "Refreshed", epoch |-> t.epoch, states |-> t.states])
    /\ stale' = stale \cup Outdated(t.states)
    /\ UNCHANGED <<now, settings, routing, model, cache, jobs, link, count, bound>>

-----------------------------------------------------------------------------
(* Messages.                                                               *)

\* Seeded fault: what the message brings is not looked at.
LeavesFallback_Before(known, busy) ==
    \A rs \in Required(Plan) : rs.key \notin busy /\ states[rs.key].present

\* leave_routing_fallback: nothing while a required rule-set is downloaded
\* or missing.
LeavesFallback(known, busy) ==
    \A rs \in Required(Plan) : rs.key \notin busy /\ known[rs.key].present

\* reconnect_for_updated_rule_sets
Routes(updated) == updated \cap KeysOf(RuleSets(Plan)) /= {}

\* handle_rule_sets_updated
HandleUpdated ==
    LET m == Head(msgs)
        keys == DOMAIN m.reports
        updated == {k \in keys : m.reports[k].updated}
        again == link.state = "Connected" /\
                 IF link.fallback THEN LeavesFallback(states', Marked \ keys) ELSE Routes(updated)
    IN
    /\ msgs /= <<>> /\ m.type = "Updated"
    /\ marks' = [k \in Marked \ keys |-> marks[k]]
    /\ states' = Applied(states, m.states, m.epoch)
    /\ link' = IF again THEN Queued(link) ELSE link
    /\ msgs' = Tail(msgs)
    /\ UNCHANGED <<now, settings, routing, epoch, attempts, cache, threads, stale, count, bound>>

HandleRefreshed ==
    /\ msgs /= <<>> /\ Head(msgs).type = "Refreshed"
    /\ states' = Applied(states, Head(msgs).states, Head(msgs).epoch)
    /\ msgs' = Tail(msgs)
    /\ UNCHANGED <<now, settings, routing, epoch, marks, attempts, cache, threads, link, stale,
                   count, bound>>

\* rule_set_retry_pending
RetryPending(rs) == states[rs.key].retry /= NoRetry /\ states[rs.key].retry.at > now

\* Seeded fault: every skipped rule-set asks for a reconnect.
ArrivedMeanwhile_Always(skipped) == skipped /= {}

ArrivedMeanwhile(skipped) == \E rs \in skipped : states[rs.key].present

\* on_connected, with fetch_region_rule_sets or fetch_skipped_rule_sets.
HandleConnected ==
    LET m == Head(msgs)
        again == ~m.fallback /\ ArrivedMeanwhile(m.skipped)
        wanted == IF m.fallback THEN RuleSets(Plan)
                  ELSE IF again THEN {} ELSE {rs \in m.skipped : ~RetryPending(rs)}
        up == [link EXCEPT !.state = "Connected", !.fallback = m.fallback, !.worker = NoWorker]
    IN
    /\ msgs /= <<>> /\ m.type = "Connected"
    /\ link' = IF again THEN Queued(up) ELSE up
    /\ StartDownload(wanted, "Manual", TRUE)
    /\ msgs' = Tail(msgs)
    /\ stale' = stale \cup KeysOf(Startable(wanted) \ Selectable(routing))
    /\ Counts(FetchEvents(wanted))
    /\ UNCHANGED <<now, settings, routing, epoch, states, attempts, cache, refreshes>>

\* The report of an attempt that is no longer the current one.
HandleSuperseded ==
    /\ msgs /= <<>> /\ Head(msgs).type = "Superseded"
    /\ msgs' = Tail(msgs)
    /\ UNCHANGED <<now, settings, routing, model, cache, threads, link, stale, count, bound>>

-----------------------------------------------------------------------------
(* Connecting.                                                             *)

UserConnects ==
    /\ link.state = "Idle"
    /\ link' = Queued(link)
    /\ Counts(<<"connect">>)
    /\ UNCHANGED <<now, settings, routing, model, cache, threads, msgs, stale>>

UserDisconnects ==
    /\ link.state /= "Idle"
    /\ link' = IdleLink
    /\ msgs' = Superseded(msgs)
    /\ Counts(<<"user">>)
    /\ UNCHANGED <<now, settings, routing, model, cache, threads, stale>>

\* Effect::Connect: the worker takes the plan; the old tunnel is stopped.
TickConnects ==
    /\ link.state = "Connecting"
    /\ link' = [link EXCEPT !.state = "ConnectPending", !.tunnel = NoTunnel,
                            !.worker = [NoWorker EXCEPT !.on = TRUE, !.plan = Plan]]
    /\ UNCHANGED <<now, settings, routing, model, cache, threads, msgs, stale, count, bound>>

\* collect_geo_availability: what the configuration of sing-box will name.
WorkerReads ==
    /\ link.worker.on /\ ~link.worker.read
    /\ link' = [link EXCEPT !.worker.read = TRUE, !.worker.used = Available(link.worker.plan)]
    /\ UNCHANGED <<now, settings, routing, model, cache, threads, msgs, stale, count, bound>>

\* The attempt of start_with that succeeds.  sing-box opens the files by name
\* only now, after check_config and the attempts before: a download may have
\* removed one, and sing-box does not start, or put another in its place.
WorkerStarts ==
    LET plan == link.worker.plan
        used == link.worker.used
    IN
    /\ link.worker.on /\ link.worker.read
    /\ \A rs \in used : files[rs.key].usable
    /\ link' = [link EXCEPT !.worker = NoWorker,
                  !.tunnel = [up |-> TRUE, plan |-> plan, edited |-> link.worker.edited,
                              from |-> [k \in KeysOf(used) |-> files[k].url]]]
    /\ msgs' = Append(msgs, [type |-> "Connected", fallback |-> Fallback(plan, used),
                             skipped |-> Skipped(plan, used)])
    /\ UNCHANGED <<now, settings, routing, model, cache, threads, stale, count, bound>>

\* check_config or sing-box fails: on_connect_failed.
WorkerFails ==
    /\ link.worker.on
    /\ link' = IdleLink
    /\ UNCHANGED <<now, settings, routing, model, cache, threads, msgs, stale, count, bound>>

-----------------------------------------------------------------------------
(* Time, servers and restarts.                                             *)

Advance ==
    LET later == {t \in bound.times : t > now} IN
    /\ later /= {}
    /\ now' = Min(later)
    /\ UNCHANGED <<settings, routing, model, cache, threads, msgs, link, stale, count, bound>>

NewVersion(u) ==
    /\ remote' = [remote EXCEPT ![u] = @ + 1]
    /\ Counts(<<"release">>)
    /\ UNCHANGED <<now, settings, routing, model, meta, files, threads, msgs, link, stale>>

\* load_rule_set_states
Loaded(m, sets) ==
    Put([k \in Keys |-> [present |-> FALSE, checked |-> Unset, retry |-> NoRetry, next |-> Unset]],
        StatesOf(m, files, sets))

\* The daemon dies and a new one starts: threads and messages are gone.
Restart ==
    LET sets == Selectable(routing) IN
    /\ meta' = EnsureSchedules(meta, sets, auto /= "Off", now)
    /\ epoch' = meta.epoch
    /\ states' = Loaded(meta', sets)
    /\ marks' = <<>>
    /\ attempts' = [k \in Keys |-> Unset]
    /\ jobs' = {} /\ refreshes' = {} /\ msgs' = <<>>
    /\ link' = IdleLink
    /\ stale' = {}
    /\ Counts(<<"restart">>)
    /\ UNCHANGED <<now, settings, routing, files, remote>>

Init ==
    /\ bound \in Bounds
    /\ now = Min(bound.times)
    /\ auto = "Every1d"
    /\ killSwitch = bound.killSwitch
    /\ routing \in Routings
    /\ mode \in Modes
    /\ files = [k \in Keys |-> NoFile]
    /\ remote = [u \in Urls |-> 1]
    /\ meta = EnsureSchedules([epoch |-> 0, records |-> [k \in Keys |-> NoRecord]],
                              Selectable(routing), TRUE, now)
    /\ epoch = 0
    /\ states = Loaded(meta, Selectable(routing))
    /\ marks = <<>>
    /\ attempts = [k \in Keys |-> Unset]
    /\ jobs = {} /\ refreshes = {} /\ msgs = <<>>
    /\ link = IdleLink
    /\ stale = {}
    /\ count = [e \in Events |-> 0]

Next ==
    \/ TickUpdates \/ UpdateGeo \/ CycleGeoInterval
    \/ \E m \in Modes : SelectMode(m)
    \/ \E r \in Routings : ReloadRouting(r)
    \/ \E j \in jobs : Adopt(j) \/ Fetch(j) \/ Record(j) \/ Send(j)
    \/ \E t \in refreshes : ReadStates(t) \/ Refresh(t)
    \/ HandleUpdated \/ HandleRefreshed \/ HandleConnected \/ HandleSuperseded
    \/ UserConnects \/ UserDisconnects \/ TickConnects
    \/ WorkerReads \/ WorkerStarts \/ WorkerFails
    \/ Advance
    \/ \E u \in Urls : NewVersion(u)
    \/ Restart

Spec == Init /\ [][Next]_vars

\* Messages are taken, ticks and threads go on, and a start succeeds or fails.
TakesMessage == msgs /= <<>> /\ msgs' = Tail(msgs)
JobProceeds == \E j \in jobs : Adopt(j) \/ Fetch(j) \/ Record(j) \/ Send(j)
Refreshes == \E t \in refreshes : ReadStates(t) \/ Refresh(t)
WorkerProceeds == WorkerReads \/ WorkerStarts \/ WorkerFails

Proceeds ==
    /\ WF_msgs(TakesMessage)
    /\ WF_link(TickConnects)
    /\ WF_link(WorkerProceeds)
    /\ WF_jobs(JobProceeds)
    /\ WF_refreshes(Refreshes)

FairSpec == Spec /\ Proceeds

-----------------------------------------------------------------------------
(* Properties.                                                             *)

\* No rule-set is downloaded by two threads at once, however a schedule, a
\* key, a reload of routing.json and a connect ask for it.
OneDownloadPerFile ==
    \A i, j \in jobs : i /= j => KeysOf(i.sets) \cap KeysOf(j.sets) = {}

\* A tunnel only routes by files that came from the address its plan has
\* for them: changing an address discards the downloaded file, whatever
\* downloads were under way.  What sing-box opens may be of another address
\* only where routing.json was edited while it was being started, or while a
\* thread downloaded the file from the address before (geo.rs:403-420,
\* singbox/runner.rs:128-151).
RoutedFromSource ==
    (link.tunnel.up /\ ~link.tunnel.edited) => \A rs \in RuleSets(link.tunnel.plan) :
        (rs.key \in DOMAIN link.tunnel.from /\ rs.key \notin stale) =>
            (count.disk > 0 \/ link.tunnel.from[rs.key] = rs.url)

\* Nothing is under way that could still change what the daemon knows.
Quiet == jobs = {} /\ refreshes = {} /\ msgs = <<>>

\* Once threads and messages are through, the daemon's view of its
\* rule-sets is what the cache holds, even when a reset of the schedules, a
\* refresh and downloads overlapped or metadata could not be written.
StatesMatchDisk ==
    (Quiet /\ stale = {}) =>
        LET sets == Selectable(routing) IN
        \A k \in KeysOf(sets) : states[k] = StatesOf(meta, files, sets)[k]

\* A connection with the selected mode only stays in the fallback while a
\* required rule-set is missing on disk.
FallbackOnlyWhileMissing ==
    (Quiet /\ stale = {} /\ link.state = "Connected" /\ link.fallback /\ link.tunnel.plan = Plan) =>
        \E rs \in Required(Plan) : ~HasCurrent(meta, files, rs)

\* A connection that is wanted is up sooner or later and stays so: it is not
\* made again and again.  Unless a rule-set was downloaded from an address
\* that routing.json no longer has.
Settled == link.state \in {"Idle", "Connected"}
ConnectionSettles == [](stale = {}) => <>[]Settled

\* The same without the exception: a rule-set that is not there yet is left
\* out of the connection until its file is.
ConnectionAlwaysSettles == <>[]Settled

\* The saved routing.json applies: once everything is through, a connection
\* runs the plan of the mode that is selected.
TunnelRunsCurrentPlan ==
    (Quiet /\ link.state = "Connected") => link.tunnel.plan = Plan

=============================================================================
