--------------------------- MODULE Subscriptions ---------------------------
(***************************************************************************)
(* Subscriptions of the daemon: the automatic schedule, the updates a user *)
(* starts, the fetch threads and the handler that merges a fetched list    *)
(* into the configuration (app/update/subscription.rs, tick.rs, paste.rs,  *)
(* key/sources.rs, key/confirm_delete.rs, daemon/subscription.rs).         *)
(*                                                                         *)
(* An update is marked in `marks` when it starts and unmarked by the       *)
(* handler of its result; the mark keeps a second one from starting.  A    *)
(* handler edits the configuration in memory and asks for a save; a failed *)
(* save restores the configuration and drops the other effects.            *)
(***************************************************************************)
EXTENDS Schedule, Naturals, SequencesExt, FiniteSets, FiniteSetsExt

CONSTANTS
    Subs,               \* subscription ids
    Servers,            \* [addr, cred, sni, pbk]: what identifies a server
    Answers,            \* answers of a subscription server
    Malformed,          \* a line that does not parse,
    StatusStub,         \* a placeholder address with a notice as its name,
    InfoNode,           \* and the loopback address: what a body may hold besides servers
    InitialProfiles,    \* the profiles of the configuration at the start
    InitialSubs,        \* and its subscriptions
    Bounds              \* how often each kind of event may happen in a behaviour, and when

NoSub == "none"
NoId == 0

\* Keys and pastes, failed saves, fetches, fetched lists and connections.
Events == {"user", "save", "fetch", "list", "move"}

VARIABLES
    now,        \* local time
    config,     \* [order, subs, profiles]: subscriptions in order, and profiles
    marks,      \* model.subscription_updates: Manual or Automatic
    inFlight,   \* the subscriptions with a fetch thread
    results,    \* SubscriptionFetched messages, by subscription
    link,       \* connection, active_profile_id, connecting_profile_id
    killSwitch,
    nextId,     \* ids not used so far
    failedToday,\* automatic updates that failed on the date of now since the last reset
    count,      \* events so far, of user, save, fetch, list and move
    bound       \* the member of Bounds this behaviour keeps to

vars == <<now, config, marks, inFlight, results, link, killSwitch, nextId,
          failedToday, count, bound>>

-----------------------------------------------------------------------------
(* What a fetch thread makes of an answer (config/subscription.rs): either *)
(* the list of servers it read, or an error.                               *)

Special == {Malformed, StatusStub, InfoNode}

Error == [ok |-> FALSE, servers |-> <<>>]
Fetched(servers) == [ok |-> TRUE, servers |-> servers]

\* validate_subscription_url: HTTPS, or HTTP when the settings allow it.
UrlAllowed(answer) ==
    /\ answer.host
    /\ answer.scheme = "https" \/ (answer.scheme = "http" /\ answer.allowHttp)

\* fetch_response: the request fails, the status is not 200, or the body is
\* larger than the limit; every one of them is an error.
ResponseArrives(answer) ==
    /\ answer.transport = "ok"
    /\ answer.status = 200
    /\ ~answer.tooLarge

\* hwid_response_error: the server asks for a device id, does not accept
\* it, or has reached its limit of devices.
HwidRefused(answer) == answer.hwid \in {"NotSupported", "MaxDevicesReached"}

\* SubscriptionUserinfo: expired, or the traffic used up.  Zero means
\* unlimited; a field that is absent (0 here too) proves nothing.
UserinfoInactive(info) ==
    \/ info.expire > 0 /\ info.expire <= info.now
    \/ info.total > 0 /\ info.upload + info.download >= info.total

\* xray_vless_link: only a VLESS outbound that is complete becomes a link.
XrayVlessLink(outbound) == outbound /= Malformed

\* try_parse_xray_json: a document without a server is not taken for this form.
XrayServers(body) == IF body.form = "xray" THEN SelectSeq(body.lines, XrayVlessLink) ELSE <<>>

\* try_decode_base64: only a decoded text with a line of a supported scheme
\* replaces the body.  The raw text of base64 and of JSON holds no link.
TextLines(body) ==
    IF body.form = "plain" \/ (body.form = "base64" /\ \E i \in DOMAIN body.lines : body.lines[i] /= Malformed)
    THEN body.lines
    ELSE <<Malformed>>

\* parse_subscription_body, as the profiles read and whether every line of
\* a text was one.
ParsedBody(body) ==
    LET xray == XrayServers(body)
        lines == TextLines(body)
    IN  IF xray /= <<>>
        THEN [profiles |-> xray, everyLine |-> FALSE]
        ELSE [profiles |-> SelectSeq(lines, LAMBDA l : l /= Malformed),
              everyLine |-> Malformed \notin ToSet(lines)]

\* without_status_stubs: the notices of a provider, which are no servers.
Notices(parsed, answer) ==
    IF parsed.everyLine /\ ToSet(parsed.profiles) \subseteq {InfoNode} /\ UserinfoInactive(answer.userinfo)
    THEN {InfoNode}
    ELSE {StatusStub}

\* fetch_subscription_after_validation, from the request to the list.
FetchSubscription(answer) ==
    LET parsed == ParsedBody(answer.body)
        servers == SelectSeq(parsed.profiles, LAMBDA p : p \notin Notices(parsed, answer))
    IN  IF \/ ~UrlAllowed(answer)
           \/ ~ResponseArrives(answer)
           \/ HwidRefused(answer)
           \/ servers = <<>>
        THEN Error
        ELSE Fetched(servers)

-----------------------------------------------------------------------------
(* Profiles and what identifies them (config/profile/entry.rs).            *)

\* The information node is a SOCKS profile without credentials.
DedupKey(server) ==
    IF server = InfoNode THEN <<InfoNode>> ELSE <<server.cred, server.addr, server.sni>>
EndpointKey(server) ==
    IF server = InfoNode THEN <<InfoNode>> ELSE <<server.addr, server.sni>>
\* Only a REALITY server has a rotation key.
RotationKey(server) ==
    IF server = InfoNode \/ server.pbk = NoSub THEN <<>>
    ELSE <<server.cred, server.addr, server.pbk>>

Keys(servers) == {DedupKey(servers[i]) : i \in DOMAIN servers}

ProfilesOf(s) == SelectSeq(config.profiles, LAMBDA p : p.sub = s)
Ids(profiles) == {profiles[i].id : i \in DOMAIN profiles}

-----------------------------------------------------------------------------
(* Carrying the ids of the previous profiles over to a fetched list.       *)

\* A server already in the list keeps its id; of equal ones the first does.
ExactIds(previous, servers) ==
    [i \in DOMAIN servers |->
        LET k == DedupKey(servers[i])
            held == {j \in DOMAIN previous : DedupKey(previous[j].server) = k}
        IN  IF held /= {} /\ \A h \in 1..(i - 1) : DedupKey(servers[h]) /= k
            THEN previous[Max(held)].id
            ELSE NoId]

\* The one profile left over with a key goes to the one new server with it.
UniqueMatches(ids, previous, left, servers, KeyOf(_)) ==
    LET matched == {DedupKey(servers[i]) : i \in {h \in DOMAIN servers : ids[h] /= NoId}}
        arrivals(g) == {DedupKey(servers[i]) :
                            i \in {h \in DOMAIN servers : KeyOf(servers[h]) = g}} \ matched
        leftovers(g) == {j \in left : KeyOf(previous[j].server) = g}
    IN  [i \in DOMAIN servers |->
            LET k == DedupKey(servers[i])
                g == KeyOf(servers[i])
            IN  IF /\ g /= <<>>
                   /\ arrivals(g) = {k}
                   /\ \A h \in 1..(i - 1) : DedupKey(servers[h]) /= k
                   /\ Cardinality(leftovers(g)) = 1
                THEN previous[CHOOSE j \in leftovers(g) : TRUE].id
                ELSE ids[i]]

\* Seeded fault: ids that were already reused are matched again.
ReuseAcrossRotation_Taken(ids, previous, servers) ==
    UniqueMatches(ids, previous, DOMAIN previous, servers, RotationKey)

\* reuse_ids_across_reality_rotation
ReuseAcrossRotation(ids, previous, servers) ==
    UniqueMatches(ids, previous,
                  {j \in DOMAIN previous : previous[j].id \notin Range(ids)},
                  servers, RotationKey)

\* Seeded fault: a server already in the list is only matched by its endpoint.
ReusedIds_ByEndpoint(previous, servers) ==
    UniqueMatches([i \in DOMAIN servers |-> NoId], previous, DOMAIN previous, servers, EndpointKey)

\* reuse_previous_ids: exact matches, then the endpoint alone (a credential
\* changed), then the credential and REALITY key (the server name changed).
ReusedIds(previous, servers) ==
    LET exact == ExactIds(previous, servers)
        claimed == {DedupKey(servers[i]) : i \in {h \in DOMAIN servers : exact[h] /= NoId}}
        last(j) == \A h \in (j + 1)..Len(previous) :
                      DedupKey(previous[h].server) /= DedupKey(previous[j].server)
        left == {j \in DOMAIN previous : last(j) /\ DedupKey(previous[j].server) \notin claimed}
    IN  ReuseAcrossRotation(UniqueMatches(exact, previous, left, servers, EndpointKey),
                            previous, servers)

\* Seeded fault: the order of the fetched list.
Ordered_AsFetched(previous, servers, ids) == [k \in DOMAIN servers |-> k]

\* keep_previous_order: reused ids in their previous order, then the others
\* in the order of the list.
Ordered(previous, servers, ids) ==
    LET place(i) == IF ids[i] \in Ids(previous)
                    THEN CHOOSE j \in DOMAIN previous : previous[j].id = ids[i]
                    ELSE Len(previous) + i
    IN  [k \in DOMAIN servers |->
            CHOOSE i \in DOMAIN servers :
                Cardinality({h \in DOMAIN servers : place(h) < place(i) \/ (place(h) = place(i) /\ h < i)}) = k - 1]

\* Seeded fault: an id that is given out is not used up.
Imported_SameNext(s, acc, server, id) ==
    [acc EXCEPT !.profiles = Append(@, [id |-> IF id = NoId THEN acc.next ELSE id,
                                        server |-> server, sub |-> s])]

\* One server of the list: with a reused id it is added; otherwise a profile
\* with the same key is taken over when it belongs to no subscription, and
\* wins when it belongs to one.
Imported(s, acc, server, id) ==
    LET same == {i \in DOMAIN acc.profiles :
                    DedupKey(acc.profiles[i].server) = DedupKey(server)}
        first == Min(same)
        add(profiles, i) == Append(profiles, [id |-> i, server |-> server, sub |-> s])
    IN  CASE id /= NoId -> [acc EXCEPT !.profiles = add(@, id)]
          [] id = NoId /\ same = {} ->
                [profiles |-> add(acc.profiles, acc.next), next |-> acc.next + 1]
          [] OTHER ->
                IF acc.profiles[first].sub = NoSub
                THEN [acc EXCEPT !.profiles = add(RemoveAt(@, first), acc.profiles[first].id)]
                ELSE acc

\* The profiles after a successful update, and the ids left.
Merged(s, servers) ==
    LET previous == ProfilesOf(s)
        ids == ReusedIds(previous, servers)
        order == Ordered(previous, servers, ids)
        step(acc, i) == Imported(s, acc, servers[i], ids[i])
    IN  FoldLeft(step,
                 [profiles |-> SelectSeq(config.profiles, LAMBDA p : p.sub /= s), next |-> nextId],
                 order)

-----------------------------------------------------------------------------
(* Starting updates.                                                       *)

\* download_allowed
DownloadAllowed == ~killSwitch \/ link.state = "Connected"

\* The subscription of a new URL: daily updates from the next window on.
NewSub == [auto |-> "Every1d", last |-> Unset, next |-> NextWindowDate(now), retry |-> NoRetry]

\* sort_profiles_by_source: standalone profiles, then those of each
\* subscription in order, each in the order they had.
Normalized(c) ==
    LET from(s) == SelectSeq(c.profiles, LAMBDA p : p.sub = s)
    IN  [c EXCEPT !.profiles = FlattenSeq(<<from(NoSub)>> \o [i \in DOMAIN c.order |-> from(c.order[i])])]

\* persist_requested_change: the edited configuration in its normal order,
\* or after a failed save the one before the update.
Commit(edited, saved) == config' = IF saved THEN Normalized(edited) ELSE config

\* Effect::UpdateSubscription starts a thread for every subscription of S
\* that the configuration holds.
Spawn(S) == inFlight' = inFlight \cup (S \cap DOMAIN config'.subs)

\* Counts events against the bounds.
Counts(events) ==
    /\ count' = [e \in Events |-> count[e] + Cardinality({i \in DOMAIN events : events[i] = e})]
    /\ \A e \in Events : count'[e] <= bound[e]
    /\ UNCHANGED bound

SaveEvent(saved) == IF saved THEN <<>> ELSE <<"save">>

Marked == DOMAIN marks
Mark(S, trigger) == Put(marks, [s \in S |-> trigger])

Due(s) ==
    LET sub == config.subs[s] IN
    /\ sub.auto /= "Off"
    /\ s \notin Marked
    /\ AutomaticDue(sub.auto, sub.retry, sub.next, sub.last, now)

\* check_due_subscriptions_at, in the turn of a tick.
Tick ==
    LET due == {s \in DOMAIN config.subs : DownloadAllowed /\ Due(s)} IN
    /\ due /= {}
    /\ marks' = Mark(due, "Automatic")
    /\ config' = config
    /\ Spawn(due)
    /\ Counts([i \in 1..Cardinality(due) |-> "fetch"])
    /\ UNCHANGED <<now, results, link, killSwitch, nextId, failedToday>>

\* Seeded fault: a failed save drops the mark's effect, a successful one, too.
StartManual_NoEffect(s, edited) ==
    /\ marks' = Mark({s}, "Manual")
    /\ Commit(edited, TRUE)
    /\ Spawn({})
    /\ Counts(<<"user">>)

\* A save that fails drops the UpdateSubscription effect, not the mark.
StartManual(s, edited) ==
    /\ marks' = Mark({s}, "Manual")
    /\ \E saved \in BOOLEAN :
        /\ Commit(edited, saved)
        /\ Spawn(IF saved THEN {s} ELSE {})
        /\ Counts(<<"user", "fetch">> \o SaveEvent(saved))

\* update_selected_subscription (the u key), and Enter on a subscription
\* without profiles.
UpdateManually(s) ==
    /\ s \in DOMAIN config.subs \ Marked
    /\ DownloadAllowed
    /\ StartManual(s, config)
    /\ UNCHANGED <<now, results, link, killSwitch, nextId, failedToday>>

\* add_and_fetch_subscription: without a download the subscription is only
\* added.  A new subscription has a new id, so s has no past.
PasteSubscription(s) ==
    LET edited == [config EXCEPT !.subs = Put(@, [t \in {s} |-> NewSub]), !.order = Append(@, s)] IN
    /\ s \notin DOMAIN config.subs \cup Marked \cup inFlight \cup DOMAIN results
    /\ \/ DownloadAllowed /\ StartManual(s, edited)
       \/ /\ ~DownloadAllowed
          /\ \E saved \in BOOLEAN : Commit(edited, saved) /\ Counts(<<"user">> \o SaveEvent(saved))
          /\ UNCHANGED <<marks, inFlight>>
    /\ failedToday' = [failedToday EXCEPT ![s] = 0]
    /\ UNCHANGED <<now, results, link, killSwitch, nextId>>

\* handle_clipboard_text with a share link: refused when a profile has the
\* same key.
PasteProfile(server) ==
    /\ \A i \in DOMAIN config.profiles : DedupKey(config.profiles[i].server) /= DedupKey(server)
    /\ \E saved \in BOOLEAN :
        /\ Commit([config EXCEPT !.profiles =
                      Append(@, [id |-> nextId, server |-> server, sub |-> NoSub])], saved)
        /\ Counts(<<"user">> \o SaveEvent(saved))
    /\ nextId' = nextId + 1
    /\ UNCHANGED <<now, marks, inFlight, results, link, killSwitch, failedToday>>

\* The i key: the next interval starts its schedule anew.
CycleInterval(s) ==
    LET auto == NextSchedule(config.subs[s].auto)
        edited == [config EXCEPT !.subs[s] =
                      [@ EXCEPT !.auto = auto, !.retry = NoRetry,
                                !.next = IF auto = "Off" THEN Unset ELSE NextWindowDate(now)]]
    IN
    /\ \E saved \in BOOLEAN :
        /\ Commit(edited, saved)
        /\ failedToday' = IF saved THEN [failedToday EXCEPT ![s] = 0] ELSE failedToday
        /\ Counts(<<"user">> \o SaveEvent(saved))
    /\ UNCHANGED <<now, marks, inFlight, results, link, killSwitch, nextId>>

\* is_connection_affected for the row of a subscription: a connection uses
\* one of its profiles.
ConnectionUses(s) == Ids(ProfilesOf(s)) \cap {link.active, link.connecting} /= {}

\* handle_confirm_delete on a subscription row.
DeleteSubscription(s) ==
    LET edited == [order |-> SelectSeq(config.order, LAMBDA t : t /= s),
                   subs |-> [t \in DOMAIN config.subs \ {s} |-> config.subs[t]],
                   profiles |-> SelectSeq(config.profiles, LAMBDA p : p.sub /= s)] IN
    /\ ~ConnectionUses(s)
    /\ \E saved \in BOOLEAN : Commit(edited, saved) /\ Counts(<<"user">> \o SaveEvent(saved))
    /\ UNCHANGED <<now, marks, inFlight, results, link, killSwitch, nextId, failedToday>>

-----------------------------------------------------------------------------
(* Fetch threads and their results.                                        *)

\* A thread ends within its timeouts, whatever the answer.
ThreadEnds(s) ==
    /\ s \in inFlight
    /\ inFlight' = inFlight \ {s}

FetchEnds(s) ==
    /\ ThreadEnds(s)
    /\ \E answer \in Answers :
        LET result == FetchSubscription(answer) IN
        /\ results' = Put(results, [t \in {s} |-> result])
        /\ Counts(IF result.ok THEN <<"list">> ELSE <<>>)
    /\ UNCHANGED <<now, config, marks, link, killSwitch, nextId, failedToday>>

\* profile_runtime_changed between two versions of the profile id.
Changed(id, old, new) ==
    \E i \in DOMAIN old, j \in DOMAIN new :
        old[i].id = id /\ new[j].id = id /\ old[i].server /= new[j].server

\* The last part of handle_subscription_result_at: a connection whose
\* profile is gone is ended; one whose profile changed is made again.
LinkAfter(new, saved) ==
    LET gone(id) == id /= NoId /\ id \notin Ids(new)
        missing == \/ gone(link.active)
                   \/ link.state \in {"Connecting", "ConnectPending"} /\ gone(link.connecting)
        target == CASE link.state = "Connected" /\ Changed(link.active, config.profiles, new) -> link.active
                    [] link.state = "ConnectPending" /\ Changed(link.connecting, config.profiles, new)
                          -> link.connecting
                    [] OTHER -> NoId
    IN  CASE missing /\ saved -> [state |-> "Idle", active |-> NoId, connecting |-> NoId]
          [] missing /\ ~saved -> link
          [] ~missing /\ target /= NoId -> [link EXCEPT !.state = "Connecting", !.connecting = target]
          [] OTHER -> link

\* Seeded fault: the mark stays.
Unmark_Never(s) == marks

Unmark(s) == [t \in DOMAIN marks \ {s} |-> marks[t]]
Automatic(s) == s \in Marked /\ marks[s] = "Automatic"

ScheduledAfterSuccess(sub) ==
    [sub EXCEPT !.retry = NoRetry,
                !.next = IF sub.auto = "Off" THEN Unset ELSE Date(now) + IntervalDays(sub.auto)]

Receive(s) ==
    /\ s \in DOMAIN results
    /\ results' = [t \in DOMAIN results \ {s} |-> results[t]]
    /\ marks' = Unmark(s)

\* The subscription was deleted while its update ran.
ResultDiscarded(s) ==
    /\ Receive(s)
    /\ s \notin DOMAIN config.subs
    /\ UNCHANGED <<now, config, inFlight, link, killSwitch, nextId, failedToday, count, bound>>

ResultOk(s) ==
    /\ Receive(s)
    /\ s \in DOMAIN config.subs
    /\ results[s].ok
    /\ LET sub == [config.subs[s] EXCEPT !.last = now]
           new == IF Automatic(s) THEN ScheduledAfterSuccess(sub) ELSE sub
           merged == Merged(s, results[s].servers)
       IN
       /\ nextId' = merged.next
       /\ \E saved \in BOOLEAN :
            /\ Commit([config EXCEPT !.subs[s] = new, !.profiles = merged.profiles], saved)
            /\ link' = LinkAfter(merged.profiles, saved)
            /\ failedToday' = IF saved /\ Automatic(s) THEN [failedToday EXCEPT ![s] = 0] ELSE failedToday
            /\ Counts(SaveEvent(saved))
    /\ UNCHANGED <<now, inFlight, killSwitch>>

\* Only an automatic update with an interval counts its failure.
CountsFailure(s) == Automatic(s) /\ config.subs[s].auto /= "Off"

\* Seeded fault: a failure on a date with failures starts a new count.
RecordedFailure_Restarts(sub) == [sub EXCEPT !.retry = AfterFailure(NoRetry, now)]

RecordedFailure(sub) == [sub EXCEPT !.retry = AfterFailure(@, now)]

\* The error leaves the profiles as they are.  Whatever the update was for,
\* an active profile that is no longer configured ends the connection.
ResultError(s) ==
    /\ Receive(s)
    /\ s \in DOMAIN config.subs
    /\ ~results[s].ok
    /\ IF CountsFailure(s)
       THEN /\ failedToday' = [failedToday EXCEPT ![s] = @ + 1]
            /\ \E saved \in BOOLEAN :
                  /\ Commit([config EXCEPT !.subs[s] = RecordedFailure(@)], saved)
                  /\ link' = LinkAfter(config.profiles, saved)
                  /\ Counts(SaveEvent(saved))
       ELSE /\ UNCHANGED <<config, failedToday, count, bound>>
            /\ link' = LinkAfter(config.profiles, TRUE)
    /\ UNCHANGED <<now, inFlight, killSwitch, nextId>>

-----------------------------------------------------------------------------
(* The rest of the system, as far as subscriptions see it.                 *)

Idle == [state |-> "Idle", active |-> NoId, connecting |-> NoId]

\* Connects and disconnects, whose course ConnectionLifecycle models.
ConnectionMoves ==
    /\ \/ \E id \in Ids(config.profiles) :
            link' \in {[state |-> "ConnectPending", active |-> NoId, connecting |-> id],
                       [state |-> "Connected", active |-> id, connecting |-> NoId]}
       \/ link' = Idle
    /\ Counts(<<"move">>)
    /\ UNCHANGED <<now, config, marks, inFlight, results, killSwitch, nextId, failedToday>>

\* Time passes; the failures of a date stop counting on the next one.
Advance ==
    LET later == {t \in bound.times : t > now} IN
    /\ later /= {}
    /\ now' = Min(later)
    /\ failedToday' = IF Date(now') = Date(now) THEN failedToday ELSE [s \in Subs |-> 0]
    /\ UNCHANGED <<config, marks, inFlight, results, link, killSwitch, nextId, count, bound>>

Init ==
    /\ config = [order |-> SetToSeq(DOMAIN InitialSubs), subs |-> InitialSubs,
                 profiles |-> InitialProfiles]
    /\ marks = <<>>
    /\ inFlight = {}
    /\ results = <<>>
    /\ link = Idle
    /\ killSwitch \in BOOLEAN
    /\ nextId = Max(Ids(InitialProfiles) \cup {0}) + 1
    /\ failedToday = [s \in Subs |-> 0]
    /\ count = [e \in Events |-> 0]
    /\ bound \in Bounds
    /\ now = Min(bound.times)

Next ==
    \/ Tick
    \/ \E s \in DOMAIN config.subs : UpdateManually(s) \/ CycleInterval(s) \/ DeleteSubscription(s)
    \/ \E s \in Subs : PasteSubscription(s)
    \/ \E server \in Servers : PasteProfile(server)
    \/ \E s \in Subs : FetchEnds(s) \/ ResultDiscarded(s) \/ ResultOk(s) \/ ResultError(s)
    \/ ConnectionMoves
    \/ Advance

Spec == Init /\ [][Next]_vars

\* Threads end within their timeouts and the main loop takes every message.
FairSpec ==
    /\ Spec
    /\ \A s \in Subs : WF_inFlight(ThreadEnds(s)) /\ WF_results(Receive(s))

-----------------------------------------------------------------------------
(* Properties.                                                             *)

\* The state has its types; in particular a notice of a provider never
\* becomes a profile, and every profile belongs to a subscription that is
\* configured, or to none.
TypeOK ==
    /\ now \in bound.times
    /\ Range(config.order) = DOMAIN config.subs /\ DOMAIN config.subs \subseteq Subs
    /\ \A i \in DOMAIN config.profiles :
          config.profiles[i] \in [id : 1..(nextId - 1), server : Servers \cup {InfoNode},
                                 sub : DOMAIN config.subs \cup {NoSub}]
    /\ \A s \in Marked : s \in Subs /\ marks[s] \in {"Manual", "Automatic"}
    /\ inFlight \subseteq Subs /\ DOMAIN results \subseteq Subs
    /\ link.state \in {"Idle", "Connecting", "ConnectPending", "Connected"}

\* No two profiles ever have the same id, although an update reuses ids in
\* three passes and takes over those of standalone profiles.
UniqueIds ==
    \A i, j \in DOMAIN config.profiles :
        config.profiles[i].id = config.profiles[j].id => i = j

\* An update keeps the id of every profile whose server is still in the
\* list, so a connection that uses it is neither ended nor made again; of
\* profiles that shared a server it keeps one.
ServersKeepTheirIds ==
    \A s \in DOMAIN results \ DOMAIN results' :
       (s \in DOMAIN config.subs /\ results[s].ok /\ count'.save = count.save) =>
           \A i \in DOMAIN config.profiles :
              LET p == config.profiles[i] IN
              (/\ p.sub = s
               /\ DedupKey(p.server) \in Keys(results[s].servers)
               /\ \A j \in DOMAIN config.profiles \ {i} :
                     config.profiles[j].sub = s =>
                         DedupKey(config.profiles[j].server) /= DedupKey(p.server)) =>
                  \E j \in DOMAIN config'.profiles :
                     /\ config'.profiles[j].id = p.id
                     /\ DedupKey(config'.profiles[j].server) = DedupKey(p.server)

\* Each server has one profile: an update that finds the server of a fetched
\* profile elsewhere takes that profile over or leaves it where it is.
OneProfilePerServer ==
    \A i, j \in DOMAIN config.profiles :
        DedupKey(config.profiles[i].server) = DedupKey(config.profiles[j].server) => i = j

\* An update keeps the order of the profiles a subscription already had and
\* adds new ones at its end.
UpdateKeepsOrder ==
    \A s \in DOMAIN results \ DOMAIN results' :
       LET old == ProfilesOf(s)
           new == SelectSeq(config'.profiles, LAMBDA p : p.sub = s)
           kept(profiles, ids) == SelectSeq([i \in DOMAIN profiles |-> profiles[i].id],
                                            LAMBDA id : id \in ids)
           both == Ids(old) \cap Ids(new)
       IN  kept(old, both) = kept(new, both)
           /\ \A i, j \in DOMAIN new : (new[i].id \in both /\ new[j].id \notin both) => i < j

\* Five automatic updates at most fail on one date, unless a key or a
\* success resets the schedule, or a failed save loses a count.
FailuresBounded ==
    \A s \in Subs : count.save = 0 => failedToday[s] <= MaxConsecutiveFailures

\* Every update that is marked has a thread or a result under way, unless a
\* failed save dropped its effect.
MarkedIsUnderWay ==
    count.save = 0 => Marked \subseteq inFlight \cup DOMAIN results

\* Every update that a thread fetches ends, so that the next one may start.
UpdatesEnd == \A s \in Subs : (s \in inFlight) ~> (s \notin Marked)
=============================================================================
