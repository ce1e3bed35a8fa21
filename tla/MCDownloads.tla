----------------------------- MODULE MCDownloads -----------------------------
(***************************************************************************)
(* What the daemon downloads on a schedule, subscriptions and rule-sets,   *)
(* each on its own: a behaviour is one of the component that `part` names. *)
(* The components share the variables v1 to v9 of MCClients and ten more;  *)
(* the ones a component does not need keep Unused.                         *)
(***************************************************************************)
EXTENDS MCClients, Schedule

CONSTANTS
    Parts,                            \* the components of the run
    Malformed, StatusStub, InfoNode   \* lines of a subscription that are no servers

VARIABLES v10, v11, v12, v13, v14, v15, v16, v17, v18, v19

allVars == <<vars, v10, v11, v12, v13, v14, v15, v16, v17, v18, v19>>

-----------------------------------------------------------------------------
(* Servers that differ in credential and server name, answers of every     *)
(* kind, and two sets of bounds.                                           *)

Server(cred, sni) == [addr |-> "a", cred |-> cred, sni |-> sni, pbk |-> "k"]
Servers == {Server(c, n) : c \in {"c1", "c2"}, n \in {"n1", "n2"}}

Plain == [host |-> TRUE, scheme |-> "https", allowHttp |-> FALSE, transport |-> "ok",
          status |-> 200, tooLarge |-> FALSE, hwid |-> "none",
          userinfo |-> [expire |-> 0, now |-> 2, total |-> 0, upload |-> 1, download |-> 1],
          body |-> [form |-> "plain", lines |-> <<>>]]
WithBody(form, lines) == [Plain EXCEPT !.body = [form |-> form, lines |-> lines]]

S1 == Server("c1", "n1")
Answers ==
    {WithBody("plain", list) : list \in UNION {[1..k -> Servers] : k \in 1..2}}
    \cup {WithBody(form, <<Malformed, StatusStub, S1>>) : form \in {"plain", "base64", "xray"}}
    \cup {WithBody(form, <<Malformed>>) : form \in {"base64", "xray"}}
    \cup {WithBody("plain", <<InfoNode>>), [WithBody("plain", <<InfoNode>>) EXCEPT !.userinfo.total = 2],
          [WithBody("plain", <<S1>>) EXCEPT !.scheme = "http"],
          [WithBody("plain", <<S1>>) EXCEPT !.status = 403],
          [WithBody("plain", <<S1>>) EXCEPT !.hwid = "MaxDevicesReached"]}

InitialProfiles ==
    <<[id |-> 1, server |-> Server("c2", "n1"), sub |-> "none"],
      [id |-> 2, server |-> S1, sub |-> "s1"]>>
InitialSubs ==
    [s \in {"s1"} |-> [auto |-> "Every1d", last |-> Unset, next |-> 0, retry |-> NoRetry]]

\* Two lists fetched around an opening of the window.
ListBounds == [user |-> 1, save |-> 1, fetch |-> 2, list |-> 2, move |-> 1, times |-> {470, 480}]
\* A day on which every automatic update fails, and the start of the next.
FailureBounds == [user |-> 1, save |-> 0, fetch |-> 6, list |-> 0, move |-> 0,
                  times |-> {480, 481, 486, 501, 561, 1439, 1440, 1920}]
SubscriptionBounds == {ListBounds, FailureBounds}

SubscriptionIds == {"s1", "s2"}

Subscriptions == INSTANCE Subscriptions_proofs WITH
    Subs <- SubscriptionIds, Bounds <- SubscriptionBounds,
    now <- v1, config <- v2, marks <- v3, inFlight <- v4, results <- v5, link <- v6,
    killSwitch <- v7, nextId <- v8, failedToday <- v9, count <- v10, bound <- v11

-----------------------------------------------------------------------------
(* A mode with a required and an optional rule-set, and versions of        *)
(* routing.json that move one of them to another address, drop it, or      *)
(* change only the rest of the mode.                                       *)

Entry(k, u, r) == [key |-> k, url |-> u, required |-> r]
Version(sets, other) == [m \in {"global", "split"} |-> IF m = "split" THEN [sets |-> sets, other |-> other]
                                                        ELSE [sets |-> {}, other |-> 0]]

Ip == Entry("ip", "u1", TRUE)
Routings ==
    {Version({Ip, Entry("site", "v1", FALSE)}, 0),
     Version({Ip, Entry("site", "v2", FALSE)}, 1),
     Version({Ip}, 0)}

None == [user |-> 0, reload |-> 0, fetch |-> 0, connect |-> 0, restart |-> 0, disk |-> 0,
         release |-> 0, killSwitch |-> FALSE, times |-> {480}]

\* Edits of routing.json while downloads run and a connection is up.
EditBounds == [None EXCEPT !.reload = 1, !.fetch = 1, !.connect = 1, !.user = 1]
\* Keys and commands while a connection waits for its rule-sets.
UserBounds == [None EXCEPT !.fetch = 3, !.connect = 1, !.user = 1]
\* A second download after the edit.
AgainBounds == [None EXCEPT !.reload = 1, !.fetch = 4, !.connect = 1]
\* A schedule that is reset while downloads of it run, around a restart.
ScheduleBounds == [None EXCEPT !.user = 1, !.fetch = 3, !.restart = 1, !.release = 1,
                               !.times = {470, 480, 1920}]
\* Metadata that cannot be written.
DiskBounds == [None EXCEPT !.user = 1, !.fetch = 2, !.disk = 1]
\* The kill switch keeps downloads inside the tunnel.
KillSwitchBounds == [None EXCEPT !.user = 1, !.fetch = 2, !.connect = 1, !.killSwitch = TRUE]
GeoBounds ==
    {EditBounds, UserBounds, AgainBounds, ScheduleBounds, DiskBounds, KillSwitchBounds}

RuleSets == INSTANCE GeoUpdates_proofs WITH
    Keys <- {"ip", "site"}, Urls <- {"u1", "v1", "v2"}, Modes <- {"global", "split"},
    Bounds <- GeoBounds,
    now <- v1, auto <- v2, killSwitch <- v3, routing <- v4, mode <- v5, epoch <- v6,
    states <- v7, marks <- v8, attempts <- v9, meta <- v10, files <- v11, remote <- v12,
    jobs <- v13, refreshes <- v14, msgs <- v15, link <- v16, stale <- v17, count <- v18,
    bound <- v19

-----------------------------------------------------------------------------
OfSubscriptions == part = "subscriptions"
OfRuleSets == part = "rule-sets"

DownloadsInit ==
    /\ part \in Parts
    /\ \/ /\ OfSubscriptions /\ Subscriptions!Init
          /\ v12 = Unused /\ v13 = Unused /\ v14 = Unused /\ v15 = Unused
          /\ v16 = Unused /\ v17 = Unused /\ v18 = Unused /\ v19 = Unused
       \/ OfRuleSets /\ RuleSets!Init

DownloadsNext ==
    /\ UNCHANGED part
    /\ \/ OfSubscriptions /\ Subscriptions!Next
          /\ UNCHANGED <<v12, v13, v14, v15, v16, v17, v18, v19>>
       \/ OfRuleSets /\ RuleSets!Next

DownloadsSpec == DownloadsInit /\ [][DownloadsNext]_allVars

\* Threads end within their timeouts, the main loop takes every message, and
\* ticks go on: the fairness of the two components.
FairSpec ==
    /\ DownloadsSpec
    /\ \A s \in SubscriptionIds :
          /\ WF_v4(OfSubscriptions /\ Subscriptions!ThreadEnds(s))
          /\ WF_v5(OfSubscriptions /\ Subscriptions!Receive(s))
    /\ WF_v15(OfRuleSets /\ RuleSets!TakesMessage)
    /\ WF_v16(OfRuleSets /\ RuleSets!TickConnects)
    /\ WF_v16(OfRuleSets /\ RuleSets!WorkerProceeds)
    /\ WF_v13(OfRuleSets /\ RuleSets!JobProceeds)
    /\ WF_v14(OfRuleSets /\ RuleSets!Refreshes)

-----------------------------------------------------------------------------
(* Properties: those of the components.                                    *)

\* An update of a subscription keeps the ids of the servers that stay, their
\* order, and never gives an id twice.
UpdatesKeepProfiles ==
    [][OfSubscriptions => /\ Subscriptions!ServersKeepTheirIds
                          /\ Subscriptions!UpdateKeepsOrder
                          /\ Subscriptions!UniqueIds']_allVars

\* A subscription that is marked as updating has a thread or a result under
\* way, and at most five automatic updates fail on a date.
MarkedIsUnderWay ==
    OfSubscriptions => Subscriptions!MarkedIsUnderWay /\ Subscriptions!FailuresBounded

\* Every update of a subscription that a thread fetches ends.
UpdatesEnd ==
    \A s \in SubscriptionIds :
        (OfSubscriptions /\ s \in v4) ~> (OfSubscriptions /\ s \notin Subscriptions!Marked)

\* No rule-set is downloaded by two threads at once, and a tunnel only routes
\* by files that came from the address its plan has for them, unless
\* routing.json changed under its start or under a download.
FilesAreOfTheirSource ==
    OfRuleSets => RuleSets!OneDownloadPerFile /\ RuleSets!RoutedFromSource

\* Once all is quiet, the daemon knows what the cache holds, and a connection
\* is only in the fallback while a required rule-set is missing.
StatesMatchDisk ==
    OfRuleSets => RuleSets!StatesMatchDisk /\ RuleSets!FallbackOnlyWhileMissing

\* A connection that is wanted stays up sooner or later, unless a rule-set
\* was downloaded from an address routing.json no longer has.
ConnectionSettles ==
    [](OfRuleSets => v17 = {}) => <>[](OfRuleSets => RuleSets!Settled)

\* The same without the exception: a rule-set that is not there yet is left
\* out of the connection until its file is (docs/configuration.md).
ConnectionAlwaysSettles == <>[](OfRuleSets => RuleSets!Settled)
=============================================================================
