---------------------------- MODULE Measurements ----------------------------
(***************************************************************************)
(* What the daemon measures on threads of its own: the latency of profiles *)
(* (daemon/profile_test.rs, the keys t and T) and the traffic of the       *)
(* tunnel (daemon/traffic.rs, app/update/traffic.rs).  Threads answer in   *)
(* any order, late, or not at all; the profile may be deleted and the      *)
(* tunnel replaced meanwhile.                                              *)
(***************************************************************************)
EXTENDS Integers, Sequences, FiniteSets, SequencesExt

CONSTANTS
    Ids,            \* profiles
    TestSlots,      \* tests at once, 4 in the code
    MaxAttempts,    \* tunnels in a behaviour
    MaxRequests,    \* polls of one tunnel
    MaxTotal,       \* bytes a tunnel transfers
    Stamps          \* times of the wall clock that answers come at, in milliseconds

VARIABLES
    pending,        \* model.pending_tests
    testing,        \* model.testing_profiles
    test,           \* test threads: [id, pc], pc "starting" or "running"
    link,           \* [connected, attempt]
    total,          \* bytes the current tunnel has transferred
    traffic,        \* [up, rate, of, at, request, response]
    poll            \* polls under way: [attempt, request, up, at]

testVars == <<pending, testing, test>>
trafficVars == <<link, total, traffic, poll>>
vars == <<testVars, trafficVars>>

-----------------------------------------------------------------------------
(* Latency tests.                                                          *)

\* Seeded fault: a profile under test can be queued again.
Queueable_Twice(id) == id \notin Range(pending)

Queueable(id) == id \notin testing /\ id \notin Range(pending)

\* t
QueueTest(id) ==
    /\ Queueable(id)
    /\ pending' = Append(pending, id)
    /\ UNCHANGED <<testing, test, trafficVars>>

\* T: every profile of the list, which the user edits and reorders.
QueueAll ==
    /\ \E ids \in SetToAllKPermutations({id \in Ids : Queueable(id)}) : pending' = pending \o ids
    /\ UNCHANGED <<testing, test, trafficVars>>

Least(a, b) == IF a < b THEN a ELSE b
FreeSlots == IF Cardinality(testing) < TestSlots THEN TestSlots - Cardinality(testing) ELSE 0

\* tick_running_work, then profile_test::start for each.
StartTests ==
    LET n == Least(FreeSlots, Len(pending))
        ids == {pending[i] : i \in 1..n}
    IN  /\ n > 0
        /\ pending' = SubSeq(pending, n + 1, Len(pending))
        /\ testing' = testing \cup ids
        /\ test' = test \o [i \in 1..n |-> [id |-> pending[i], pc |-> "starting"]]
        /\ UNCHANGED trafficVars

\* run_test: write_test_config, then a sing-box on a loopback port.
SpawnTest(i) ==
    /\ i \in DOMAIN test
    /\ test[i].pc = "starting"
    /\ test' = [test EXCEPT ![i].pc = "running"]
    /\ UNCHANGED <<pending, testing, trafficVars>>

\* run_test ends: cleanup has killed sing-box and removed its file.  A
\* profile that is gone, a probe turned off, a sing-box that does not listen
\* within three seconds and a probe that fails (socks5_connect_latency) all
\* give no latency.  Msg::TestResult keeps what came out.
TestResult(i) ==
    /\ i \in DOMAIN test
    /\ test' = RemoveAt(test, i)
    /\ testing' = testing \ {test[i].id}
    /\ UNCHANGED <<pending, trafficVars>>

-----------------------------------------------------------------------------
(* Traffic.                                                                *)

\* reset_traffic_state
NoTraffic == [up |-> 0, rate |-> 0, of |-> 0, at |-> 0, request |-> 0, response |-> 0]

\* compute_rate: per second, of a time in milliseconds; the subtraction
\* saturates when the counter starts over.
ComputeRate(prev, curr, elapsed) ==
    IF elapsed = 0 \/ curr <= prev THEN 0 ELSE ((curr - prev) * 1000) \div elapsed

\* Between two stamps: the clock may have been set back.
Elapsed(from, to) == IF to > from THEN to - from ELSE 0

\* A new tunnel counts from zero.  on_connected
Connected ==
    /\ link.attempt < MaxAttempts
    /\ link' = [connected |-> TRUE, attempt |-> link.attempt + 1]
    /\ total' = 0
    /\ traffic' = NoTraffic
    /\ UNCHANGED <<poll, testVars>>

\* clear_connection, and a reconnect that is queued or under way.
NotConnected ==
    /\ link.connected
    /\ link' = [link EXCEPT !.connected = FALSE]
    /\ traffic' = NoTraffic
    /\ UNCHANGED <<total, poll, testVars>>

\* External: the tunnel transfers.
Transfer ==
    /\ link.connected
    /\ total < MaxTotal
    /\ total' = total + 1
    /\ UNCHANGED <<link, traffic, poll, testVars>>

\* tick_running_work: a poll each second while connected.
Poll ==
    /\ link.connected
    /\ traffic.request < MaxRequests
    /\ traffic' = [traffic EXCEPT !.request = @ + 1]
    /\ poll' = poll \cup {[attempt |-> link.attempt, request |-> traffic.request + 1, up |-> -1, at |-> 0]}
    /\ UNCHANGED <<link, total, testVars>>

\* The thread reads the counters of the sing-box whose port it took from the
\* process slot, and stamps the answer with the time it comes at, however
\* soon after another one; once that sing-box is gone the poll fails.
Sample(p, at) ==
    /\ p.up = -1
    /\ poll' = IF link.connected /\ p.attempt = link.attempt
               THEN (poll \ {p}) \cup {[p EXCEPT !.up = total, !.at = at]}
               ELSE poll \ {p}
    /\ UNCHANGED <<link, total, traffic, testVars>>

\* Seeded fault: an answer for an earlier tunnel counts.
Current_AnyTunnel(p) == link.connected /\ p.request > traffic.response

\* The early return of handle_traffic_stats_updated.
Current(p) == link.connected /\ p.attempt = link.attempt /\ p.request > traffic.response

\* handle_traffic_stats_updated: the first sample shows no rate.
TrafficStatsUpdated(p) ==
    /\ p.up >= 0
    /\ poll' = poll \ {p}
    /\ traffic' =
        IF ~Current(p) THEN traffic
        ELSE [traffic EXCEPT !.up = p.up, !.at = p.at, !.of = p.attempt, !.response = p.request,
                             !.rate = IF traffic.at = 0 THEN 0
                                      ELSE ComputeRate(traffic.up, p.up, Elapsed(traffic.at, p.at))]
    /\ UNCHANGED <<link, total, testVars>>

Init ==
    /\ pending = <<>> /\ testing = {} /\ test = <<>>
    /\ link = [connected |-> FALSE, attempt |-> 0]
    /\ total = 0 /\ traffic = NoTraffic /\ poll = {}

\* The two share no variable.
TestsNext ==
    \/ \E id \in Ids : QueueTest(id)
    \/ QueueAll \/ StartTests
    \/ \E i \in 1..Cardinality(Ids) : SpawnTest(i) \/ TestResult(i)

TrafficNext ==
    \/ Connected \/ NotConnected \/ Transfer \/ Poll
    \/ \E p \in poll : (\E at \in Stamps : Sample(p, at)) \/ TrafficStatsUpdated(p)

Next == TestsNext \/ TrafficNext

Spec == Init /\ [][Next]_vars

-----------------------------------------------------------------------------
(* Properties.                                                             *)

\* Two tests never share a configuration file, which is named by the
\* profile, and no more than TestSlots sing-box processes run for tests,
\* whatever is queued while results are still on their way (tick.rs:67-73,
\* profile_test.rs:82-92).
TestsDoNotCollide ==
    /\ Len(test) <= TestSlots
    /\ IsInjective([i \in DOMAIN test |-> test[i].id])

\* The traffic shown is that of the running tunnel, never an answer its
\* predecessor left behind, and never more than it transferred: its rate
\* takes two answers of this tunnel, and is no higher than if all its bytes
\* had come in the shortest time between two stamps, a millisecond
\* (app/update/traffic.rs:23-38).
TrafficIsOfThisTunnel ==
    /\ traffic.of \in {0, link.attempt}
    /\ traffic.up <= total /\ traffic.rate <= 1000 * total
    /\ traffic.response <= 1 => traffic.rate = 0
=============================================================================
