----------------------------- MODULE MCClients ------------------------------
(***************************************************************************)
(* The parts of the daemon that serve its clients, each on its own: a      *)
(* behaviour is one of the component that `part` names.  The components    *)
(* share the variables v1 to v9; the ones a component does not need keep   *)
(* Unused.  A component that is proved about is instantiated with its      *)
(* lemmas, from which Suites_proofs derives the suite's properties.        *)
(***************************************************************************)
EXTENDS Naturals, Sequences

VARIABLES part, v1, v2, v3, v4, v5, v6, v7, v8, v9

slots == <<v1, v2, v3, v4, v5, v6, v7, v8, v9>>
vars == <<part, slots>>

Unused == "unused"

\* Three daemon processes and two clients, with launches, quits, crashes and
\* faults in different proportions.
Daemons == INSTANCE Daemons_proofs WITH
    Procs <- {1, 2, 3}, Clients <- {"a", "b"}, Versions <- {"v1", "v2"}, Installed <- "v2",
    Bounds <- LET Limits(l, u, k, f) == [launch |-> l, user |-> u, crash |-> k, fault |-> f] IN
              {Limits(1, 1, 1, 1), Limits(1, 0, 2, 0), Limits(2, 1, 0, 0), Limits(2, 0, 1, 0)},
    proc <- v1, lock <- v2, socket <- v3, state <- v4, sing <- v5, client <- v6,
    auto <- v7, count <- v8, bound <- v9

\* Two TUIs that agree on a focus, one TUI whose connection drops or whose
\* daemon restarts, and one TUI beside a command.
Session == INSTANCE Session_proofs WITH
    Tuis <- {"a", "b"}, MaxToasts <- 2, EventCapacity <- 2,
    Bounds <- LET B(t, st, se, e, d, r, c) ==
                    [tuis |-> t, statuses |-> st, sends |-> se, expiries |-> e, drops |-> d,
                     restarts |-> r, commands |-> c] IN
              {B(2, 0, 2, 1, 0, 0, 0), B(2, 2, 0, 0, 0, 0, 0), B(1, 2, 0, 0, 1, 0, 0),
               B(1, 1, 1, 0, 0, 1, 0), B(1, 1, 1, 0, 0, 0, 1)},
    daemon <- v1, inbox <- v2, wire <- v3, tui <- v4, cli <- v5, left <- v6, ids <- v7,
    outcome <- v8, drawn <- v9

\* More profiles than test slots, and polls of two tunnels.
Measurements == INSTANCE Measurements_proofs WITH
    Ids <- {1, 2, 3}, TestSlots <- 2, MaxAttempts <- 2, MaxRequests <- 2, MaxTotal <- 2,
    Stamps <- {1000, 1001, 1250},
    pending <- v1, testing <- v2, test <- v3, link <- v4, total <- v5, traffic <- v6, poll <- v7

\* Three profiles in every order, alone or in one of two subscriptions.
Sources == INSTANCE Sources WITH
    Ids <- {1, 2, 3}, Subs <- {"s", "t"},
    Edited <- LET P(id, sub) == [id |-> id, sub |-> sub]
                  File(profiles, subs) == [profiles |-> profiles, subs |-> subs] IN
              {File(<<>>, <<>>),
               File(<<P(3, "standalone"), P(1, "standalone")>>, <<"t", "s">>),
               File(<<P(2, "standalone"), P(3, "s"), P(1, "t")>>, <<"s", "t">>),
               File(<<P(3, "t"), P(2, "t"), P(1, "t")>>, <<"t">>)},
    config <- v1, selected <- v2, overlay <- v3, link <- v4

Tour == INSTANCE Tour WITH
    tour <- v1, file <- v2, prompt <- v3, promptFile <- v4, overlay <- v5, link <- v6,
    modes <- v7, omarchy <- v8, legacy <- v9

Init ==
    \/ part = "daemons" /\ Daemons!Init
    \/ part = "session" /\ Session!Init
    \/ part \in {"tests", "traffic"} /\ Measurements!Init
       /\ v8 = Unused /\ v9 = Unused
    \/ part = "sources" /\ Sources!Init
       /\ v5 = Unused /\ v6 = Unused /\ v7 = Unused /\ v8 = Unused /\ v9 = Unused
    \/ part = "tour" /\ Tour!Init

Next ==
    /\ UNCHANGED part
    /\ \/ part = "daemons" /\ Daemons!Next
       \/ part = "session" /\ Session!Next
       \/ part = "tests" /\ Measurements!TestsNext /\ UNCHANGED <<v8, v9>>
       \/ part = "traffic" /\ Measurements!TrafficNext /\ UNCHANGED <<v8, v9>>
       \/ part = "sources" /\ Sources!Next /\ UNCHANGED <<v5, v6, v7, v8, v9>>
       \/ part = "tour" /\ Tour!Next

Spec == Init /\ [][Next]_vars

-----------------------------------------------------------------------------
(* Properties: those of the components.                                    *)

\* A daemon that serves is the one its socket leads to, and a daemon that
\* starts after a crash stops the tunnel the crashed one recorded.
DaemonRestartsAreSafe ==
    part = "daemons" => Daemons!ServingDaemonIsReachable /\ Daemons!RecordedTunnelsAreStopped

\* A daemon that replaces an outdated one connects again when that one was
\* connected.
ReplacementReconnects == [][part = "daemons" => Daemons!ReplacementReconnects]_vars

\* Two TUIs agree which of them has the focus and shows the popup, and a
\* command prints the outcome of its own request.
ClientsAgree ==
    part = "session" => Session!TuisAgree /\ Session!CommandReportsItsOutcome

\* An error is only cleared after the TUI has drawn it.
ErrorIsDrawnBeforeCleared == [][part = "session" => Session!ErrorIsDrawnBeforeCleared]_vars

\* A profile is tested by one thread at a time, with at most TestSlots of
\* them, and traffic shown is of the tunnel that is up.
ResultsAreOfThisConnection ==
    part \in {"tests", "traffic"} =>
        Measurements!TestsDoNotCollide /\ Measurements!TrafficIsOfThisTunnel

\* The selection stays on its source when the rows around it change, and the
\* profile that is connected stays in the list, however a delete that waits
\* for its answer and an edit of profiles.json overlap.
SourcesStayInPlace ==
    [][part = "sources" =>
          Sources!SelectionFollowsSource /\ Sources!ConnectionKeepsItsProfile']_vars

\* The tour that was interrupted comes back, unless a disconnect closed it,
\* and a support prompt that was closed does not.
TourKeepsItsPlace ==
    [][part = "tour" => Tour!OnlyADisconnectDropsTheTour /\ Tour!ClosedPromptStaysClosed']_vars
=============================================================================
