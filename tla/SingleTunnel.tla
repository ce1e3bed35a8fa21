---------------------------- MODULE SingleTunnel ----------------------------
(***************************************************************************)
(* What the daemon promises about sing-box, without threads, channels or   *)
(* slots.  There is one tunnel at most.  Every connect and disconnect      *)
(* supersedes the requests before it, and only a tunnel started for the    *)
(* request that is current is put into service: "a cancelled connect can   *)
(* never replace a newer one" (docs/architecture.md).  The daemon leaves   *)
(* no tunnel behind when it is down.                                       *)
(***************************************************************************)
EXTENDS Naturals

VARIABLES
    current,   \* id of the newest request
    tunnel,    \* NoTunnel, or the request it was started for and its phase
    down       \* the daemon has exited

vars == <<current, tunnel, down>>

NoTunnel == [attempt |-> 0, phase |-> "none"]

Init ==
    /\ current \in Nat
    /\ tunnel = NoTunnel
    /\ down = FALSE

\* A newer request, or a disconnect: the tunnel that is up is not touched yet.
Supersede ==
    /\ current' \in Nat
    /\ current' > current
    /\ UNCHANGED <<tunnel, down>>

\* A start may be overtaken by newer requests, but is never ahead of them.
Start ==
    /\ tunnel = NoTunnel
    /\ ~down
    /\ \E a \in 0 .. current : tunnel' = [attempt |-> a, phase |-> "starting"]
    /\ UNCHANGED <<current, down>>

Publish ==
    /\ tunnel = [attempt |-> current, phase |-> "starting"]
    /\ tunnel' = [tunnel EXCEPT !.phase = "serving"]
    /\ UNCHANGED <<current, down>>

\* The tunnel dies or is stopped.
End ==
    /\ tunnel # NoTunnel
    /\ tunnel' = NoTunnel
    /\ UNCHANGED <<current, down>>

Exit ==
    /\ tunnel = NoTunnel
    /\ down' = TRUE
    /\ UNCHANGED <<current, tunnel>>

Next == Supersede \/ Start \/ Publish \/ End \/ Exit

Spec == Init /\ [][Next]_vars
=============================================================================
