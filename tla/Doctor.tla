------------------------------- MODULE Doctor -------------------------------
(***************************************************************************)
(* `kvn doctor` (doctor.rs): the checks of the machine kvn runs on, each   *)
(* with its level and with the fix it proposes.  The command fails when a  *)
(* required check does.  The user follows the proposed fixes, in any       *)
(* order, and asks again; installing another sing-box loses the            *)
(* capabilities of the file it replaces.                                   *)
(***************************************************************************)
EXTENDS Integers, Sequences, FiniteSets

CONSTANTS Versions,   \* the sing-box versions there are, triples of numbers
          Repository  \* the one the package repository holds, recent enough

VARIABLES
    env,   \* what the checks look at
    fixes  \* how many of the proposed fixes were followed

vars == <<env, fixes>>

MinSingboxVersion == <<1, 14, 0>>

\* Seeded fault: the three numbers are compared one by one.
AtLeast_Componentwise(v, w) == \A i \in 1..3 : v[i] >= w[i]

AtLeast(v, w) ==
    \/ v = w
    \/ \E i \in 1..3 : v[i] > w[i] /\ \A j \in 1..(i - 1) : v[j] = w[j]

Unparsed == <<>>
EnvType ==
    [variable : {"unset", "executable", "other"},  \* SING_BOX_PATH
     onPath : BOOLEAN, runs : BOOLEAN,
     version : Versions \cup {Unparsed}, caps : BOOLEAN, getcap : BOOLEAN,
     profiles : {"none", "valid", "invalid"},
     routing : {"none", "valid", "invalid"},
     order : BOOLEAN, runtime : BOOLEAN, up : BOOLEAN, clipboard : BOOLEAN]
-----------------------------------------------------------------------------
Check(name, level) == [name |-> name, level |-> level]

FindSingbox(e) ==
    IF e.variable = "unset" THEN e.onPath ELSE e.variable = "executable"

\* Only a word of three numbers counts as the version.
CheckSingboxVersion(e) ==
    Check("version",
          IF ~e.runs \/ e.version = Unparsed THEN "failure"
          ELSE IF AtLeast(e.version, MinSingboxVersion) THEN "pass" ELSE "failure")

CheckCapabilities(e) ==
    Check("caps", IF ~e.getcap THEN "warning" ELSE IF e.caps THEN "pass" ELSE "failure")

CheckConfig(e) ==
    Check("profiles", IF e.profiles = "invalid" THEN "failure" ELSE "pass")
CheckRouting(e) ==
    Check("routing", IF e.routing = "invalid" THEN "failure" ELSE "pass")

\* Only when both files were read and hold something to check.
CheckRuleOrder(e) ==
    IF e.profiles = "valid" /\ e.routing = "valid" /\ e.order
        THEN <<Check("order", "warning")>> ELSE <<>>

CheckDaemon(e) ==
    Check("daemon", IF ~e.runtime THEN "failure" ELSE IF e.up THEN "pass" ELSE "warning")

CheckClipboard(e) == Check("clipboard", IF e.clipboard THEN "pass" ELSE "warning")

Collect(e) ==
    (IF FindSingbox(e) THEN <<CheckSingboxVersion(e), CheckCapabilities(e)>>
     ELSE <<Check("singbox", "failure")>>)
    \o <<CheckConfig(e), CheckRouting(e)>> \o CheckRuleOrder(e)
    \o <<CheckDaemon(e), CheckClipboard(e)>>

Failures(e) == {i \in DOMAIN Collect(e) : Collect(e)[i].level = "failure"}
-----------------------------------------------------------------------------
\* The package brings a binary without capabilities.
Installed(e) ==
    [e EXCEPT !.onPath = TRUE, !.runs = TRUE, !.version = Repository, !.caps = FALSE]

\* The states the machine may be in once the proposed fix was followed.
Remedied(e, name) ==
    CASE name = "singbox" -> {[Installed(e) EXCEPT !.variable = "unset"],
                              [Installed(e) EXCEPT !.variable = "executable"]}
      [] name = "version" -> {Installed(e)}
      [] name = "caps" -> {[e EXCEPT !.caps = TRUE]}
      [] name = "profiles" -> {[e EXCEPT !.profiles = "valid"]}
      [] name = "routing" -> {[e EXCEPT !.routing = "none"],
                              [e EXCEPT !.routing = "valid"]}
      [] name = "order" -> {[e EXCEPT !.order = FALSE]}
      [] name = "daemon" -> {[e EXCEPT !.runtime = TRUE]}
      [] OTHER -> {e}

Init == env \in EnvType /\ fixes = 0

Fix ==
    /\ \E i \in Failures(env) : env' \in Remedied(env, Collect(env)[i].name)
    /\ fixes' = fixes + 1

Next == Fix

Spec == Init /\ [][Next]_vars
-----------------------------------------------------------------------------
(***************************************************************************)
(* The fixes that `kvn doctor` proposes lead to a machine it finds nothing *)
(* wrong with: whoever follows them, in any order, has at most one fix to  *)
(* follow for each of the six required checks, although a new sing-box has *)
(* none of the capabilities of the old one.                                *)
(***************************************************************************)
DoctorConverges == fixes + Cardinality(Failures(env)) <= 6
=============================================================================
