---------------------------- MODULE MCConfigStore ----------------------------
(***************************************************************************)
(* Instances of ConfigStore for TLC.                                       *)
(***************************************************************************)
EXTENDS ConfigStore

\* On a first run every field but the HWID and the last profile has a value
\* of its own.
CONSTANT FirstRunValue

FirstRunSettings ==
    [f \in Fields |-> IF f \in {Hwid, LastConnected} THEN Empty ELSE FirstRunValue]
=============================================================================
