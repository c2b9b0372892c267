------------------------------ MODULE MCSpawn ------------------------------
(***************************************************************************)
(* Instances of Spawn for TLC.                                             *)
(***************************************************************************)
EXTENDS Spawn, TLC

CONSTANTS s1, s2

\* One child on a terminal of its own, as StartPTY asks, and a plain one.
MCWants == (s1 :> {"setsid", "ctty", "chdir"}) @@ (s2 :> {})
=============================================================================
