----------------------------- MODULE MCChildFds -----------------------------
(***************************************************************************)
(* Instances of ChildFds for TLC.                                          *)
(***************************************************************************)
EXTENDS ChildFds

\* Files of up to three entries over: "closed", the three targets, a number
\* that is not open unless the error pipe gets it, and one that may lie above
\* the error pipe.
MCSources == {-1, 0, 1, 2, 7, 8}
MCOpened == {0, 1, 2, 8}
=============================================================================
