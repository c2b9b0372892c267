------------------------------- MODULE MCPool -------------------------------
(* Instances of Pool for TLC. *)
EXTENDS Pool

CONSTANTS c1, c2, c3, c4, w1, w2, k1, k2

\* No call is made from inside a submitted function.
Flat == [c \in Calls |-> NoCall]

\* The fn of c1 calls DoContext (c2) and gort.Run (c4).
Nested == [c \in Calls |-> IF c \in {c2, c4} THEN c1 ELSE NoCall]
=============================================================================
