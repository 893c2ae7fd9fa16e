-------------------------- MODULE MCServerLifetime --------------------------
(***************************************************************************)
(* Values for model-checking ServerLifetime: limits that mean never and    *)
(* one second, and one whose milliseconds do not fit an int.               *)
(***************************************************************************)
EXTENDS ServerLifetime

CONSTANTS c1, c2

TwoConns == {c1, c2}
SomeLimits == {-1, 1, 2}
=============================================================================
