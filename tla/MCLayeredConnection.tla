------------------------ MODULE MCLayeredConnection ------------------------
(***************************************************************************)
(* Values for model-checking LayeredConnection.                            *)
(***************************************************************************)
EXTENDS LayeredConnection

CONSTANTS w1, w2

OneWorker == {w1}
TwoWorkers == {w1, w2}

Kind(ssl, decorated, idle, raw) ==
    [ssl |-> ssl, decorated |-> decorated, idle |-> idle, raw |-> raw]

\* Every kind of connection without an idle limit and without raw shutdowns, and
\* each of these with the decorator, where they make a difference.
EveryKind ==
    {Kind(s, d, FALSE, FALSE) : s, d \in BOOLEAN}
        \cup {Kind(FALSE, TRUE, TRUE, FALSE), Kind(FALSE, TRUE, FALSE, TRUE)}
PlainSSL == {Kind(TRUE, FALSE, FALSE, FALSE)}
=============================================================================
