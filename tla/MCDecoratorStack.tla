-------------------------- MODULE MCDecoratorStack --------------------------
(***************************************************************************)
(* Values for model-checking DecoratorStack.                               *)
(***************************************************************************)
EXTENDS DecoratorProperties

CONSTANTS a, r1, r2

Bytes == {a, CR, LF}
OneReader == {r1}
TwoReaders == {r1, r2}
=============================================================================
