----------------------------- MODULE ByteStream -----------------------------
(***************************************************************************)
(* What a reader of a connection relies on, whatever stands between it and *)
(* the socket: it is handed what the peer sent, in order, each byte once.  *)
(* The stream only grows and what was handed out is never taken back.      *)
(***************************************************************************)
EXTENDS SequencesExt

VARIABLES
    stream,     \* what the peer has sent
    delivered   \* what the reader has been handed for good

Init == stream = <<>> /\ delivered = <<>>

Send == IsPrefix(stream, stream') /\ UNCHANGED delivered

Deliver ==
    /\ IsPrefix(delivered, delivered')
    /\ IsPrefix(delivered', stream)
    /\ UNCHANGED stream

Spec == Init /\ [][Send \/ Deliver]_<<stream, delivered>>
=============================================================================
