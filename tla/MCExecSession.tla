---------------------------- MODULE MCExecSession -----------------------------
(* A terminal that is started up to three times, and one stream. *)
EXTENDS ExecSession

CONSTANT stream
MCCalls == Starts \cup {stream}
MCStreams == {stream}
=============================================================================
