--------------------------- MODULE MCRequestGate ---------------------------
(* One connection; two requests, so that what one leaves behind meets another. *)
EXTENDS RequestGate
=============================================================================
