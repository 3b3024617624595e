--------------------------- MODULE MCAgentAccess ---------------------------
(* Two requests, a device and a revocation, which can fail, find nothing   *)
(* or succeed while requests of the device, of the shared token or of      *)
(* neither, and the shutdown are under way. A request with the shared      *)
(* token is one that a revocation must not touch. The client of r1 reads   *)
(* what it is sent, that of r2 may stop to; and the liveness property      *)
(* follows each of them: there is no symmetry.                             *)
EXTENDS AgentAccess
=============================================================================
