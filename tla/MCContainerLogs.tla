-------------------------- MODULE MCContainerLogs --------------------------
(* Lines that share a timestamp, and a buffer shorter than what arrives.   *)
EXTENDS ContainerLogs, TLC
=============================================================================
