------------------------ MODULE MCStreamSupervisor ------------------------
(* Reports within reports three deep, and generations enough for several  *)
(* counts of attempts.                                                    *)
EXTENDS StreamSupervisor, TLC
=============================================================================
