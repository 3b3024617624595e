-------------------------- MODULE MCDockerSession --------------------------
(* Two profiles and three generations, so that one connect overtakes       *)
(* another with a disconnect between them; two awaits in flight at a time, *)
(* so that an old one ends after a newer has begun.                        *)
EXTENDS DockerSession, TLC
=============================================================================
