----------------------------- MODULE LongStream -----------------------------
(* What a screen may rely on while a stream is kept alive for it: it is    *)
(* read only while it is said to be streaming, a pause holds until it is   *)
(* undone, and after dispose nothing is read and nothing is said.          *)
(* The status is that of SupervisorStatus.                                 *)

VARIABLES
  status,    \* as last reported
  reading,   \* a source is being read
  disposed

vars == <<status, reading, disposed>>

Init == status = "idle" /\ reading = FALSE /\ disposed = FALSE

\* The stream is opened, whatever was there before.
Open == ~disposed /\ status' = "streaming" /\ reading' = FALSE /\ UNCHANGED disposed

Read == ~disposed /\ status = "streaming" /\ reading' = TRUE /\ UNCHANGED <<status, disposed>>

\* Opening or reading failed, or the stream has ended.
Break ==
  /\ ~disposed
  /\ status' \in {"retrying", "failed", "done"}
  /\ status' = "done" => reading
  /\ reading' = FALSE
  /\ UNCHANGED disposed

\* Only what runs or will run can be paused.
Pause ==
  /\ ~disposed /\ status \in {"streaming", "retrying"}
  /\ status' = "paused" /\ reading' = FALSE
  /\ UNCHANGED disposed

Dispose == disposed' = TRUE /\ reading' = FALSE /\ UNCHANGED status

Next == Open \/ Read \/ Break \/ Pause \/ Dispose

Spec == Init /\ [][Next]_vars
=============================================================================
