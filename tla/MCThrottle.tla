----------------------------- MODULE MCThrottle -----------------------------
(* Three addresses for a table of two. Blocks of 1, 2, 4 and 5 ticks, the *)
(* last one capped; the longer ones outlast the window of 2.               *)
EXTENDS Throttle, TLC

Symmetry == Permutations(Addresses)

\* The numbers of throttle.go, with a minute as the unit.
InMinutes == INSTANCE Throttle WITH
  Window <- 10, Threshold <- 10, BasePenalty <- 1, MaxPenalty <- 15,
  MaxFailures <- 14, MaxAddresses <- 10000, EvictBatch <- 1000, MaxCalls <- 36

\* The loop agrees with the promise in the instance and in the code.
ASSUME PenaltiesAssumption == PenaltiesAgree /\ InMinutes!PenaltiesAgree
=============================================================================
