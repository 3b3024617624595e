--------------------------- MODULE MCDeviceStore ---------------------------
(* Two ids and three tokens: an id comes up again for another token, or both *)
(* devices are paired; the clock runs far enough for a last-seen           *)
(* time to be skipped once and written once.                               *)
EXTENDS DeviceStore, TLC

Symmetry == Permutations(Ids) \cup Permutations(Tokens)
=============================================================================
