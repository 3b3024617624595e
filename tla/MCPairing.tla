----------------------------- MODULE MCPairing -----------------------------
(* Two commands, so that one replaces the other, with one phone; or one    *)
(* command with three phones: two wrong proofs void a code, and the third  *)
(* phone comes after that. All of them at once is left to the theorems.    *)
EXTENDS Pairing

CONSTANTS c1, c2, p1, p2, p3   \* commands and phones, in the order in which they come

Asked(c) == pc[c] # "idle"
Came(p) == answer[p] # "nothing"

\* Bound: two commands ask, with one phone and until the connections are closed,
\* or several phones come. Each comes once, so which of them is first is a matter
\* of names.
SomeOfEither ==
  /\ Asked(c2) => Asked(c1) /\ ~Came(p2) /\ (stop # "closed" \/ ~Came(p1))
  /\ (Came(p2) => Came(p1)) /\ (Came(p3) => Came(p2))
=============================================================================
