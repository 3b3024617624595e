---------------------------- MODULE OneTimeCode ----------------------------
(* What pairing promises to the two who take part in it. A code is open to *)
(* one phone, once, until another is asked for, its time is up or it was   *)
(* guessed at too often; and what the two are told of it is so for good.   *)
EXTENDS Naturals

CONSTANTS
  Commands,   \* who asks for a code, each for one
  Phones,
  MaxTries,
  None

VARIABLES
  fate,     \* of each code: none yet, open, used or void
  holder,   \* the phone that used it
  late,     \* codes whose time is up
  tested,   \* wrong proofs each code was tested against
  told,     \* what its command has been told of it
  got       \* what each phone has been told

vars == <<fate, holder, late, tested, told, got>>

Init ==
  /\ fate = [c \in Commands |-> "none"]
  /\ holder = [c \in Commands |-> None]
  /\ late = {}
  /\ tested = [c \in Commands |-> 0]
  /\ told = [c \in Commands |-> "nothing"]
  /\ got = [p \in Phones |-> "nothing"]

\* A code is open, and no other is.
Offer(c) ==
  /\ fate[c] = "none"
  /\ fate' = [d \in Commands |->
                IF d = c THEN "open" ELSE IF fate[d] = "open" THEN "void" ELSE fate[d]]
  /\ UNCHANGED <<holder, late, tested, told, got>>

\* It is open no more, or never will be.
Withdraw(c) ==
  /\ fate[c] \in {"none", "open"}
  /\ fate' = [fate EXCEPT ![c] = "void"]
  /\ UNCHANGED <<holder, late, tested, told, got>>

Elapse(c) ==
  /\ late' = late \cup {c}
  /\ UNCHANGED <<fate, holder, tested, told, got>>

Answer(p, what) == got[p] = "nothing" /\ got' = [got EXCEPT ![p] = what]

\* A wrong proof is tested against a code, even one that nobody will see any more.
Guess(c, p) ==
  /\ fate[c] \in {"open", "void"} /\ tested[c] < MaxTries
  /\ tested' = [tested EXCEPT ![c] = @ + 1]
  /\ fate' = IF tested[c] + 1 = MaxTries THEN [fate EXCEPT ![c] = "void"] ELSE fate
  /\ Answer(p, "unpaired")
  /\ UNCHANGED <<holder, late, told>>

\* A phone is turned away, and may find the open code void.
TurnAway(p) ==
  /\ Answer(p, "unpaired")
  /\ \/ UNCHANGED fate
     \/ \E c \in Commands : fate[c] = "open" /\ fate' = [fate EXCEPT ![c] = "void"]
  /\ UNCHANGED <<holder, late, tested, told>>

\* A phone uses the code.
Use(c, p) ==
  /\ fate[c] = "open" /\ c \notin late /\ tested[c] < MaxTries
  /\ fate' = [fate EXCEPT ![c] = "used"]
  /\ holder' = [holder EXCEPT ![c] = p]
  /\ Answer(p, "paired")
  /\ UNCHANGED <<late, tested, told>>

\* The command is told that a phone is paired, that none is or ever will be, or
\* that this is not known.
Tell(c, what) ==
  /\ told[c] = "nothing" /\ told' = [told EXCEPT ![c] = what]
  /\ what = "paired" => fate[c] = "used"
  /\ what = "unpaired" => fate[c] # "used"
  /\ fate' = IF what = "unpaired" THEN [fate EXCEPT ![c] = "void"] ELSE fate
  /\ UNCHANGED <<holder, late, tested, got>>

Next ==
  \/ \E c \in Commands : Offer(c) \/ Withdraw(c) \/ Elapse(c)
  \/ \E c \in Commands, what \in {"paired", "unpaired", "unknown"} : Tell(c, what)
  \/ \E p \in Phones : TurnAway(p) \/ \E c \in Commands : Guess(c, p) \/ Use(c, p)

Spec == Init /\ [][Next]_vars
=============================================================================
