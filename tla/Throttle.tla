------------------------------ MODULE Throttle ------------------------------
(* throttle.Limiter: failures and the end of the block per address, in a   *)
(* table of limited size. Every call holds the mutex, so Fail is one       *)
(* action. Callers ask Blocked first, but several requests of one address  *)
(* can have passed it together: Fail may come for a blocked address.       *)
(* Beside the table the model keeps every failure, which the limiter       *)
(* cannot afford, and compares the two. The names stay clear of those of   *)
(* Pairing, beside which this module is reasoned about.                    *)
EXTENDS Integers, Sequences, FiniteSets

CONSTANTS
  Addresses,
  Window, Threshold, BasePenalty, MaxPenalty, MaxFailures,
  MaxAddresses, EvictBatch,
  MaxTime,   \* bound of the clock
  MaxCalls   \* bound of the calls of Fail

ASSUME WindowAssumption == Window \in Nat \ {0}
ASSUME PenaltyAssumption ==
  /\ Threshold \in Nat \ {0} /\ MaxFailures \in Nat /\ MaxFailures >= Threshold
  /\ BasePenalty \in Nat \ {0} /\ MaxPenalty \in Nat /\ MaxPenalty >= BasePenalty
  \* maxFailures: the penalty reaches MaxPenalty at this count.
  /\ BasePenalty * 2 ^ (MaxFailures - Threshold) >= MaxPenalty
ASSUME TableAssumption ==
  MaxAddresses \in Nat \ {0} /\ EvictBatch \in 1..MaxAddresses
ASSUME BoundsAssumption == MaxTime \in Nat /\ MaxCalls \in Nat

VARIABLES
  addrs,    \* Limiter.addrs: the entries of the addresses in the table
  now,      \* the clock
  history,  \* every failure of each address since it was last evicted (ghost)
  calls     \* calls of Fail so far (ghost, for the bound)

limiterVars == <<addrs, now, history, calls>>

Times == 0..MaxTime
Entry == [failures : Seq(Times), blockedUntil : 0..(MaxTime + MaxPenalty)]

\* One type invariant for all of the state. No entry keeps more than
\* MaxFailures failures, and none is kept that has never failed.
LimiterTypeOK ==
  /\ DOMAIN addrs \subseteq Addresses /\ Cardinality(DOMAIN addrs) <= MaxAddresses
  /\ \A a \in DOMAIN addrs : addrs[a] \in Entry /\ Len(addrs[a].failures) <= MaxFailures
  /\ now \in Times
  /\ history \in [Addresses -> Seq(Times)]
  /\ calls \in 0..MaxCalls

LimiterInit ==
  /\ addrs = [a \in {} |-> [failures |-> << >>, blockedUntil |-> 0]]
  /\ now = 0
  /\ history = [a \in Addresses |-> << >>]
  /\ calls = 0

Running(entry) == entry.blockedUntil > now
Blocked(a) == a \in DOMAIN addrs /\ Running(addrs[a])

---------------------------------------------------------------------------
(* Fail.                                                                   *)

\* Mutant: a failure leaves the window one tick late.
RecentLate(failures) == SelectSeq(failures, LAMBDA t : now - t <= Window)

\* recent: how many failures its loop passes over until one is in the window.
Cut(failures) ==
  CHOOSE cut \in 0..Len(failures) :
    /\ \A j \in 1..cut : now - failures[j] >= Window
    /\ cut = Len(failures) \/ now - failures[cut + 1] < Window

\* recent: what is left of them.
Recent(failures) == SubSeq(failures, Cut(failures) + 1, Len(failures))

\* The newest MaxFailures of them.
Newest(failures) ==
  LET excess == Len(failures) - MaxFailures
  IN IF excess > 0 THEN SubSeq(failures, excess + 1, Len(failures)) ELSE failures

\* The loop that doubles the penalty, before and after its last cap.
Doubled[n \in Nat] ==
  IF n <= Threshold THEN BasePenalty
  ELSE IF Doubled[n - 1] < MaxPenalty THEN 2 * Doubled[n - 1] ELSE Doubled[n - 1]

Penalty(n) == IF Doubled[n] > MaxPenalty THEN MaxPenalty ELSE Doubled[n]

\* The end of a block only moves forward.
Later(until, other) == IF until > other THEN until ELSE other

\* One more failure of an address.
Failed(entry) ==
  LET failures == Newest(Append(Recent(entry.failures), now))
      n == Len(failures)
  IN [failures |-> failures,
      blockedUntil |-> IF n >= Threshold THEN Later(now + Penalty(n), entry.blockedUntil)
                                         ELSE entry.blockedUntil]

Full(table) == Cardinality(DOMAIN table) >= MaxAddresses

\* evictLocked, its first pass: addresses with nothing left to remember go.
Trimmed ==
  LET trim == [a \in DOMAIN addrs |-> [addrs[a] EXCEPT !.failures = Recent(@)]]
      kept == {a \in DOMAIN addrs : trim[a].failures # << >> \/ Running(trim[a])}
  IN [a \in kept |-> trim[a]]

LastFailure(entry) == entry.failures[Len(entry.failures)]

\* Mutant: what failed longest ago goes first, blocked or not.
BeforeByAge(e, f) == LastFailure(e) < LastFailure(f)

\* evictLocked, its second pass: which of two entries goes first.
Before(e, f) ==
  \/ ~Running(e) /\ Running(f)
  \/ ~Running(e) /\ ~Running(f) /\ LastFailure(e) < LastFailure(f)
  \/ Running(e) /\ Running(f) /\ e.blockedUntil < f.blockedUntil

\* Which addresses that pass can take: the order of equals is left open.
Evictable(table) ==
  {gone \in SUBSET DOMAIN table :
     /\ Cardinality(gone) = EvictBatch
     /\ \A a \in gone, b \in DOMAIN table \ gone : ~Before(table[b], table[a])}

\* What a full table gives up before it takes a new address.
MakeRoom(table) == IF Full(table) THEN Evictable(table) ELSE {{}}

New == [failures |-> << >>, blockedUntil |-> 0]

Fail(a) ==
  /\ calls < MaxCalls
  /\ calls' = calls + 1
  /\ LET table == IF a \notin DOMAIN addrs /\ Full(addrs) THEN Trimmed ELSE addrs
     IN \E gone \in IF a \in DOMAIN addrs THEN {{}} ELSE MakeRoom(table) :
          /\ addrs' = [b \in (DOMAIN table \ gone) \cup {a} |->
                         IF b # a THEN table[b]
                         ELSE Failed(IF a \in DOMAIN addrs THEN addrs[a] ELSE New)]
          /\ history' = [b \in Addresses |->
                           IF b = a THEN Append(history[b], now)
                           ELSE IF b \in gone THEN << >> ELSE history[b]]
  /\ UNCHANGED now

Tick ==
  /\ now < MaxTime
  /\ now' = now + 1
  /\ UNCHANGED <<addrs, history, calls>>

LimiterNext == Tick \/ \E a \in Addresses : Fail(a)

LimiterSpec == LimiterInit /\ [][LimiterNext]_limiterVars

---------------------------------------------------------------------------
(* What the limiter promises, from every failure of an address since it    *)
(* was last evicted to make room.                                          *)

\* Failures that count at the k-th.
Counted(times, k) == Cardinality({j \in 1..k : times[k] - times[j] < Window})

\* BasePenalty, doubled with every failure beyond the threshold, capped.
Worth(n) ==
  LET doubled == BasePenalty * 2 ^ (n - Threshold)
  IN IF doubled > MaxPenalty THEN MaxPenalty ELSE doubled

\* Blocked by some failure that was one too many and is not served yet.
Deserved(a) ==
  \E k \in 1..Len(history[a]) :
    /\ Counted(history[a], k) >= Threshold
    /\ history[a][k] + Worth(Counted(history[a], k)) > now

\* An address is blocked exactly when its failures deserve it: keeping the
\* newest few, trimming the others and forgetting harmless addresses change no
\* answer of Blocked (maxFailures: "older times change nothing").
BlockedAsDeserved == \A a \in Addresses : Blocked(a) <=> Deserved(a)

\* The table never outgrows its limit, and what makes room in it is chosen well:
\* a running block leaves it only when the table holds nothing but running
\* blocks, and then none of those that stay ends sooner (evictLocked).
BlocksGoLast ==
  [][/\ Cardinality(DOMAIN addrs') <= MaxAddresses
     /\ \A a \in DOMAIN addrs \ DOMAIN addrs' : Blocked(a) =>
          \A b \in DOMAIN addrs \cap DOMAIN addrs' :
            Blocked(b) /\ ~(addrs[b].blockedUntil < addrs[a].blockedUntil)]_limiterVars

---------------------------------------------------------------------------
(* The inductive invariant of the table.                                   *)

\* It keeps to its limit, and every entry has its two fields.
TableInv ==
  /\ IsFiniteSet(DOMAIN addrs) /\ Cardinality(DOMAIN addrs) <= MaxAddresses
  /\ \A a \in DOMAIN addrs : DOMAIN addrs[a] = {"failures", "blockedUntil"}

---------------------------------------------------------------------------
(* And that of its answers: what an entry has kept stands for all of the   *)
(* failures, and an address without one is like a new one.                 *)

EntryOf(a) == IF a \in DOMAIN addrs THEN addrs[a] ELSE New

\* The failures of an address are in order, and none is to come.
InOrder(times) ==
  /\ times \in Seq(Nat)
  /\ \A k \in 1..Len(times) : times[k] <= now
  /\ \A j, k \in 1..Len(times) : j <= k => times[j] <= times[k]

\* The entry keeps the last of them, without any that counts, or else as many as
\* it may keep.
KeepsLast(times, failures) ==
  LET dropped == Len(times) - Len(failures)
  IN /\ failures \in Seq(Nat) /\ Len(failures) <= Len(times)
     /\ \A i \in 1..Len(failures) : failures[i] = times[dropped + i]
     /\ dropped = 0 \/ now - times[dropped] >= Window \/ Len(failures) = MaxFailures

\* What the k-th failure was one too many for, and until when.
TooMany(times, k) == Counted(times, k) >= Threshold
ServedAt(times, k) == times[k] + Worth(Counted(times, k))

\* The end of the block is the last one deserved, if that is still to come.
EndsLast(times, until) ==
  /\ until \in Nat
  /\ \A k \in 1..Len(times) : TooMany(times, k) =>
       ServedAt(times, k) <= until \/ ServedAt(times, k) <= now
  /\ until > now => \E k \in 1..Len(times) : TooMany(times, k) /\ ServedAt(times, k) = until

StandsFor(entry, times) ==
  KeepsLast(times, entry.failures) /\ EndsLast(times, entry.blockedUntil)

HistoryInv ==
  /\ now \in Nat /\ calls \in 0..MaxCalls
  /\ DOMAIN history = Addresses
  /\ \A a \in Addresses :
       /\ InOrder(history[a]) /\ Len(history[a]) <= calls
       /\ StandsFor(EntryOf(a), history[a])

\* The loop computes the penalty that the constants promise, and from MaxFailures
\* failures on that is always the same one. MCThrottle evaluates it, for the
\* numbers of the code too.
PenaltiesAgree ==
  \A n \in Threshold..MaxCalls :
    Worth(n) \in Nat /\ Worth(n) = Penalty(IF n < MaxFailures THEN n ELSE MaxFailures)
=============================================================================
