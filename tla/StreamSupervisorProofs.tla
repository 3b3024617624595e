----------------------- MODULE StreamSupervisorProofs -----------------------
(* Nothing leaks, what is reported is true, and LongStream is implemented, *)
(* for any limit of attempts and however deep the reports are nested. Then *)
(* ContainerLogs, the log that a supervised stream brings to a screen.     *)
EXTENDS StreamSupervisor, ContainerLogs, SequenceTheorems, FiniteSetTheorems, TLAPS

Reports == [then : {"listen", "arm", "end"}, gen : Nat]

\* What is on the stack after one more report.
LEMMA Pushed ==
  ASSUME NEW s \in Seq(Reports), NEW f \in Reports
  PROVE  /\ Append(s, f) \in Seq(Reports) /\ Len(Append(s, f)) = Len(s) + 1
         /\ \A i \in 1..Len(s) : Append(s, f)[i] = s[i]
         /\ Append(s, f)[Len(s) + 1] = f
         /\ Len(s) \in Nat
  OBVIOUS

\* The innermost report, and what is left when it returns.
LEMMA Popped ==
  ASSUME NEW s \in Seq(Reports), s # << >>
  PROVE  /\ Front(s) \in Seq(Reports) /\ Len(Front(s)) = Len(s) - 1
         /\ \A i \in 1..(Len(s) - 1) : Front(s)[i] = s[i]
         /\ Last(s) = s[Len(s)] /\ Last(s) \in Reports
         /\ Len(s) \in Nat \ {0}
<1>. DEFINE n == Len(s) - 1
<1>1. Len(s) \in Nat \ {0} /\ n \in Nat /\ \A i \in 1..n : s[i] \in Reports
  OBVIOUS
<1>2. Front(s) = SubSeq(s, 1, n) /\ Last(s) = s[Len(s)]
  BY DEF Front, Last
<1>3. /\ SubSeq(s, 1, n) \in Seq(Reports)
      /\ Len(SubSeq(s, 1, n)) = IF 1 <= n THEN n - 1 + 1 ELSE 0
      /\ \A i \in 1..(n - 1 + 1) : SubSeq(s, 1, n)[i] = s[1 + i - 1]
  <2>. HIDE DEF n
  <2>1. 1 \in Int /\ n \in Int
    BY <1>1
  <2>. QED
    BY <1>1, <2>1, SubSeqProperties
<1>4. (IF 1 <= n THEN n - 1 + 1 ELSE 0) = n
  <2>. HIDE DEF n
  <2>. QED
    BY <1>1
<1>5. Front(s) \in Seq(Reports) /\ Len(Front(s)) = Len(s) - 1
  <2>1. Len(Front(s)) = n
    BY <1>2, <1>3, <1>4, Zenon
  <2>. QED
    BY <1>2, <1>3, <2>1
<1>6. \A i \in 1..(Len(s) - 1) : Front(s)[i] = s[i]
  BY <1>1, <1>2, <1>3
<1>7. Last(s) \in Reports
  BY <1>1, <1>2
<1>. QED
  BY <1>1, <1>2, <1>5, <1>6, <1>7

\* The stack after a report that was made with a generation newer than all of it.
LEMMA SetKeepsOrder ==
  ASSUME Types, NEW g \in Nat, g > 0, NEW k \in {"listen", "arm", "end"},
         \A i \in 1..Len(calls) : calls[i].gen > 0 /\ calls[i].gen < g,
         \A i, j \in 1..Len(calls) : i < j => calls[i].gen < calls[j].gen,
         calls' = Append(calls, [then |-> k, gen |-> g])
  PROVE  /\ calls' \in Seq(Reports)
         /\ \A i \in 1..Len(calls') : calls'[i].gen > 0 /\ calls'[i].gen <= g
         /\ \A i, j \in 1..Len(calls') : i < j => calls'[i].gen < calls'[j].gen
         /\ \A i \in 1..Len(calls') : calls'[i].gen = g => calls'[i].then = k
         /\ Len(calls') \in 1..Len(calls')
         /\ calls'[Len(calls')].gen = g /\ calls'[Len(calls')].then = k
<1>. DEFINE f == [then |-> k, gen |-> g]
<1>1. f \in Reports /\ calls \in Seq(Reports)
  BY DEF Reports, Types
<1>2. /\ calls' \in Seq(Reports) /\ Len(calls') = Len(calls) + 1 /\ Len(calls) \in Nat
      /\ \A i \in 1..Len(calls) : calls'[i] = calls[i]
      /\ calls'[Len(calls) + 1] = f
  BY <1>1, Pushed
<1>3. \A i \in 1..Len(calls) : calls[i] \in Reports
  BY <1>1
<1>4. \A i \in 1..Len(calls') : i \in 1..Len(calls) \/ i = Len(calls) + 1
  BY <1>2
<1>5. f.gen = g /\ f.then = k
  OBVIOUS
<1>. HIDE DEF f
<1>6. \A i \in 1..Len(calls) : calls[i].gen \in Nat
  BY <1>3 DEF Reports
<1>. QED
  BY <1>2, <1>3, <1>4, <1>5, <1>6

\* A report of a new status, when nothing is held any more: retrying and
\* streaming are true once the report returns.
LEMMA SetStep ==
  ASSUME Types', NEW g \in Nat, g > 0, generation' = g, Types,
         NEW k \in {"listen", "arm", "end"},
         \A i \in 1..Len(calls) : calls[i].gen > 0 /\ calls[i].gen < g,
         \A i, j \in 1..Len(calls) : i < j => calls[i].gen < calls[j].gen,
         calls' = Append(calls, [then |-> k, gen |-> g]),
         status' = "streaming" <=> k = "listen",
         status' = "retrying" <=> k = "arm",
         sub' = 0, timer' = 0, sources' = {}, timers' = {}
  PROVE  IInv'
<1>1. /\ \A i \in 1..Len(calls') : calls'[i].gen > 0 /\ calls'[i].gen <= g
      /\ \A i, j \in 1..Len(calls') : i < j => calls'[i].gen < calls'[j].gen
      /\ \A i \in 1..Len(calls') : calls'[i].gen = g => calls'[i].then = k
      /\ Len(calls') \in 1..Len(calls')
      /\ calls'[Len(calls')].gen = g /\ calls'[Len(calls')].then = k
  BY SetKeepsOrder
<1>2. HeldInv'
  BY DEF HeldInv
<1>3. CallsInv'
  BY <1>1 DEF CallsInv
<1>4. TruthInv'
  BY <1>1 DEF TruthInv
<1>. QED
  BY <1>2, <1>3, <1>4 DEF IInv

\* Every report on the stack is older than the next generation.
LEMMA CallsAreOlder ==
  ASSUME IInv
  PROVE  /\ \A i \in 1..Len(calls) : calls[i].gen \in Nat
         /\ \A i \in 1..Len(calls) : calls[i].gen > 0 /\ calls[i].gen < generation + 1
         /\ \A i, j \in 1..Len(calls) : i < j => calls[i].gen < calls[j].gen
<1>0. calls \in Seq(Reports)
  BY DEF IInv, Types, Reports
<1>1. \A i \in 1..Len(calls) : calls[i] \in Reports
  BY <1>0
<1>2. \A i \in 1..Len(calls) : calls[i].gen \in Nat
  BY <1>1 DEF Reports
<1>3. generation \in Nat
  BY DEF IInv, Types
<1>. QED
  BY <1>2, <1>3 DEF IInv, CallsInv

\* _connect, whoever calls it.
LEMMA ConnectStep ==
  ASSUME IInv, ~disposed, disposed' = disposed, NEW before \in Nat, NEW count,
         Connect(before, count)
  PROVE  IInv' /\ Abstract!Next
<1>1. /\ generation' = generation + 1 /\ generation' \in Nat /\ generation' > 0
      /\ sub' = 0 /\ timer' = 0 /\ stable' = 0 /\ sources' = {} /\ timers' = {}
  BY DEF Connect, Cancel, IInv, Types, HeldInv
<1>2. \E k \in {"listen", "arm", "end"} :
        /\ calls' = Append(calls, [then |-> k, gen |-> generation'])
        /\ status' = "streaming" <=> k = "listen"
        /\ status' = "retrying" <=> k = "arm"
        /\ status' \in {"streaming", "retrying", "failed"}
        /\ attempt' \in Nat
  BY DEF Connect, HandleError, Set
<1>3. PICK k \in {"listen", "arm", "end"} :
        /\ calls' = Append(calls, [then |-> k, gen |-> generation'])
        /\ status' = "streaming" <=> k = "listen"
        /\ status' = "retrying" <=> k = "arm"
        /\ status' \in {"streaming", "retrying", "failed"}
        /\ attempt' \in Nat
  BY <1>2
<1>4. Types'
  <2>1. [then |-> k, gen |-> generation'] \in Reports
    BY <1>1 DEF Reports
  <2>2. calls' \in Seq(Reports)
    BY <1>3, <2>1 DEF IInv, Types, Reports
  <2>. QED
    BY <1>1, <1>3, <2>2 DEF IInv, Types, Reports
<1>5. IInv'
  <2>1. /\ \A i \in 1..Len(calls) : calls[i].gen > 0 /\ calls[i].gen < generation'
        /\ \A i, j \in 1..Len(calls) : i < j => calls[i].gen < calls[j].gen
    BY <1>1, CallsAreOlder
  <2>. QED
    BY <1>1, <1>3, <1>4, <2>1, SetStep DEF IInv
<1>6. Abstract!Next
  BY <1>1, <1>3 DEF Abstract!Next, Abstract!Open, Abstract!Break
<1>. QED
  BY <1>5, <1>6

\* An error or an end of the stream: the source is gone, and one more status is
\* reported.
LEMMA BrokenStep ==
  ASSUME IInv, calls = << >>, NEW g \in sources, g = generation, Gone(g),
         attempt' \in Nat, NEW k \in {"arm", "end"},
         calls' = Append(calls, [then |-> k, gen |-> generation']),
         status' = "retrying" <=> k = "arm",
         status' \in {"retrying", "failed", "done"}
  PROVE  IInv' /\ Abstract!Next
<1>1. /\ sub = g /\ g # 0 /\ g \in Nat /\ g > 0
      /\ ~disposed /\ timer = 0 /\ sources = {g} /\ timers = {}
  BY DEF IInv, Types, HeldInv
<1>2. /\ generation' = g /\ disposed' = disposed
      /\ sub' = 0 /\ timer' = 0 /\ stable' = 0 /\ sources' = {} /\ timers' = {}
  BY <1>1 DEF Gone, flagVars
<1>3. [then |-> k, gen |-> generation'] \in Reports
  BY <1>1, <1>2 DEF Reports
<1>4. calls \in Seq(Reports)
  BY DEF IInv, Types, Reports
<1>5. calls' \in Seq(Reports)
  BY <1>3, <1>4
<1>6. Types'
  BY <1>1, <1>2, <1>5 DEF IInv, Types, Reports
<1>7. /\ \A i \in 1..Len(calls) : calls[i].gen > 0 /\ calls[i].gen < g
      /\ \A i, j \in 1..Len(calls) : i < j => calls[i].gen < calls[j].gen
  OBVIOUS
<1>8. IInv'
  BY <1>1, <1>2, <1>6, <1>7, SetStep DEF IInv
<1>9. Abstract!Next
  BY <1>1, <1>2 DEF Abstract!Next, Abstract!Break
<1>. QED
  BY <1>8, <1>9

\* What _handleError reports.
LEMMA HandleErrorReports ==
  ASSUME IInv, NEW before \in Nat, HandleError(before)
  PROVE  /\ attempt' \in Nat
         /\ \E k \in {"arm", "end"} :
              /\ calls' = Append(calls, [then |-> k, gen |-> generation'])
              /\ status' = "retrying" <=> k = "arm"
              /\ status' \in {"retrying", "failed"}
<1>1. attempt' \in Nat
  BY DEF HandleError
<1>2. \/ status' = "failed" /\ calls' = Append(calls, [then |-> "end", gen |-> generation'])
      \/ status' = "retrying" /\ calls' = Append(calls, [then |-> "arm", gen |-> generation'])
  BY DEF HandleError, Set
<1>. QED
  BY <1>1, <1>2

\* The innermost report returns.
LEMMA ReturnStep ==
  ASSUME IInv, Return
  PROVE  IInv' /\ (Abstract!Next \/ UNCHANGED Abstract!vars)
<1>. DEFINE f == calls[Len(calls)]
<1>1. calls \in Seq(Reports) /\ calls # << >>
  BY DEF IInv, Types, Reports, Return
<1>2. /\ calls' \in Seq(Reports) /\ Len(calls') = Len(calls) - 1
      /\ \A i \in 1..(Len(calls) - 1) : calls'[i] = calls[i]
      /\ Last(calls) = f /\ f \in Reports /\ Len(calls) \in Nat \ {0}
  BY <1>1, Popped DEF Return
<1>3. /\ generation' = generation /\ status' = status /\ disposed' = disposed
      /\ attempt' = attempt /\ generation \in Nat /\ disposed \in BOOLEAN
  BY DEF Return, flagVars, IInv, Types
<1>4. \A i \in 1..Len(calls') : i \in 1..Len(calls) /\ i < Len(calls) /\ calls'[i] = calls[i]
  BY <1>2
<1>5. Len(calls) \in 1..Len(calls) /\ f.gen > 0 /\ f.gen <= generation /\ f.gen \in Nat
      /\ f.then \in {"listen", "arm", "end"}
  BY <1>2 DEF IInv, CallsInv, Reports
<1>. HIDE DEF f
<1>6. /\ \A i \in 1..Len(calls') : calls'[i].gen > 0 /\ calls'[i].gen <= generation
      /\ \A i, j \in 1..Len(calls') : i < j => calls'[i].gen < calls'[j].gen
      /\ \A i \in 1..Len(calls') : calls'[i].gen < f.gen
  BY <1>4, <1>5 DEF IInv, CallsInv, f
<1>7. \A i \in 1..Len(calls') : calls'[i].gen \in Nat
  <2>1. \A i \in 1..Len(calls') : calls'[i] \in Reports
    BY <1>2
  <2>. QED
    BY <2>1 DEF Reports
<1>8. CASE f.then = "listen" /\ StillMine(f)
  <2>1. status = "streaming" /\ sub = 0 /\ timer = 0 /\ f.gen = generation /\ ~disposed
    BY <1>5, <1>8 DEF StillMine, IInv, CallsInv, f
  <2>2. /\ sub' = generation /\ sources' = {generation} /\ stable' = generation
        /\ timer' = 0 /\ timers' = {}
    BY <1>2, <1>8, <2>1 DEF Return, Listen, Arm, IInv, HeldInv
  <2>3. Types'
    BY <1>2, <1>3, <2>2 DEF IInv, Types, Reports
  <2>4. HeldInv'
    BY <1>3, <1>5, <2>1, <2>2 DEF HeldInv
  <2>5. CallsInv'
    BY <1>3, <1>6, <1>7, <2>1 DEF CallsInv
  <2>6. TruthInv'
    BY <1>3, <1>5, <2>1, <2>2 DEF TruthInv
  <2>7. Abstract!Read
    BY <1>3, <1>5, <2>1, <2>2 DEF Abstract!Read
  <2>. QED
    BY <2>3, <2>4, <2>5, <2>6, <2>7 DEF IInv, Abstract!Next
<1>9. CASE f.then = "arm" /\ StillMine(f)
  <2>1. status = "retrying" /\ sub = 0 /\ timer = 0 /\ f.gen = generation /\ ~disposed
    BY <1>5, <1>9 DEF StillMine, IInv, CallsInv, f
  <2>2. /\ timer' = generation /\ timers' = {generation}
        /\ sub' = 0 /\ sources' = {} /\ stable' = stable
    BY <1>2, <1>9, <2>1 DEF Return, Listen, Arm, IInv, HeldInv
  <2>3. Types'
    BY <1>2, <1>3, <2>2 DEF IInv, Types, Reports
  <2>4. HeldInv'
    BY <1>3, <1>5, <2>1, <2>2 DEF HeldInv
  <2>5. CallsInv'
    BY <1>3, <1>6, <1>7, <2>1 DEF CallsInv
  <2>6. TruthInv'
    BY <1>3, <1>5, <2>1, <2>2 DEF TruthInv
  <2>7. UNCHANGED Abstract!vars
    BY <1>3, <2>1, <2>2 DEF Abstract!vars
  <2>. QED
    BY <2>3, <2>4, <2>5, <2>6, <2>7 DEF IInv
<1>10. CASE ~(f.then \in {"listen", "arm"} /\ StillMine(f))
  <2>1. UNCHANGED <<sub, timer, stable, sources, timers>>
    BY <1>2, <1>10 DEF Return, Listen, Arm
  <2>2. Types'
    BY <1>2, <1>3, <2>1 DEF IInv, Types, Reports
  <2>3. HeldInv'
    BY <1>3, <2>1 DEF IInv, HeldInv
  <2>4. CallsInv'
    BY <1>3, <1>4, <1>6, <2>1 DEF IInv, CallsInv
  <2>5. \A i \in 1..Len(calls) : i = Len(calls) \/ i \in 1..Len(calls')
    BY <1>2
  <2>6. TruthInv'
    <3>1. SUFFICES ASSUME ~disposed
                   PROVE  TruthInv'
      BY <1>3 DEF TruthInv
    <3>2. ASSUME NEW i \in 1..Len(calls), calls[i].then \in {"listen", "arm"},
                 calls[i].gen = generation
          PROVE  i \in 1..Len(calls') /\ calls'[i] = calls[i]
      <4>1. i # Len(calls)
        BY <1>10, <3>1, <3>2 DEF StillMine, f
      <4>. QED
        BY <4>1, <1>4, <2>5
    <3>3. ASSUME status = "streaming", sub = 0
          PROVE  \E i \in 1..Len(calls') : calls'[i].then = "listen" /\ calls'[i].gen = generation
      <4>1. PICK i \in 1..Len(calls) : calls[i].then = "listen" /\ calls[i].gen = generation
        BY <3>1, <3>3 DEF IInv, TruthInv
      <4>2. i \in 1..Len(calls') /\ calls'[i] = calls[i]
        BY <3>2, <4>1
      <4>. QED
        BY <4>1, <4>2
    <3>4. ASSUME status = "retrying", timer = 0
          PROVE  \E i \in 1..Len(calls') : calls'[i].then = "arm" /\ calls'[i].gen = generation
      <4>1. PICK i \in 1..Len(calls) : calls[i].then = "arm" /\ calls[i].gen = generation
        BY <3>1, <3>4 DEF IInv, TruthInv
      <4>2. i \in 1..Len(calls') /\ calls'[i] = calls[i]
        BY <3>2, <4>1
      <4>. QED
        BY <4>1, <4>2
    <3>. QED
      BY <1>3, <2>1, <3>3, <3>4 DEF TruthInv
  <2>7. UNCHANGED Abstract!vars
    BY <1>3, <2>1 DEF Abstract!vars
  <2>. QED
    BY <2>2, <2>3, <2>4, <2>6, <2>7 DEF IInv
<1>. QED
  BY <1>5, <1>8, <1>9, <1>10

\* A piece of data is reported, and nothing of it changes.
LEMMA DataStep ==
  ASSUME IInv, NEW g \in sources, Data(g)
  PROVE  IInv' /\ UNCHANGED Abstract!vars
<1>. DEFINE f == [then |-> "end", gen |-> generation]
<1>1. /\ sub = g /\ g # 0 /\ g \in Nat /\ g = generation
      /\ timer = 0 /\ status = "streaming" /\ ~disposed
  BY DEF Data, IInv, Types, HeldInv
<1>2. /\ UNCHANGED <<status, generation, disposed, sub, timer, stable, sources, timers>>
      /\ attempt' = 0 /\ calls' = << f >>
  BY DEF Data, heldVars, flagVars
<1>3. f \in Reports /\ f.gen = g /\ f.then = "end"
  BY <1>1 DEF Reports
<1>4. calls' \in Seq(Reports) /\ Len(calls') = 1 /\ calls'[1] = f
  BY <1>2, <1>3
<1>. HIDE DEF f
<1>5. \A i \in 1..Len(calls') : i = 1 /\ calls'[i].gen = g /\ calls'[i].then = "end"
  BY <1>3, <1>4
<1>6. Types'
  BY <1>2, <1>4 DEF IInv, Types, Reports
<1>7. HeldInv'
  BY <1>2 DEF IInv, HeldInv
<1>8. CallsInv'
  BY <1>1, <1>2, <1>5 DEF CallsInv
<1>9. TruthInv'
  BY <1>1, <1>2 DEF TruthInv
<1>. QED
  BY <1>2, <1>6, <1>7, <1>8, <1>9 DEF IInv, Abstract!vars

\* pause: what is held is let go, and one status is reported.
LEMMA PauseStep ==
  ASSUME IInv, Pause
  PROVE  IInv' /\ Abstract!Next
<1>1. /\ generation' = generation + 1 /\ generation' \in Nat /\ generation' > 0
      /\ sub' = 0 /\ timer' = 0 /\ stable' = 0 /\ sources' = {} /\ timers' = {}
      /\ attempt' = attempt /\ disposed' = disposed /\ ~disposed
      /\ status \in {"streaming", "retrying"} /\ status' = "paused"
      /\ calls' = Append(calls, [then |-> "end", gen |-> generation'])
  BY DEF Pause, Cancel, Set, IInv, Types, HeldInv
<1>2. [then |-> "end", gen |-> generation'] \in Reports /\ calls \in Seq(Reports)
  BY <1>1 DEF Reports, IInv, Types
<1>3. calls' \in Seq(Reports)
  BY <1>1, <1>2
<1>4. Types'
  BY <1>1, <1>3 DEF IInv, Types, Reports
<1>5. /\ \A i \in 1..Len(calls) : calls[i].gen > 0 /\ calls[i].gen < generation'
      /\ \A i, j \in 1..Len(calls) : i < j => calls[i].gen < calls[j].gen
  BY <1>1, CallsAreOlder
<1>6. IInv'
  BY <1>1, <1>4, <1>5, SetStep DEF IInv
<1>7. Abstract!Next
  BY <1>1 DEF Abstract!Next, Abstract!Pause
<1>. QED
  BY <1>6, <1>7

\* dispose: from now on no report leads to anything.
LEMMA DisposeStep ==
  ASSUME IInv, Dispose
  PROVE  IInv' /\ Abstract!Next
<1>1. /\ generation' = generation + 1 /\ generation' \in Nat /\ generation' # 0
      /\ sub' = 0 /\ timer' = 0 /\ stable' = 0 /\ sources' = {} /\ timers' = {}
      /\ attempt' = attempt /\ disposed' = TRUE /\ status' = status /\ calls' = calls
  BY DEF Dispose, Cancel, IInv, Types, HeldInv
<1>2. Types'
  BY <1>1 DEF IInv, Types
<1>3. HeldInv'
  BY <1>1 DEF HeldInv
<1>4. /\ \A i \in 1..Len(calls) : calls[i].gen \in Nat
      /\ \A i \in 1..Len(calls) : calls[i].gen > 0 /\ calls[i].gen < generation + 1
      /\ \A i, j \in 1..Len(calls) : i < j => calls[i].gen < calls[j].gen
  BY CallsAreOlder
<1>5. CallsInv'
  BY <1>1, <1>4 DEF CallsInv
<1>6. TruthInv'
  BY <1>1 DEF TruthInv
<1>7. Abstract!Next
  BY <1>1 DEF Abstract!Next, Abstract!Dispose
<1>. QED
  BY <1>2, <1>3, <1>5, <1>6, <1>7 DEF IInv

\* The stream has held: only the count changes.
LEMMA StableStep ==
  ASSUME IInv, StableTimerFires \/ UNCHANGED vars
  PROVE  IInv' /\ UNCHANGED Abstract!vars
<1>1. /\ UNCHANGED <<status, generation, disposed, sub, timer, sources, timers, calls>>
      /\ attempt' \in Nat /\ stable' \in Nat
  BY DEF StableTimerFires, vars, flagVars, heldVars, IInv, Types
<1>2. Types'
  BY <1>1 DEF IInv, Types
<1>3. HeldInv'
  BY <1>1 DEF IInv, HeldInv
<1>4. CallsInv'
  BY <1>1 DEF IInv, CallsInv
<1>5. TruthInv'
  BY <1>1 DEF IInv, TruthInv
<1>. QED
  BY <1>1, <1>2, <1>3, <1>4, <1>5 DEF IInv, Abstract!vars

\* Every step keeps the invariant, and is a step of LongStream or none.
LEMMA Step ==
  ASSUME IInv, [Next]_vars
  PROVE  IInv' /\ (Abstract!Next \/ UNCHANGED Abstract!vars)
<1>. USE MaxAttemptsAssumption
<1>1. attempt \in Nat /\ 0 \in Nat
  BY DEF IInv, Types
<1>2. CASE Start
  BY <1>1, <1>2, ConnectStep DEF Start, flagVars, IInv, Types, HeldInv
<1>3. CASE Pause
  BY <1>3, PauseStep
<1>4. CASE Resume
  BY <1>1, <1>4, ConnectStep DEF Resume
<1>5. CASE Retry
  BY <1>1, <1>5, ConnectStep DEF Retry
<1>6. CASE Dispose
  BY <1>6, DisposeStep
<1>7. CASE Return
  BY <1>7, ReturnStep
<1>8. ASSUME NEW g \in sources, Data(g)
      PROVE  IInv' /\ (Abstract!Next \/ UNCHANGED Abstract!vars)
  BY <1>8, DataStep
<1>9. ASSUME NEW g \in sources, SourceFails(g)
      PROVE  IInv' /\ (Abstract!Next \/ UNCHANGED Abstract!vars)
  <2>1. calls = << >> /\ g = generation /\ Gone(g) /\ HandleError(attempt)
    BY <1>9 DEF SourceFails
  <2>2. attempt' \in Nat
    BY <1>1, <2>1, HandleErrorReports
  <2>3. PICK k \in {"arm", "end"} :
          /\ calls' = Append(calls, [then |-> k, gen |-> generation'])
          /\ status' = "retrying" <=> k = "arm"
          /\ status' \in {"retrying", "failed"}
    BY <1>1, <2>1, HandleErrorReports
  <2>. QED
    BY <2>1, <2>2, <2>3, BrokenStep
<1>10. ASSUME NEW g \in sources, SourceEnds(g)
       PROVE  IInv' /\ (Abstract!Next \/ UNCHANGED Abstract!vars)
  <2>1. calls = << >> /\ g = generation /\ Gone(g)
    BY <1>10 DEF SourceEnds
  <2>2. CASE HandleError(attempt)
    <3>1. attempt' \in Nat
      BY <1>1, <2>2, HandleErrorReports
    <3>2. PICK k \in {"arm", "end"} :
            /\ calls' = Append(calls, [then |-> k, gen |-> generation'])
            /\ status' = "retrying" <=> k = "arm"
            /\ status' \in {"retrying", "failed"}
      BY <1>1, <2>2, HandleErrorReports
    <3>. QED
      BY <2>1, <3>1, <3>2, BrokenStep
  <2>3. CASE Set("done", "end") /\ UNCHANGED attempt
    BY <1>1, <2>1, <2>3, BrokenStep DEF Set
  <2>. QED
    BY <1>10, <2>2, <2>3 DEF SourceEnds
<1>11. ASSUME NEW g \in timers, RetryTimerFires(g)
       PROVE  IInv' /\ (Abstract!Next \/ UNCHANGED Abstract!vars)
  <2>1. ~disposed
    BY DEF IInv, HeldInv
  <2>2. Connect(attempt, opens) /\ disposed' = disposed
    BY <1>11 DEF RetryTimerFires, flagVars
  <2>. QED
    BY <1>1, <2>1, <2>2, ConnectStep
<1>12. CASE StableTimerFires \/ UNCHANGED vars
  BY <1>12, StableStep
<1>. QED
  BY <1>2, <1>3, <1>4, <1>5, <1>6, <1>7, <1>8, <1>9, <1>10, <1>11, <1>12 DEF Next

\* The supervisor begins in the invariant, and as LongStream does.
LEMMA Initially ==
  ASSUME Init
  PROVE  IInv /\ Abstract!Init
<1>1. calls = << >> /\ Len(calls) = 0 /\ calls \in Seq(Reports)
  BY DEF Init
<1>2. Types
  BY <1>1 DEF Init, Types, Reports
<1>3. HeldInv /\ CallsInv /\ TruthInv
  BY <1>1 DEF Init, HeldInv, CallsInv, TruthInv
<1>. QED
  BY <1>2, <1>3 DEF IInv, Init, Abstract!Init

\* What the supervisor holds goes with its generation and its status, and every
\* report being made is older than the one made within it.
THEOREM Invariance == Spec => []IInv
<1>1. Init => IInv
  BY Initially
<1>2. IInv /\ [Next]_vars => IInv'
  BY Step
<1>. QED
  BY <1>1, <1>2, PTL DEF Spec

\* No source and no timer outlives a pause or dispose, however the reports of
\* _set pause, retry or dispose before they return.
THEOREM NoSourceLeaks == Spec => []NothingLeaks
<1>1. IInv => NothingLeaks
  BY DEF IInv, Types, HeldInv, NothingLeaks
<1>. QED
  BY <1>1, Invariance, PTL

\* Once _set has returned, streaming is said only while a source is read and
\* retrying only while a timer will reopen it.
THEOREM ReportsAreTrue == Spec => []ReportedIsTrue
<1>1. IInv => ReportedIsTrue
  <2>1. calls = << >> => Len(calls) = 0
    OBVIOUS
  <2>. QED
    BY <2>1 DEF IInv, HeldInv, TruthInv, ReportedIsTrue
<1>. QED
  BY <1>1, Invariance, PTL

\* The supervisor is a LongStream: every step of it is one that a screen may see,
\* or changes nothing that it sees.
THEOREM Implements == Spec => IsLongStream
<1>1. Init => Abstract!Init
  BY Initially
<1>2. IInv /\ [Next]_vars => [Abstract!Next]_(Abstract!vars)
  BY Step
<1>. QED
  BY <1>1, <1>2, Invariance, PTL DEF Spec, IsLongStream, Abstract!Spec

---------------------------------------------------------------------------
(* The log on a screen, whose stream a supervisor keeps: it shows what it  *)
(* promises however often that stream is lost, paused and reopened.        *)

\* Every step keeps what the stream of the log owes to the wishes.
LEMMA LogsRunStep ==
  ASSUME RunInv, [LogNext]_logVars
  PROVE  RunInv'
<1>. USE DEF RunInv, RunsAsWanted, Reading
<1>1. CASE \E s \in Sources, t \in Times : Write(s, t)
  BY <1>1 DEF Write, cursorVars, wishVars, streamVars
<1>2. CASE Whole \/ Begin \/ \E s \in Sources : Rest(s)
  BY <1>2 DEF Whole, Begin, Rest, cursorVars, wishVars, streamVars
<1>3. CASE Lose
  BY <1>3 DEF Lose, Report, ViewOf, wishVars, streamVars
<1>4. CASE Finish
  BY <1>4 DEF Finish, Report, ViewOf, wishVars, streamVars
<1>5. CASE Reopen
  BY <1>5 DEF Reopen, Open, Report, ViewOf, wishVars
<1>6. ASSUME Sync, live' \in BOOLEAN, following' \in BOOLEAN PROVE RunInv'
  <2>1. CASE live' /\ following'
    BY <1>6, <2>1 DEF Sync, Follow, Open, Report, ViewOf, streamVars
  <2>2. CASE live' /\ ~following' /\ reloadOwed
    BY <1>6, <2>2 DEF Sync, MakeUp, Open, Report, ViewOf
  <2>3. CASE ~(live' /\ following') /\ ~(live' /\ reloadOwed)
    BY <1>6, <2>3 DEF Sync, Halt, Report, ViewOf, streamVars
  <2>. QED
    BY <2>1, <2>2, <2>3, <1>6
<1>7. CASE SetLive
  BY <1>6, <1>7 DEF SetLive
<1>8. CASE SetFollowing
  BY <1>6, <1>8 DEF SetFollowing
<1>9. CASE \E n \in Tails : SetTail(n)
  BY <1>9 DEF SetTail, Open, Report, ViewOf, streamVars
<1>10. CASE RetryLog
  BY <1>10 DEF RetryLog, Open, Report, ViewOf, wishVars
<1>11. CASE UNCHANGED logVars
  BY <1>11 DEF logVars, wishVars, streamVars
<1>. QED
  BY <1>1, <1>2, <1>3, <1>4, <1>5, <1>7, <1>8, <1>9, <1>10, <1>11 DEF LogNext

\* RunsAsWanted: the log's stream runs only while the session is live, follows
\* when the user does, makes up for what was changed or cut short while the
\* session was away, and is shown as it stands, for any sources, tails and bounds
\* (LogsNotifier._sync, _open and _onStatus).
THEOREM LogRunsAsWanted == LogSpec => []RunsAsWanted
<1>1. LogInit => RunInv
  BY DEF LogInit, RunInv, RunsAsWanted, ViewOf, Reading
<1>2. RunInv => RunsAsWanted
  BY DEF RunInv
<1>. QED
  BY <1>1, <1>2, LogsRunStep, PTL DEF LogSpec

\* What the types say of the log and the buffer.
LEMMA LogsTypes ==
  ASSUME LogTypeOK
  PROVE  /\ Len(log) \in Nat /\ DOMAIN log = 1..Len(log) /\ Len(log) <= MaxLog
         /\ \A k \in 1..Len(log) : log[k].time \in 1..MaxTime /\ log[k].src \in Sources
         /\ Len(buf) \in Nat /\ DOMAIN buf = 1..Len(buf)
         /\ \A i \in 1..Len(buf) : buf[i] \in 1..MaxLog
         /\ buf = << >> <=> Len(buf) = 0
         /\ Shown \in 0..MaxLog
<1>1. log \in Seq([src : Sources, time : 1..MaxTime]) /\ buf \in Seq(1..MaxLog) /\ Len(log) <= MaxLog
  BY DEF LogTypeOK, Times, Lines
<1>2. Len(log) \in Nat /\ DOMAIN log = 1..Len(log)
  BY <1>1
<1>3. \A k \in 1..Len(log) : log[k] \in [src : Sources, time : 1..MaxTime]
  BY <1>1, ElementOfSeq
<1>4. Len(buf) \in Nat /\ DOMAIN buf = 1..Len(buf) /\ \A i \in 1..Len(buf) : buf[i] \in 1..MaxLog
  BY <1>1, ElementOfSeq, LenProperties
<1>5. buf = << >> <=> Len(buf) = 0
  BY <1>1
<1>6. Shown \in 0..MaxLog
  BY <1>4, <1>5, LogBoundAssumption DEF Shown
<1>. QED
  BY <1>1, <1>2, <1>3, <1>4, <1>5, <1>6

\* A stream opened at the cursor sends first the oldest of the lines at the cursor
\* that were taken.
LEMMA LogsFirstSent ==
  ASSUME LogTypeOK, OrderInv, ViewInv, CursorInv
  PROVE  /\ FirstSent(cursor, 0) \in 1..(Len(log) + 1)
         /\ FirstSent(cursor, 0) + atCursor = Shown + 1
         /\ FirstSent(0, 0) = 1
<1>. DEFINE older == {k \in DOMAIN log : log[k].time < cursor}
<1>1. /\ cursor \in Nat /\ atCursor \in Nat /\ MaxTime \in Nat /\ MaxLog \in Nat
      /\ Len(log) \in Nat /\ DOMAIN log = 1..Len(log) /\ Shown \in 0..Len(log)
      /\ \A k \in 1..Len(log) : log[k].time \in 1..MaxTime
  BY LogsTypes, LogBoundAssumption DEF LogTypeOK, ViewInv
<1>2. CASE cursor = 0
  BY <1>1, <1>2 DEF FirstSent, CursorInv, Shown
<1>3. CASE cursor # 0
  <2>1. /\ atCursor \in 1..Shown /\ cursor = log[Shown].time
        /\ \A k \in 1..Shown : log[k].time = cursor <=> k > Shown - atCursor
    BY <1>3 DEF CursorInv
  <2>2. \A i, j \in 1..Len(log) : i <= j => log[i].time <= log[j].time
    BY <1>1 DEF OrderInv
  <2>3. Shown \in 1..Len(log)
    BY <1>1, <2>1
  <2>4. \A k \in 1..Len(log) : log[k].time < cursor <=> k <= Shown - atCursor
    <3>. SUFFICES ASSUME NEW k \in 1..Len(log)
                  PROVE  log[k].time < cursor <=> k <= Shown - atCursor
      OBVIOUS
    <3>1. CASE k > Shown
      BY <3>1, <1>1, <2>1, <2>2, <2>3
    <3>2. CASE k <= Shown
      BY <3>2, <1>1, <2>1, <2>2, <2>3
    <3>. QED
      BY <3>1, <3>2, <1>1, <2>1
  <2>5. older = 1..(Shown - atCursor)
    BY <2>4, <2>1, <1>1
  <2>6. Cardinality(older) = Shown - atCursor
    <3>. HIDE DEF older
    <3>1. Cardinality(1..(Shown - atCursor)) = Shown - atCursor
      BY <1>1, <2>1, FS_Interval
    <3>. QED
      BY <3>1, <2>5
  <2>7. FirstSent(cursor, 0) = 1 + Cardinality(older)
    BY <1>3 DEF FirstSent
  <2>8. FirstSent(0, 0) = 1
    BY DEF FirstSent
  <2>. QED
    BY <2>6, <2>7, <2>8, <2>1, <2>3, <1>1
<1>. QED
  BY <1>2, <1>3, <1>1

\* A stream opened at the cursor brings the repeats and then what is missing.
LEMMA LogsOpenStep ==
  ASSUME WholeOfOne, LogTypeOK, OrderInv, ViewInv, CursorInv,
         NEW from, NEW seen, NEW follow \in BOOLEAN, NEW size, size = 0,
         Open(from, seen, follow, size),
         UNCHANGED <<log, tail>>,
         live' \in BOOLEAN, following' \in BOOLEAN, reloadOwed' \in BOOLEAN,
         cursor' = from, atCursor' = seen,
         \/ from = cursor /\ seen = atCursor /\ buf' = buf
         \/ from = 0 /\ seen = 0 /\ buf' = << >>
  PROVE  (LogTypeOK /\ OrderInv /\ ViewInv /\ CursorInv /\ StreamInv)'
<1>1. /\ MaxLog \in Nat /\ MaxTime \in Nat /\ MaxOpens \in Nat /\ Cap \in Nat
      /\ Len(log) \in Nat /\ Len(log) <= MaxLog /\ DOMAIN log = 1..Len(log)
      /\ Shown \in 0..Len(log) /\ atCursor \in 0..MaxLog /\ cursor \in 0..MaxTime
      /\ opened \in Nat
  BY LogsTypes, LogBoundAssumption, CapAssumption DEF ViewInv, LogTypeOK
<1>2. /\ next' = FirstSent(from, 0) /\ last' = IF follow THEN 0 ELSE Len(log)
      /\ partial' = [s \in Sources |-> 0] /\ floor' = from /\ repeats' = seen
      /\ stream' = "streaming" /\ view' = "streaming" /\ openFollows' = follow
      /\ opened < MaxOpens /\ opened' = opened + 1 /\ due' = FALSE
  BY DEF Open, Report, ViewOf
<1>5. /\ partial' \in [Sources -> 0..MaxLog] /\ last' \in 0..MaxLog /\ opened' \in 0..MaxOpens
      /\ \A n \in 1..(Len(log) + 1) : n \in 1..(MaxLog + 1)
      /\ << >> \in Seq(Lines) /\ Len(<< >>) <= Cap
  BY <1>1, <1>2
<1>3. CASE from = cursor /\ seen = atCursor /\ buf' = buf
  <2>1. /\ next' \in 1..(Len(log) + 1) /\ next' + atCursor = Shown + 1
    BY <1>2, <1>3, LogsFirstSent
  <2>2. LogTypeOK'
    BY <1>1, <1>2, <1>3, <1>5, <2>1 DEF LogTypeOK
  <2>3. (OrderInv /\ ViewInv)' /\ Shown' = Shown
    BY <1>3 DEF OrderInv, ViewInv, Shown
  <2>4. CursorInv'
    BY <1>1, <1>2, <1>3, <2>3 DEF CursorInv
  <2>5. Coming' = next'
    BY <1>2 DEF Coming
  <2>6. repeats' > 0 => floor' # 0 /\ \A k \in next'..Shown : log[k].time = floor'
    BY <1>1, <1>2, <1>3, <2>1 DEF CursorInv
  <2>7. StreamInv'
    BY <1>1, <1>2, <1>3, <2>1, <2>3, <2>5, <2>6 DEF StreamInv
  <2>. QED
    BY <2>2, <2>3, <2>4, <2>7
<1>4. CASE from = 0 /\ seen = 0 /\ buf' = << >>
  <2>1. next' = 1
    BY <1>2, <1>4, LogsFirstSent
  <2>2. LogTypeOK'
    <3>1. next' \in 1..(MaxLog + 1) /\ 0 \in 0..MaxTime /\ 0 \in 0..MaxLog
      BY <2>1, <1>1
    <3>2. buf' \in Seq(Lines) /\ Len(buf') <= Cap
      BY <1>4, <1>5
    <3>. QED
      BY <1>1, <1>2, <1>4, <1>5, <3>1, <3>2 DEF LogTypeOK
  <2>3. Shown' = 0
    BY <1>4 DEF Shown
  <2>4. (OrderInv /\ ViewInv /\ CursorInv)'
    BY <1>1, <1>2, <1>4, <2>3 DEF OrderInv, ViewInv, CursorInv
  <2>5. Coming' = next'
    BY <1>2 DEF Coming
  <2>6. StreamInv'
    BY <1>1, <1>2, <1>4, <2>1, <2>3, <2>5 DEF StreamInv
  <2>. QED
    BY <2>2, <2>4, <2>6
<1>. QED
  BY <1>3, <1>4

\* The line that comes next is a repeat, or it is the one the view lacks.
LEMMA LogsTakeStep ==
  ASSUME WholeOfOne, LogTypeOK, OrderInv, ViewInv, CursorInv, StreamInv,
         Reading, NEW k \in DOMAIN log, k = Coming, Take(k), log' = log
  PROVE  /\ (ViewInv /\ CursorInv)'
         /\ Shown' + 1 = k + 1 + repeats'
         /\ repeats' > 0 => floor' # 0 /\ \A j \in (k + 1)..Shown' : log[j].time = floor'
         /\ buf' \in Seq(Lines) /\ Len(buf') <= Cap
         /\ cursor' \in 0..MaxTime /\ atCursor' \in 0..MaxLog
         /\ floor' \in 0..MaxTime /\ repeats' \in 0..MaxLog
<1>1. /\ MaxLog \in Nat /\ MaxTime \in Nat /\ Cap \in Nat /\ Cap # 0
      /\ Len(log) \in Nat /\ Len(log) <= MaxLog /\ DOMAIN log = 1..Len(log)
      /\ Shown \in 0..Len(log) /\ atCursor \in 0..MaxLog /\ cursor \in 0..MaxTime
      /\ floor \in 0..MaxTime /\ repeats \in 0..MaxLog
      /\ buf \in Seq(1..MaxLog) /\ Len(buf) \in Nat /\ DOMAIN buf = 1..Len(buf) /\ Len(buf) <= Cap
      /\ \A j \in 1..Len(log) : log[j].time \in 1..MaxTime
      /\ buf = << >> <=> Len(buf) = 0
  BY LogsTypes, LogBoundAssumption, CapAssumption DEF ViewInv, LogTypeOK, Lines
<1>2. /\ k \in 1..Len(log) /\ k + repeats = Shown + 1
      /\ repeats > 0 => floor # 0 /\ \A j \in k..Shown : log[j].time = floor
  BY <1>1 DEF StreamInv, Reading
<1>3. \A i, j \in 1..Len(log) : i <= j => log[i].time <= log[j].time
  BY <1>1 DEF OrderInv
<1>4. Shown # 0 => cursor # 0 /\ Len(buf) # 0
  BY <1>1 DEF Shown, CursorInv
<1>5. CASE Repeat(k)
  <2>1. repeats > 0
    BY <1>1, <1>2, <1>3, <1>4, <1>5 DEF Repeat, CursorInv
  <2>2. /\ repeats' = repeats - 1 /\ UNCHANGED <<buf, cursor, atCursor, floor>>
    BY <1>1, <1>2, <1>5, <2>1 DEF Take
  <2>3. Shown' = Shown /\ ViewInv' /\ CursorInv'
    BY <2>2 DEF Shown, ViewInv, CursorInv
  <2>. QED
    BY <1>1, <1>2, <2>1, <2>2, <2>3 DEF Lines
<1>6. CASE ~Repeat(k)
  <2>. DEFINE all == Append(buf, k)
              from == IF Len(all) > Cap THEN Len(all) - Cap + 1 ELSE 1
  <2>1. /\ buf' = SubSeq(all, from, Len(all))
        /\ cursor' = IF log[k].time > cursor THEN log[k].time ELSE cursor
        /\ atCursor' = IF log[k].time > cursor THEN 1
                       ELSE IF log[k].time = cursor THEN atCursor + 1 ELSE atCursor
        /\ UNCHANGED <<floor, repeats>>
    BY <1>6 DEF Take
  <2>2. repeats = 0 /\ k = Shown + 1
    <3>1. repeats > 0 => k \in k..Shown
      BY <1>1, <1>2
    <3>. QED
      BY <3>1, <1>1, <1>2, <1>6 DEF Repeat
  <2>3. /\ all \in Seq(1..MaxLog) /\ Len(all) = Len(buf) + 1 /\ all[Len(all)] = k
        /\ \A i \in 1..Len(buf) : all[i] = buf[i]
    BY <1>1, <1>2, AppendProperties
  <2>4. \A i \in 1..Len(all) : all[i] \in 1..MaxLog /\ all[i] = k - Len(all) + i
    <3>1. \A i \in 1..Len(buf) : buf[i] = Shown - Len(buf) + i
      BY <1>1 DEF ViewInv
    <3>2. \A i \in 1..Len(all) : all[i] \in 1..MaxLog
      BY <2>3, ElementOfSeq
    <3>. HIDE DEF all
    <3>. SUFFICES ASSUME NEW i \in 1..Len(all) PROVE all[i] = k - Len(all) + i
      BY <3>2
    <3>3. CASE i = Len(all)
      BY <3>3, <2>2, <2>3, <1>1
    <3>4. CASE i \in 1..Len(buf)
      <4>1. all[i] = Shown - Len(buf) + i
        BY <3>1, <3>4, <2>3
      <4>. QED
        BY <4>1, <3>4, <2>2, <2>3, <1>1
    <3>. QED
      BY <3>3, <3>4, <2>3, <1>1
  <2>5. from \in 1..Len(all) /\ Len(all) \in Nat /\ Len(all) - from + 1 <= Cap
    <3>. HIDE DEF all
    <3>1. Len(all) \in Nat \ {0} /\ Cap \in Nat \ {0}
      BY <1>1, <2>3
    <3>2. from = IF Len(all) > Cap THEN Len(all) - Cap + 1 ELSE 1
      OBVIOUS
    <3>. HIDE DEF from
    <3>. QED
      BY ONLY <3>1, <3>2
  <2>6. /\ buf' \in Seq(1..MaxLog) /\ Len(buf') = Len(all) - from + 1
        /\ \A i \in 1..Len(buf') : buf'[i] = all[from + i - 1]
    <3>. HIDE DEF all, from
    <3>1. \A i \in from..Len(all) : all[i] \in 1..MaxLog
      BY <2>4, <2>5
    <3>2. /\ SubSeq(all, from, Len(all)) \in Seq(1..MaxLog)
          /\ Len(SubSeq(all, from, Len(all))) = IF from <= Len(all) THEN Len(all) - from + 1 ELSE 0
          /\ \A i \in 1..(Len(all) - from + 1) : SubSeq(all, from, Len(all))[i] = all[from + i - 1]
      BY <3>1, <2>5, SubSeqProperties
    <3>. QED
      BY <3>2, <2>1, <2>5
  <2>7. \A i \in 1..Len(buf') : buf'[i] = k - Len(buf') + i
    <3>. HIDE DEF all, from
    <3>. SUFFICES ASSUME NEW i \in 1..Len(buf') PROVE buf'[i] = k - Len(buf') + i
      OBVIOUS
    <3>1. from + i - 1 \in 1..Len(all) /\ i \in Int
      BY <2>5, <2>6
    <3>2. all[from + i - 1] = k - Len(all) + (from + i - 1)
      BY <2>4, <3>1
    <3>3. buf'[i] = all[from + i - 1] /\ Len(buf') = Len(all) - from + 1
      BY <2>6
    <3>4. /\ Len(all) \in Int /\ Len(buf') \in Int /\ from \in Int /\ i \in Int
          /\ k \in Int
      BY <3>1, <3>3, <2>5, <1>2, <1>1
    <3>5. k - Len(all) + (from + i - 1) = k - Len(buf') + i
      BY ONLY <3>3, <3>4
    <3>. QED
      BY ONLY <3>2, <3>3, <3>5
  <2>8. Len(buf') \in Nat \ {0} /\ DOMAIN buf' = 1..Len(buf') /\ buf' # << >>
    <3>. HIDE DEF all, from
    <3>. QED
      BY <2>5, <2>6, LenProperties, EmptySeq
  <2>9. Shown' = k
    BY <2>7, <2>8, <1>2, <1>1 DEF Shown
  <2>10. ViewInv'
    BY <2>7, <2>8, <2>9, <1>1, <1>2 DEF ViewInv
  <2>11. CursorInv'
    <3>1. /\ cursor' # 0 /\ cursor' = log[k].time /\ floor' <= cursor'
          /\ cursor' = cursor => Shown # 0 /\ atCursor' = atCursor + 1
          /\ cursor' # cursor => cursor < cursor' /\ atCursor' = 1
      <4>1. CASE Shown = 0
        <5>1. cursor = 0
          BY <4>1, <2>2, <1>1 DEF CursorInv, Shown
        <5>. QED
          BY <5>1, <2>1, <1>1, <1>2 DEF CursorInv
      <4>2. CASE Shown # 0
        <5>1. cursor = log[Shown].time /\ cursor <= log[k].time
          BY <4>2, <2>2, <1>1, <1>2, <1>3, <1>4 DEF CursorInv
        <5>2. floor <= cursor /\ log[k].time \in 1..MaxTime /\ log[k].time \in Int
          BY <1>1, <1>2 DEF CursorInv
        <5>3. CASE log[k].time > cursor
          <6>1. cursor' = log[k].time /\ atCursor' = 1 /\ floor' = floor
            BY <5>3, <2>1
          <6>2. floor \in Int /\ cursor \in Nat
            BY <1>1
          <6>. QED
            BY <5>2, <5>3, <6>1, <6>2
        <5>4. CASE log[k].time = cursor
          <6>1. cursor' = cursor /\ atCursor' = atCursor + 1 /\ floor' = floor
            BY <5>2, <5>4, <2>1
          <6>. QED
            BY <4>2, <5>2, <5>4, <6>1
        <5>. QED
          BY <5>1, <5>2, <5>3, <5>4, <1>1
      <4>. QED
        BY <4>1, <4>2
    <3>2. /\ atCursor' \in 1..k
          /\ \A j \in 1..k : log[j].time = cursor' <=> j > k - atCursor'
      <4>1. CASE cursor' = cursor
        <5>1. /\ atCursor \in 1..Shown /\ atCursor' = atCursor + 1
              /\ \A j \in 1..Shown : log[j].time = cursor <=> j > Shown - atCursor
          BY <4>1, <3>1, <1>4 DEF CursorInv
        <5>. QED
          BY <4>1, <5>1, <3>1, <2>2, <1>1, <1>2
      <4>2. CASE cursor' # cursor
        <5>1. \A j \in 1..Shown : log[j].time <= cursor
          BY <1>1, <1>3, <1>4 DEF CursorInv
        <5>. QED
          BY <4>2, <5>1, <3>1, <2>2, <1>1, <1>2
      <4>. QED
        BY <4>1, <4>2
    <3>. QED
      BY <3>1, <3>2, <2>8, <2>9 DEF CursorInv
  <2>12. cursor' \in 0..MaxTime /\ atCursor' \in 0..MaxLog
    BY <2>1, <2>9, <2>11, <1>1, <1>2 DEF CursorInv
  <2>13. buf' \in Seq(Lines) /\ Len(buf') <= Cap
    <3>. HIDE DEF all, from
    <3>. QED
      BY <2>5, <2>6 DEF Lines
  <2>. QED
    BY <2>1, <2>2, <2>9, <2>10, <2>11, <2>12, <2>13, <1>1, <1>2
<1>. QED
  BY <1>5, <1>6

\* A line that arrives, whole or in pieces, keeps the view and the stream together.
LEMMA LogsLineStep ==
  ASSUME WholeOfOne, LogIInv, RunInv',
         \/ Whole \/ Begin \/ \E s \in Sources : Rest(s)
  PROVE  LogIInv'
<1>1. PICK s0 : Sources = {s0}
  BY DEF WholeOfOne
<1>2. /\ LogTypeOK /\ OrderInv /\ ViewInv /\ CursorInv /\ StreamInv
      /\ Reading
  BY DEF LogIInv, Whole, Begin, Rest, ToSend
<1>3. /\ Len(log) \in Nat /\ DOMAIN log = 1..Len(log) /\ Len(log) <= MaxLog /\ MaxLog \in Nat
      /\ \A k \in 1..Len(log) : log[k].src = s0
      /\ next \in 1..(Len(log) + 1) /\ partial \in [Sources -> 0..MaxLog]
      /\ partial[s0] # 0 => partial[s0] = next - 1
      /\ Coming = IF partial[s0] # 0 THEN next - 1 ELSE next
  BY <1>1, <1>2, LogsTypes, LogBoundAssumption DEF LogTypeOK, StreamInv, Coming
<1>4. ASSUME NEW k \in DOMAIN log, k = Coming, Take(k), next' = k + 1,
             partial' \in [Sources -> 0..MaxLog], partial'[s0] = 0,
             UNCHANGED <<log, wishVars, openFollows, last, stream, view, opened, due>>
      PROVE  LogIInv'
  <2>1. /\ (ViewInv /\ CursorInv)' /\ Shown' + 1 = k + 1 + repeats'
        /\ repeats' > 0 => floor' # 0 /\ \A j \in (k + 1)..Shown' : log[j].time = floor'
        /\ buf' \in Seq(Lines) /\ Len(buf') <= Cap
        /\ cursor' \in 0..MaxTime /\ atCursor' \in 0..MaxLog
        /\ floor' \in 0..MaxTime /\ repeats' \in 0..MaxLog
    BY <1>2, <1>4, LogsTakeStep
  <2>2. k \in 1..Len(log) /\ next' \in 1..(MaxLog + 1) /\ next' <= Len(log) + 1
    BY <1>3, <1>4
  <2>3. LogTypeOK'
    BY <1>2, <1>4, <2>1, <2>2 DEF LogTypeOK, wishVars
  <2>4. OrderInv'
    BY <1>2, <1>4 DEF OrderInv
  <2>5. Coming' = k + 1
    BY <1>1, <1>4 DEF Coming
  <2>6. StreamInv'
    <3>1. Coming' + repeats' = Shown' + 1
      BY <2>1, <2>2, <2>5
    <3>. QED
      BY <1>1, <1>4, <2>1, <2>2, <2>5, <3>1 DEF StreamInv
  <2>. QED
    BY <2>1, <2>3, <2>4, <2>6 DEF LogIInv
<1>5. CASE Whole
  <2>1. /\ next \in DOMAIN log /\ partial[s0] = 0 /\ Take(next) /\ next' = next + 1
        /\ UNCHANGED <<log, wishVars, partial, openFollows, last, stream, view, opened, due>>
    BY <1>3, <1>5 DEF Whole, ToSend
  <2>. QED
    BY <1>3, <1>4, <2>1
<1>6. CASE Begin
  <2>1. /\ next \in DOMAIN log /\ partial[s0] = 0 /\ next' = next + 1
        /\ partial' = [partial EXCEPT ![s0] = next]
        /\ UNCHANGED <<log, buf, cursorVars, wishVars, openFollows, last, stream, view, opened, due>>
    <3>1. next \in DOMAIN log /\ log[next].src = s0
      BY <1>3, <1>6 DEF Begin, ToSend
    <3>. QED
      BY <1>6, <3>1 DEF Begin
  <2>2. partial'[s0] = next /\ next \in 1..MaxLog /\ next' \in 1..(MaxLog + 1)
        /\ partial' \in [Sources -> 0..MaxLog]
    BY <1>1, <1>3, <2>1
  <2>3. LogTypeOK'
    BY <1>2, <2>1, <2>2 DEF LogTypeOK, wishVars, cursorVars
  <2>4. /\ (OrderInv /\ ViewInv /\ CursorInv)'
        /\ Shown' = Shown
    BY <1>2, <2>1 DEF OrderInv, ViewInv, CursorInv, Shown, cursorVars
  <2>5. Coming' = Coming
    BY <1>1, <1>3, <2>1, <2>2 DEF Coming
  <2>6. StreamInv'
    BY <1>1, <1>2, <1>3, <2>1, <2>2, <2>4, <2>5 DEF StreamInv, Reading, cursorVars
  <2>. QED
    BY <2>3, <2>4, <2>6 DEF LogIInv
<1>7. CASE \E s \in Sources : Rest(s)
  <2>1. /\ partial[s0] # 0 /\ Take(partial[s0]) /\ next' = next
        /\ partial' = [partial EXCEPT ![s0] = 0]
        /\ UNCHANGED <<log, wishVars, openFollows, last, stream, view, opened, due>>
    BY <1>1, <1>7 DEF Rest
  <2>2. partial[s0] = next - 1 /\ next - 1 \in DOMAIN log
    BY <1>1, <1>3, <2>1
  <2>3. partial'[s0] = 0 /\ partial' \in [Sources -> 0..MaxLog]
    BY <1>1, <1>3, <2>1
  <2>. QED
    BY <1>3, <1>4, <2>1, <2>2, <2>3
<1>. QED
  BY <1>5, <1>6, <1>7

\* A line the container writes is no older than the last.
LEMMA LogsWriteStep ==
  ASSUME WholeOfOne, LogIInv, RunInv', NEW s \in Sources, NEW t \in Times, Write(s, t)
  PROVE  LogIInv'
<1>1. /\ LogTypeOK /\ OrderInv /\ ViewInv /\ CursorInv /\ StreamInv
  BY DEF LogIInv
<1>2. /\ MaxLog \in Nat /\ MaxTime \in Nat
      /\ Len(log) \in Nat /\ Len(log) < MaxLog /\ DOMAIN log = 1..Len(log)
      /\ log \in Seq([src : Sources, time : Times])
      /\ \A k \in 1..Len(log) : log[k].time \in 1..MaxTime
      /\ Shown \in 0..Len(log) /\ cursor \in 0..MaxTime /\ floor \in 0..MaxTime
      /\ Len(log) > 0 => t >= log[Len(log)].time
      /\ log' = Append(log, [src |-> s, time |-> t])
      /\ UNCHANGED <<buf, cursor, atCursor, floor, repeats, following, tail, live, reloadOwed,
                     partial, openFollows, next, last, stream, view, opened, due>>
  BY <1>1, LogsTypes, LogBoundAssumption DEF LogTypeOK, ViewInv, Write, Last, cursorVars, wishVars, streamVars
<1>3. /\ log' \in Seq([src : Sources, time : Times]) /\ Len(log') = Len(log) + 1
      /\ DOMAIN log' = 1..(Len(log) + 1)
      /\ log'[Len(log) + 1].time = t /\ t \in 1..MaxTime
      /\ \A k \in 1..Len(log) : log'[k] = log[k]
  BY <1>2, AppendProperties DEF Times
<1>4. LogTypeOK'
  BY <1>1, <1>2, <1>3 DEF LogTypeOK
<1>5. OrderInv'
  <2>1. \A i \in 1..Len(log) : log[i].time <= t
    <3>. SUFFICES ASSUME NEW i \in 1..Len(log) PROVE log[i].time <= t
      OBVIOUS
    <3>1. Len(log) \in 1..Len(log) /\ i <= Len(log) /\ Len(log) > 0
      BY <1>2
    <3>2. log[i].time <= log[Len(log)].time
      BY <1>1, <1>2, <3>1 DEF OrderInv
    <3>. QED
      BY <1>2, <1>3, <3>1, <3>2
  <2>. QED
    BY <1>1, <1>2, <1>3, <2>1 DEF OrderInv
<1>6. Shown' = Shown /\ Coming' = Coming
  BY <1>2 DEF Shown, Coming
<1>7. ViewInv' /\ CursorInv'
  BY <1>1, <1>2, <1>3, <1>6 DEF ViewInv, CursorInv
<1>8. StreamInv'
  <2>1. ASSUME Reading, repeats > 0
        PROVE  floor # 0 /\ \A k \in Coming..Shown : log'[k].time = floor
    <3>1. Coming \in Nat \ {0}
      BY <1>1, <2>1 DEF LogTypeOK, StreamInv, Coming
    <3>. QED
      BY <1>1, <1>2, <1>3, <2>1, <3>1 DEF StreamInv
  <2>2. \A r \in Sources : partial'[r] # 0 => partial'[r] = next' - 1
    BY <1>1, <1>2 DEF StreamInv
  <2>3. ASSUME Reading
        PROVE  next' <= Len(log') + 1 /\ Coming' + repeats' = Shown' + 1
    BY <1>1, <1>2, <1>3, <1>6, <2>3 DEF StreamInv, LogTypeOK
  <2>4. Reading' = Reading /\ repeats' = repeats /\ floor' = floor
    BY <1>2 DEF Reading
  <2>. QED
    BY <1>6, <2>1, <2>2, <2>3, <2>4 DEF StreamInv
<1>. QED
  BY <1>4, <1>5, <1>7, <1>8 DEF LogIInv

\* Sync leaves the stream as it is or opens it at the cursor.
LEMMA LogsSyncStep ==
  ASSUME WholeOfOne, LogIInv, RunInv', Sync,
         live' \in BOOLEAN, following' \in BOOLEAN,
         UNCHANGED <<log, buf, cursor, atCursor, tail>>
  PROVE  LogIInv'
<1>1. /\ LogTypeOK /\ OrderInv /\ ViewInv /\ CursorInv /\ StreamInv /\ tail = 0
  BY DEF LogIInv, WholeOfOne, LogTypeOK
<1>2. CASE Open(cursor, atCursor, following', tail) /\ reloadOwed' = FALSE
  BY <1>1, <1>2, LogsOpenStep DEF LogIInv
<1>3. ASSUME reloadOwed' \in BOOLEAN, due' \in BOOLEAN,
             UNCHANGED <<floor, repeats, partial, openFollows, next, last, opened>>,
             Reading' => Reading
      PROVE  LogIInv'
  <2>1. LogTypeOK'
    <3>1. view' \in {"streaming", "paused", "idle", "reconnecting", "error"}
      BY DEF RunInv, RunsAsWanted, ViewOf
    <3>2. stream' \in {"streaming", "paused", "retrying", "failed", "done"}
      BY DEF RunInv
    <3>. QED
      BY <1>1, <1>3, <3>1, <3>2 DEF LogTypeOK
  <2>2. (OrderInv /\ ViewInv /\ CursorInv)' /\ Shown' = Shown /\ Coming' = Coming
    BY <1>1, <1>3 DEF OrderInv, ViewInv, CursorInv, Shown, Coming
  <2>3. StreamInv'
    BY <1>1, <1>3, <2>2 DEF StreamInv
  <2>. QED
    BY <2>1, <2>2, <2>3 DEF LogIInv
<1>4. CASE live' /\ following'
  BY <1>1, <1>2, <1>3, <1>4 DEF Sync, Follow, streamVars, Reading, LogTypeOK
<1>5. CASE ~(live' /\ following') /\ live' /\ reloadOwed
  BY <1>2, <1>5 DEF Sync, MakeUp
<1>6. CASE ~(live' /\ following') /\ ~(live' /\ reloadOwed)
  <2>1. Halt
    BY <1>6 DEF Sync
  <2>2. /\ UNCHANGED <<floor, repeats, partial, openFollows, next, last, opened>>
        /\ Reading' => Reading
    BY <2>1 DEF Halt, streamVars, Reading, Report
  <2>3. reloadOwed' \in BOOLEAN /\ due' \in BOOLEAN
    BY <1>1, <2>1 DEF Halt, LogTypeOK
  <2>. QED
    BY <1>3, <2>2, <2>3
<1>. QED
  BY <1>4, <1>5, <1>6

\* Every step keeps the invariant.
LEMMA LogsStep ==
  ASSUME WholeOfOne, LogIInv, [LogNext]_logVars
  PROVE  LogIInv'
<1>1. /\ LogTypeOK /\ OrderInv /\ ViewInv /\ CursorInv /\ StreamInv /\ tail = 0
      /\ RunInv
  BY DEF LogIInv, WholeOfOne, LogTypeOK
<1>2. RunInv'
  BY <1>1, LogsRunStep
<1>3. ASSUME stream' \in {"streaming", "paused", "retrying", "failed", "done"},
             view' \in {"streaming", "paused", "idle", "reconnecting", "error"},
             UNCHANGED <<log, buf, cursorVars, wishVars, streamVars, opened, due>>,
             Reading' => Reading
      PROVE  LogIInv'
  <2>1. LogTypeOK'
    BY <1>1, <1>3 DEF LogTypeOK, cursorVars, wishVars, streamVars
  <2>2. (OrderInv /\ ViewInv /\ CursorInv)' /\ Shown' = Shown /\ Coming' = Coming
    BY <1>1, <1>3 DEF OrderInv, ViewInv, CursorInv, Shown, Coming, cursorVars, streamVars
  <2>3. StreamInv'
    BY <1>1, <1>3, <2>2 DEF StreamInv, cursorVars, streamVars
  <2>. QED
    BY <1>2, <2>1, <2>2, <2>3 DEF LogIInv
<1>4. CASE \E s \in Sources, t \in Times : Write(s, t)
  BY <1>2, <1>4, LogsWriteStep
<1>5. CASE Whole \/ Begin \/ \E s \in Sources : Rest(s)
  BY <1>2, <1>5, LogsLineStep
<1>6. CASE Lose
  BY <1>3, <1>6 DEF Lose, Report, ViewOf, Reading
<1>7. CASE Finish
  BY <1>3, <1>7 DEF Finish, Report, ViewOf, Reading
<1>8. CASE Reopen
  BY <1>1, <1>2, <1>8, LogsOpenStep DEF Reopen, wishVars, LogIInv, LogTypeOK
<1>9. CASE SetLive
  BY <1>1, <1>2, <1>9, LogsSyncStep DEF SetLive, LogTypeOK
<1>10. CASE SetFollowing
  BY <1>1, <1>2, <1>10, LogsSyncStep DEF SetFollowing, LogTypeOK
<1>11. CASE \E n \in Tails : SetTail(n)
  <2>1. PICK n \in Tails : SetTail(n)
    BY <1>11
  <2>2. /\ n = 0 /\ tail' = tail /\ buf' = << >> /\ cursor' = 0 /\ atCursor' = 0
        /\ UNCHANGED <<log, following, live>>
    BY <1>1, <2>1 DEF WholeOfOne, SetTail
  <2>3. CASE live
    BY <1>1, <1>2, <2>1, <2>2, <2>3, LogsOpenStep DEF SetTail, LogIInv, LogTypeOK
  <2>4. CASE ~live
    <3>1. /\ reloadOwed' = TRUE /\ floor' = 0 /\ repeats' = 0 /\ due' = TRUE
          /\ UNCHANGED <<partial, openFollows, next, last, stream, view, opened>>
      BY <2>1, <2>4 DEF SetTail, streamVars
    <3>2. ~Reading'
      BY <1>1, <2>4, <3>1 DEF Reading, RunInv, RunsAsWanted
    <3>3. MaxLog \in Nat /\ MaxTime \in Nat /\ Cap \in Nat /\ Shown' = 0 /\ Len(log) \in Nat
      BY <1>1, <2>2, LogsTypes, LogBoundAssumption, CapAssumption DEF Shown
    <3>4. buf' \in Seq(Lines) /\ Len(buf') <= Cap /\ DOMAIN buf' = {}
      BY <2>2, <3>3
    <3>5. LogTypeOK'
      BY <1>1, <2>2, <3>1, <3>3, <3>4 DEF LogTypeOK
    <3>6. (OrderInv /\ ViewInv /\ CursorInv)'
      BY <1>1, <2>2, <3>1, <3>3, <3>4 DEF OrderInv, ViewInv, CursorInv
    <3>7. StreamInv'
      BY <1>1, <3>1, <3>2 DEF StreamInv
    <3>. QED
      BY <1>2, <3>5, <3>6, <3>7 DEF LogIInv
  <2>. QED
    BY <2>3, <2>4, <1>1 DEF LogTypeOK
<1>12. CASE RetryLog
  BY <1>1, <1>2, <1>12, LogsOpenStep DEF RetryLog, wishVars, LogIInv, LogTypeOK
<1>13. CASE UNCHANGED logVars
  BY <1>1, <1>3, <1>13 DEF logVars, Reading, LogTypeOK
<1>. QED
  BY <1>4, <1>5, <1>6, <1>7, <1>8, <1>9, <1>10, <1>11, <1>12, <1>13 DEF LogNext

\* Seamless: for a container with one source whose whole log is shown, and for any
\* buffer, log and number of streams, no line is shown twice and none between two
\* that are shown is missing (LogsNotifier._toLine and _open: "no gap, no
\* duplicates"). With two sources the run logs_two_sources refutes it.
THEOREM LogIsSeamless == ASSUME WholeOfOne PROVE LogSpec => []Seamless
<1>1. LogInit => LogIInv
  <2>. SUFFICES ASSUME LogInit PROVE LogIInv
    OBVIOUS
  <2>1. /\ MaxLog \in Nat \ {0} /\ MaxTime \in Nat \ {0} /\ MaxOpens \in Nat \ {0} /\ Cap \in Nat
        /\ buf = << >> /\ cursor = 0 /\ atCursor = 0 /\ floor = 0 /\ repeats = 0
        /\ partial = [s \in Sources |-> 0] /\ next = 1 /\ last = 0 /\ opened = 1 /\ due = FALSE
        /\ following = TRUE /\ tail = 0 /\ live = TRUE /\ openFollows = TRUE /\ reloadOwed = FALSE
        /\ stream = "streaming" /\ view = "streaming"
    BY LogBoundAssumption, CapAssumption DEF LogInit
  <2>2. /\ log \in Seq([src : Sources, time : Times]) /\ Len(log) \in 0..1 /\ DOMAIN log = 1..Len(log)
    <3>1. ASSUME log = << >>
          PROVE  /\ log \in Seq([src : Sources, time : Times]) /\ Len(log) \in 0..1
                 /\ DOMAIN log = 1..Len(log)
      BY <3>1
    <3>2. ASSUME NEW s \in Sources, log = << [src |-> s, time |-> 1] >>
          PROVE  /\ log \in Seq([src : Sources, time : Times]) /\ Len(log) \in 0..1
                 /\ DOMAIN log = 1..Len(log)
      BY <2>1, <3>2 DEF Times
    <3>3. log = << >> \/ \E s \in Sources : log = << [src |-> s, time |-> 1] >>
      BY Zenon DEF LogInit
    <3>. QED
      BY <3>1, <3>2, <3>3, Zenon
  <2>3. buf \in Seq(Lines) /\ Len(buf) = 0 /\ DOMAIN buf = {}
    BY <2>1
  <2>4. LogTypeOK
    <3>1. /\ partial \in [Sources -> 0..MaxLog] /\ 0 \in Tails /\ Len(log) <= MaxLog /\ 0 <= Cap
          /\ 0 \in 0..MaxLog /\ 0 \in 0..MaxTime /\ 1 \in 1..(MaxLog + 1) /\ 1 \in 0..MaxOpens
      BY <2>1, <2>2 DEF WholeOfOne
    <3>. QED
      BY <2>1, <2>2, <2>3, <3>1 DEF LogTypeOK
  <2>5. RunInv
    BY <2>1 DEF RunInv, RunsAsWanted, ViewOf, Reading
  <2>6. Shown = 0 /\ Coming = 1
    BY <2>1 DEF Shown, Coming
  <2>7. OrderInv
    <3>. SUFFICES ASSUME NEW i \in DOMAIN log, NEW j \in DOMAIN log PROVE log[i].time <= log[j].time
      BY DEF OrderInv
    <3>1. i = j
      BY <2>2
    <3>2. log[i] \in [src : Sources, time : Times]
      BY <2>2, ElementOfSeq
    <3>. QED
      BY <2>1, <3>1, <3>2 DEF Times
  <2>8. ViewInv /\ CursorInv /\ StreamInv
    BY <2>1, <2>2, <2>3, <2>6 DEF ViewInv, CursorInv, StreamInv
  <2>. QED
    BY <2>4, <2>5, <2>7, <2>8 DEF LogIInv
<1>2. LogIInv /\ [LogNext]_logVars => LogIInv'
  BY LogsStep
<1>3. LogIInv => Seamless
  <2>. SUFFICES ASSUME LogIInv PROVE Seamless
    OBVIOUS
  <2>1. /\ Len(buf) \in Nat /\ DOMAIN buf = 1..Len(buf) /\ Shown \in Int
        /\ \A i \in 1..Len(buf) : buf[i] = Shown - Len(buf) + i
    <3>1. LogTypeOK /\ ViewInv
      BY DEF LogIInv
    <3>2. Len(buf) \in Nat /\ DOMAIN buf = 1..Len(buf) /\ Shown \in 0..MaxLog
      BY <3>1, LogsTypes
    <3>. QED
      BY <3>1, <3>2, LogBoundAssumption DEF ViewInv
  <2>2. ASSUME NEW i \in DOMAIN buf, NEW j \in DOMAIN buf, NEW k \in buf[i]..buf[j]
        PROVE  \E m \in DOMAIN buf : buf[m] = k
    <3>. DEFINE m == k - Shown + Len(buf)
    <3>1. m \in 1..Len(buf) /\ k \in Int /\ m \in Int
      BY <2>1
    <3>2. buf[m] = Shown - Len(buf) + m
      BY <2>1, <3>1
    <3>3. buf[m] = k
      BY <2>1, <3>1, <3>2
    <3>. QED
      BY <2>1, <3>1, <3>3
  <2>. QED
    BY <2>1, <2>2 DEF Seamless
<1>. QED
  BY <1>1, <1>2, <1>3, PTL DEF LogSpec
=============================================================================
