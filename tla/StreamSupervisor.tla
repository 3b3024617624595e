-------------------------- MODULE StreamSupervisor --------------------------
(* Keeping one long-lived stream alive (StreamSupervisor): reopening it    *)
(* with a limit, pause, resume, retry and dispose. Every status is         *)
(* reported by a synchronous call, and what is called may pause, retry or  *)
(* dispose before it returns: "calls" is the stack of such reports, each   *)
(* with what _connect or _handleError goes on to do afterwards.            *)
EXTENDS Naturals, Sequences, SequencesExt

CONSTANTS
  MaxAttempts,   \* ReconnectPolicy.maxAttempts
  RetryOnDone,   \* retryOnDone
  MaxGen,        \* bound of the generation
  MaxDepth       \* bound of reports made within reports

ASSUME MaxAttemptsAssumption == MaxAttempts \in Nat
ASSUME RetryOnDoneAssumption == RetryOnDone \in BOOLEAN
ASSUME BoundAssumption == MaxGen \in Nat /\ MaxDepth \in Nat \ {0}

VARIABLES
  status, attempt, generation, resumable, disposed,
  sub, timer, stable,  \* the generation of the subscription and of each timer, 0 for null
  sources,   \* generations whose source is still subscribed (ghost)
  timers,    \* generations whose retry timer is still armed (ghost)
  opens,     \* streams opened since the count began again (ghost)
  calls

flagVars == <<resumable, disposed>>
heldVars == <<sub, timer, stable, sources, timers>>
vars == <<status, attempt, generation, flagVars, heldVars, opens, calls>>

Gens == 0..MaxGen
Frame == [then : {"listen", "arm", "end"}, gen : Gens]

\* The type of all of the state. Between two moments that start the count again
\* (a call of the owner, data, a stream that held) the stream is opened once and
\* then as often as the policy allows.
TypeOK ==
  /\ status \in {"idle", "streaming", "paused", "retrying", "failed", "done"}
  /\ attempt \in 0..(MaxAttempts + 1)
  /\ generation \in Gens
  /\ resumable \in BOOLEAN /\ disposed \in BOOLEAN
  /\ sub \in Gens /\ timer \in Gens /\ stable \in Gens
  /\ sources \subseteq Gens /\ timers \subseteq Gens
  /\ opens \in 0..(MaxAttempts + 1)
  /\ calls \in Seq(Frame) /\ Len(calls) <= MaxDepth

Init ==
  /\ status = "idle" /\ attempt = 0 /\ generation = 0
  /\ resumable = FALSE /\ disposed = FALSE
  /\ sub = 0 /\ timer = 0 /\ stable = 0
  /\ sources = {} /\ timers = {}
  /\ opens = 0
  /\ calls = << >>

---------------------------------------------------------------------------
(* Helpers.                                                                *)

\* The caller is not inside a report, or is what the innermost report called.
MayCall == Len(calls) < MaxDepth

\* Room for a whole count of attempts below the bound of the generation.
Room == generation + MaxAttempts + 2 <= MaxGen

\* Mutant: the retry timer is forgotten and not cancelled.
CancelKeepsTimer ==
  /\ generation' = generation + 1
  /\ timer' = 0 /\ UNCHANGED timers
  /\ stable' = 0
  /\ sub' = 0 /\ sources' = sources \ {sub}

\* _cancel.
Cancel ==
  /\ generation' = generation + 1
  /\ timer' = 0 /\ timers' = timers \ {timer}
  /\ stable' = 0
  /\ sub' = 0 /\ sources' = sources \ {sub}

\* _set: the status is reported, and "then" is what follows the report.
Set(s, then) ==
  /\ status' = s
  /\ calls' = Append(calls, [then |-> then, gen |-> generation'])

\* _handleError after "before" failures.
HandleError(before) ==
  /\ attempt' = before + 1
  /\ \E retryable \in BOOLEAN :
       IF ~retryable \/ before + 1 > MaxAttempts THEN Set("failed", "end") ELSE Set("retrying", "arm")

\* _connect after "before" failures and "count" opened streams; opening may fail.
Connect(before, count) ==
  /\ MayCall
  /\ Cancel
  /\ opens' = count + 1
  /\ \/ Set("streaming", "listen") /\ attempt' = before
     \/ HandleError(before)

---------------------------------------------------------------------------
(* The owner's calls.                                                      *)

Start ==
  /\ status = "idle" /\ generation = 0 /\ Room
  /\ Connect(0, 0)
  /\ UNCHANGED flagVars

Pause ==
  /\ ~disposed /\ MayCall /\ Room
  /\ status \in {"streaming", "retrying"}
  /\ Cancel
  /\ resumable' = TRUE
  /\ Set("paused", "end")
  /\ UNCHANGED <<attempt, disposed, opens>>

Resume ==
  /\ ~disposed /\ status = "paused" /\ resumable /\ Room
  /\ resumable' = FALSE
  /\ Connect(0, 0)
  /\ UNCHANGED disposed

Retry ==
  /\ ~disposed /\ generation > 0 /\ Room
  /\ resumable' = FALSE
  /\ Connect(0, 0)
  /\ UNCHANGED disposed

Dispose ==
  /\ ~disposed /\ generation \in 1..(MaxGen - 1)
  /\ disposed' = TRUE
  /\ Cancel
  /\ UNCHANGED <<status, attempt, resumable, opens, calls>>

---------------------------------------------------------------------------
(* A report returns, and _connect or _handleError goes on.                 *)

\* Mutant: what the report has led to is not looked at.
StillMineAlways(frame) == TRUE

StillMine(frame) == frame.gen = generation /\ ~disposed

\* The stream is listened to, and the time for which it must hold starts.
Listen(frame) ==
  IF frame.then = "listen" /\ StillMine(frame)
    THEN /\ sub' = frame.gen /\ sources' = sources \cup {frame.gen}
         /\ stable' = frame.gen
    ELSE UNCHANGED <<sub, sources, stable>>

\* Mutant: no other attempt is scheduled.
ArmNever(frame) == UNCHANGED <<timer, timers>>

\* The timer of the next attempt is started.
Arm(frame) ==
  IF frame.then = "arm" /\ StillMine(frame)
    THEN timer' = frame.gen /\ timers' = timers \cup {frame.gen}
    ELSE UNCHANGED <<timer, timers>>

Return ==
  /\ calls # << >>
  /\ Listen(Last(calls)) /\ Arm(Last(calls))
  /\ calls' = Front(calls)
  /\ UNCHANGED <<status, attempt, generation, flagVars, opens>>

---------------------------------------------------------------------------
(* The source and the timers, whenever no report is being made.            *)

\* A piece of data: it is handed over by a call as well.
Data(g) ==
  /\ calls = << >> /\ g \in sources /\ g = generation /\ Room
  /\ attempt' = 0 /\ opens' = 0
  /\ calls' = << [then |-> "end", gen |-> generation] >>
  /\ UNCHANGED <<status, generation, flagVars, heldVars>>

\* The source is gone, by itself.
Gone(g) ==
  /\ sources' = sources \ {g}
  /\ sub' = 0 /\ stable' = 0
  /\ UNCHANGED <<generation, timer, timers, flagVars, opens>>

SourceFails(g) ==
  /\ calls = << >> /\ g \in sources /\ g = generation
  /\ Gone(g)
  /\ HandleError(attempt)

\* Mutant: the end of a stream is not reported.
SourceEndsUnsaid(g) ==
  /\ calls = << >> /\ g \in sources /\ g = generation
  /\ Gone(g)
  /\ IF RetryOnDone THEN HandleError(attempt) ELSE UNCHANGED <<status, attempt, calls>>

SourceEnds(g) ==
  /\ calls = << >> /\ g \in sources /\ g = generation
  /\ Gone(g)
  /\ IF RetryOnDone THEN HandleError(attempt) ELSE Set("done", "end") /\ UNCHANGED attempt

\* The backoff of an attempt is over.
RetryTimerFires(g) ==
  /\ calls = << >> /\ g \in timers /\ g = generation
  /\ Connect(attempt, opens)
  /\ UNCHANGED flagVars

\* The stream has stayed open for the policy cap.
StableTimerFires ==
  /\ calls = << >> /\ stable # 0 /\ stable = generation /\ Room
  /\ stable' = 0
  /\ attempt' = 0 /\ opens' = 0
  /\ UNCHANGED <<status, generation, flagVars, sub, timer, sources, timers, calls>>

Next ==
  \/ Start \/ Pause \/ Resume \/ Retry \/ Dispose \/ Return
  \/ \E g \in sources : Data(g) \/ SourceFails(g) \/ SourceEnds(g)
  \/ \E g \in timers : RetryTimerFires(g)
  \/ StableTimerFires

Spec == Init /\ [][Next]_vars

\* Reports return, and a timer that is armed fires.
FairSpec == Spec /\ WF_vars(Return) /\ WF_vars(\E g \in timers : RetryTimerFires(g))

---------------------------------------------------------------------------
(* Properties.                                                             *)

\* What is subscribed or armed is what the supervisor holds, and nothing of it
\* outlives a pause or dispose: no report that pauses, retries or disposes in the
\* middle of _connect or _handleError leaves a source or a timer behind.
NothingLeaks ==
  /\ sources = {sub} \ {0} /\ timers = {timer} \ {0}
  /\ sub = 0 \/ timer = 0
  /\ disposed \/ status \in {"paused", "failed", "done"} => sub = 0 /\ timer = 0

\* Once no report is being made, what was reported last is the truth: streaming
\* means a source is read, retrying that a timer will reopen it.
ReportedIsTrue ==
  calls = << >> /\ ~disposed =>
    /\ (status = "streaming") = (sub # 0)
    /\ (status = "retrying") = (timer # 0)

\* The screen's view of it.
Abstract == INSTANCE LongStream WITH reading <- sub # 0
IsLongStream == Abstract!Spec

\* Retrying ends: the stream is open again, or the supervisor has given up or was
\* stopped.
RetryingEnds == status = "retrying" ~> status # "retrying" \/ disposed

---------------------------------------------------------------------------
(* The inductive invariant behind NothingLeaks, ReportedIsTrue and         *)
(* IsLongStream.                                                           *)

\* The types without the bounds of the model, which no proof needs.
Types ==
  /\ generation \in Nat /\ attempt \in Nat
  /\ disposed \in BOOLEAN
  /\ sub \in Nat /\ timer \in Nat /\ stable \in Nat
  /\ sources \subseteq Nat /\ timers \subseteq Nat
  /\ calls \in Seq([then : {"listen", "arm", "end"}, gen : Nat])

\* What is held is of this generation, and goes with the status.
HeldInv ==
  /\ generation = 0 => ~disposed
  /\ sources = {sub} \ {0} /\ timers = {timer} \ {0}
  /\ sub # 0 => sub = generation /\ status = "streaming" /\ ~disposed
  /\ timer # 0 => timer = generation /\ status = "retrying" /\ ~disposed

\* Reports are about ever newer generations, so that only the innermost can be
\* about this one; while it is being made nothing is held.
CallsInv ==
  /\ \A i \in 1..Len(calls) : calls[i].gen > 0 /\ calls[i].gen <= generation
  /\ \A i, j \in 1..Len(calls) : i < j => calls[i].gen < calls[j].gen
  /\ \A i \in 1..Len(calls) : calls[i].gen = generation /\ ~disposed =>
       /\ calls[i].then = "listen" => status = "streaming" /\ sub = 0 /\ timer = 0
       /\ calls[i].then = "arm" => status = "retrying" /\ sub = 0 /\ timer = 0

\* Streaming and retrying are true, or will be when the report returns.
TruthInv ==
  ~disposed =>
    /\ status = "streaming" => sub # 0 \/ \E i \in 1..Len(calls) :
         calls[i].then = "listen" /\ calls[i].gen = generation
    /\ status = "retrying" => timer # 0 \/ \E i \in 1..Len(calls) :
         calls[i].then = "arm" /\ calls[i].gen = generation

IInv == Types /\ HeldInv /\ CallsInv /\ TruthInv
=============================================================================
