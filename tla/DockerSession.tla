--------------------------- MODULE DockerSession ---------------------------
(* The app's connection to one daemon (DockerSession): connecting, losing  *)
(* the events stream, reconnecting with a limit, and the background.       *)
(* Everything runs on one isolate, so an action is the code between two    *)
(* awaits. What waits is a job: a connect, a reconnect attempt or the ping *)
(* after a return to the foreground.                                       *)
EXTENDS Naturals, FiniteSets

CONSTANTS
  Profiles,     \* connection profiles
  Transports,   \* transports; one that was closed and is forgotten can stand for a new one
  Jobs,         \* async work that can be in flight at a time (bound)
  MaxAttempts,  \* ReconnectPolicy.maxAttempts
  MaxGen,       \* bound of the generation: connects and disconnects
  None

ASSUME MaxAttemptsAssumption == MaxAttempts \in Nat \ {0}
ASSUME MaxGenAssumption == MaxGen \in Nat
ASSUME NoneAssumption == None \notin Profiles \cup Transports \cup Nat

VARIABLES
  status, profile, transport, attempt, fg,  \* the fields of SessionState
  client,       \* the transport _client speaks over
  hub,          \* the transport whose events EventsHub reads
  unsettled,    \* _unsettled
  generation,   \* _generation
  attemptGen,   \* _attemptGeneration
  retryTimer, settleTimer,
  mounted,
  job,          \* the async work in flight
  open,         \* transports that are open
  builtFor,     \* the profile each transport was built for (ghost)
  wanted,       \* the profile of the last connect that was not undone (ghost)
  tries         \* attempts started since the count began again (ghost)

stateVars == <<status, profile, transport, attempt, fg>>
countVars == <<unsettled, generation, attemptGen>>
timerVars == <<retryTimer, settleTimer>>
vars == <<stateVars, client, hub, countVars, timerVars, mounted, job, open, builtFor, wanted,
          tries>>

Gens == 0..MaxGen
NoJob == [kind |-> "none", gen |-> 0, at |-> "none", on |-> None]
JobStates ==
  [kind : {"none", "connect", "attempt", "check"}, gen : Gens,
   at : {"none", "build", "probe", "pin", "failing", "ping"}, on : Transports \cup {None}]

\* The type of all of the state. The attempt shown never exceeds the limit
\* (livenessLost, _attemptReconnect).
TypeOK ==
  /\ status \in {"disconnected", "connecting", "connected", "reconnecting", "failed"}
  /\ profile \in Profiles \cup {None}
  /\ transport \in Transports \cup {None}
  /\ attempt \in 0..MaxAttempts
  /\ fg \in BOOLEAN
  /\ client \in Transports \cup {None}
  /\ hub \in Transports \cup {None}
  /\ unsettled \in 0..MaxAttempts
  /\ generation \in Gens
  /\ attemptGen \in Gens \cup {None}
  /\ retryTimer \in BOOLEAN /\ settleTimer \in BOOLEAN
  /\ mounted \in BOOLEAN
  /\ job \in [Jobs -> JobStates]
  /\ open \subseteq Transports
  /\ builtFor \in [Transports -> Profiles \cup {None}]
  /\ wanted \in Profiles \cup {None}
  /\ tries \in Nat

Init ==
  /\ status = "disconnected" /\ profile = None /\ transport = None /\ attempt = 0 /\ fg = TRUE
  /\ client = None /\ hub = None
  /\ unsettled = 0 /\ generation = 0 /\ attemptGen = None
  /\ retryTimer = FALSE /\ settleTimer = FALSE
  /\ mounted = TRUE
  /\ job = [j \in Jobs |-> NoJob]
  /\ open = {}
  /\ builtFor = [t \in Transports |-> None]
  /\ wanted = None
  /\ tries = 0

---------------------------------------------------------------------------
(* Helpers.                                                                *)

Current(gen) == mounted /\ gen = generation

Free(j) == job[j] = NoJob
End(j) == job' = [job EXCEPT ![j] = NoJob]

\* _stopActivity, without the timers' and the hub's own state.
StopActivity ==
  /\ retryTimer' = FALSE /\ settleTimer' = FALSE
  /\ unsettled' = 0
  /\ hub' = None
  /\ client' = None

\* _closeQuietly: the transport is closed, now or soon.
Close(t) == open' = open \ {t}

Begin(j, kind, on) ==
  /\ Free(j)
  /\ job' = [job EXCEPT ![j] = [kind |-> kind, gen |-> generation,
                                at |-> IF kind = "check" THEN "ping" ELSE "build", on |-> on]]

\* Mutant: an attempt left over from an older generation blocks one for this one.
MayAttemptNone(next, front) ==
  attemptGen = None /\ profile # None /\ next = "reconnecting" /\ front

\* The conditions of _attemptReconnect, with the status and the foreground flag
\* that were just set.
MayAttempt(next, front) ==
  attemptGen # generation /\ profile # None /\ next = "reconnecting" /\ front

\* _attemptReconnect up to its first await, or its early return; "before" counts
\* the attempts already made.
AttemptReconnect(next, front, before) ==
  /\ retryTimer' = FALSE
  /\ IF MayAttempt(next, front)
       THEN /\ attemptGen' = generation /\ (\E j \in Jobs : Begin(j, "attempt", None))
            /\ tries' = before + 1
       ELSE tries' = before /\ UNCHANGED <<attemptGen, job>>

\* livenessLost: the hub and the settle timer stop, and the limit decides
\* between giving up and another attempt, which waits for the foreground.
LivenessLost ==
  IF status # "connected" THEN UNCHANGED <<status, attempt, hub, retryTimer, settleTimer>>
  ELSE /\ hub' = None
       /\ settleTimer' = FALSE
       /\ IF unsettled >= MaxAttempts
            THEN status' = "failed" /\ UNCHANGED <<attempt, retryTimer>>
            ELSE /\ status' = "reconnecting" /\ attempt' = unsettled + 1
                 /\ retryTimer' = fg

---------------------------------------------------------------------------
(* The user.                                                               *)

\* connect up to its first await. The transport before is closed.
Connect(p, j) ==
  /\ mounted /\ status # "connecting"
  /\ Free(j) /\ generation < MaxGen
  /\ StopActivity
  /\ generation' = generation + 1
  /\ status' = "connecting" /\ profile' = p /\ transport' = None /\ attempt' = 0
  /\ Close(transport)
  /\ job' = [job EXCEPT ![j] = [kind |-> "connect", gen |-> generation + 1, at |-> "build", on |-> None]]
  /\ wanted' = p /\ tries' = 0
  /\ UNCHANGED <<fg, attemptGen, mounted, builtFor>>

Disconnect ==
  /\ mounted /\ generation < MaxGen
  /\ generation' = generation + 1
  /\ StopActivity
  /\ Close(transport)
  /\ status' = "disconnected" /\ profile' = None /\ transport' = None /\ attempt' = 0
  /\ wanted' = None /\ tries' = 0
  /\ UNCHANGED <<fg, attemptGen, mounted, job, builtFor>>

Retry ==
  /\ mounted /\ status = "failed"
  /\ unsettled' = 0
  /\ status' = "reconnecting" /\ attempt' = 1
  /\ AttemptReconnect("reconnecting", fg, 0)
  /\ UNCHANGED <<profile, transport, fg, client, hub, generation, settleTimer, mounted, open,
                 builtFor, wanted>>

\* The state is gone, and nobody reads it any more.
Dispose ==
  /\ mounted /\ generation < MaxGen
  /\ mounted' = FALSE
  /\ generation' = generation + 1
  /\ StopActivity
  /\ Close(transport)
  /\ transport' = None
  /\ wanted' = None /\ tries' = 0
  /\ UNCHANGED <<status, profile, attempt, fg, attemptGen, job, builtFor>>

---------------------------------------------------------------------------
(* The phone (_onLifecycle). The session listens from the first connect on.*)

ToBackground ==
  /\ mounted /\ generation > 0 /\ fg
  /\ fg' = FALSE
  /\ hub' = None
  /\ retryTimer' = FALSE
  /\ UNCHANGED <<status, profile, transport, attempt, client, countVars, settleTimer, mounted,
                 job, open, builtFor, wanted, tries>>

\* Mutant: a return to the foreground while connected checks nothing.
ReturnUnchecked ==
  /\ mounted /\ ~fg
  /\ fg' = TRUE
  /\ settleTimer' = FALSE
  /\ unsettled' = 0
  /\ IF status = "reconnecting" THEN AttemptReconnect(status, TRUE, 0)
                               ELSE tries' = 0 /\ UNCHANGED <<attemptGen, retryTimer, job>>
  /\ UNCHANGED <<status, profile, transport, attempt, client, hub, generation, mounted, open,
                 builtFor, wanted>>

\* A return to the foreground: while connected the daemon is pinged
\* (_checkAfterResume up to its await), while reconnecting it is tried at once.
Return ==
  /\ mounted /\ ~fg
  /\ fg' = TRUE
  /\ settleTimer' = FALSE
  /\ unsettled' = 0
  /\ CASE status = "connected" /\ client # None ->
            /\ \E j \in Jobs : Begin(j, "check", client)
            /\ tries' = 0
            /\ UNCHANGED <<attemptGen, retryTimer>>
       [] status = "reconnecting" -> AttemptReconnect(status, TRUE, 0)
       [] OTHER -> tries' = 0 /\ UNCHANGED <<attemptGen, retryTimer, job>>
  /\ UNCHANGED <<status, profile, transport, attempt, client, hub, generation, mounted, open,
                 builtFor, wanted>>

---------------------------------------------------------------------------
(* connect, from await to await. A job of an older generation closes what  *)
(* it has built and ends.                                                  *)

Is(j, kind, step) == job[j].kind = kind /\ job[j].at = step

\* A transport nobody holds any more: it stands for a new one.
Fresh(t) ==
  /\ t \notin open \cup {transport, client, hub}
  /\ \A j \in Jobs : job[j].on # t

\* Mutant: what an older connect has built is adopted all the same.
StaleAdopted(j) == FALSE

Stale(j) == ~Current(job[j].gen)

\* Mutant: what was built for a job that gives up stays open.
AbandonOpen(j) ==
  /\ UNCHANGED open
  /\ End(j)
  /\ attemptGen' = IF job[j].kind = "attempt" /\ attemptGen = job[j].gen THEN None ELSE attemptGen

\* A job gives up, and closes what it has built.
Abandon(j) ==
  /\ Close(job[j].on)
  /\ End(j)
  /\ attemptGen' = IF job[j].kind = "attempt" /\ attemptGen = job[j].gen THEN None ELSE attemptGen

\* The factory has built a transport: the next await is the probe.
Build(j, t) ==
  /\ job[j].at = "build" /\ Fresh(t)
  /\ IF Stale(j) \/ (job[j].kind = "attempt" /\ status # "reconnecting")
       THEN Abandon(j) /\ UNCHANGED builtFor
       ELSE /\ open' = open \cup {t}
            /\ job' = [job EXCEPT ![j].at = "probe", ![j].on = t]
            /\ builtFor' = [builtFor EXCEPT ![t] = profile]
            /\ UNCHANGED attemptGen
  /\ UNCHANGED <<stateVars, client, hub, unsettled, generation, timerVars, mounted, wanted, tries>>

\* The factory, the probe or storing the pin fails. A transport that was built
\* is closed, and only then the failure is looked at.
Break(j) ==
  /\ job[j].at \in {"build", "probe", "pin"}
  /\ Close(job[j].on)
  /\ job' = [job EXCEPT ![j].at = "failing", ![j].on = None]
  /\ UNCHANGED <<stateVars, client, hub, countVars, timerVars, mounted, builtFor, wanted, tries>>

\* The probe of a connect succeeds: the next await stores the pin.
Probed(j) ==
  /\ Is(j, "connect", "probe")
  /\ IF Stale(j) THEN Abandon(j)
     ELSE job' = [job EXCEPT ![j].at = "pin"] /\ UNCHANGED <<open, attemptGen>>
  /\ UNCHANGED <<stateVars, client, hub, unsettled, generation, timerVars, mounted, builtFor, wanted, tries>>

\* The pin is stored: the session is connected, and reads events unless it is in
\* the background.
GoLive(j) ==
  /\ Is(j, "connect", "pin")
  /\ IF Stale(j)
       THEN Abandon(j) /\ UNCHANGED <<stateVars, client, hub>>
       ELSE /\ client' = job[j].on /\ transport' = job[j].on
            /\ status' = "connected" /\ attempt' = 0
            /\ hub' = IF fg THEN job[j].on ELSE None
            /\ End(j)
            /\ UNCHANGED <<profile, fg, open, attemptGen>>
  /\ UNCHANGED <<unsettled, generation, timerVars, mounted, builtFor, wanted, tries>>

\* The failure of a connect is shown.
ConnectFails(j) ==
  /\ Is(j, "connect", "failing")
  /\ IF Stale(j) THEN UNCHANGED <<status, transport, attempt>>
     ELSE status' = "disconnected" /\ transport' = None /\ attempt' = 0
  /\ End(j)
  /\ UNCHANGED <<profile, fg, client, hub, countVars, timerVars, mounted, open, builtFor, wanted, tries>>

---------------------------------------------------------------------------
(* _attemptReconnect and _checkAfterResume, from await to await.           *)

\* Mutant: a reconnect counts as recovered at once.
AdoptSettled(j) ==
  /\ Is(j, "attempt", "probe")
  /\ ~Stale(j) /\ status = "reconnecting"
  /\ open' = open \ {transport}
  /\ client' = job[j].on /\ transport' = job[j].on
  /\ status' = "connected" /\ attempt' = 0
  /\ unsettled' = 0 /\ settleTimer' = FALSE
  /\ hub' = IF fg THEN job[j].on ELSE hub
  /\ End(j)
  /\ attemptGen' = IF attemptGen = job[j].gen THEN None ELSE attemptGen
  /\ UNCHANGED <<profile, fg, generation, retryTimer, mounted, builtFor, wanted, tries>>

\* The probe of an attempt succeeds: the session is on the new transport, and
\* the old one is closed. It has recovered when the settle timer says so.
Adopt(j) ==
  /\ Is(j, "attempt", "probe")
  /\ ~Stale(j) /\ status = "reconnecting"
  /\ open' = open \ {transport}
  /\ client' = job[j].on /\ transport' = job[j].on
  /\ status' = "connected" /\ attempt' = 0
  /\ unsettled' = attempt /\ settleTimer' = TRUE
  /\ hub' = IF fg THEN job[j].on ELSE hub
  /\ End(j)
  /\ attemptGen' = IF attemptGen = job[j].gen THEN None ELSE attemptGen
  /\ UNCHANGED <<profile, fg, generation, retryTimer, mounted, builtFor, wanted, tries>>

\* The probe of an attempt succeeds too late.
AdoptTooLate(j) ==
  /\ Is(j, "attempt", "probe")
  /\ Stale(j) \/ status # "reconnecting"
  /\ Abandon(j)
  /\ UNCHANGED <<stateVars, client, hub, unsettled, generation, timerVars, mounted, builtFor, wanted, tries>>

\* Mutant: a failed attempt is counted, and none is scheduled after it.
AttemptFailsIdle(j) ==
  /\ Is(j, "attempt", "failing")
  /\ IF Stale(j) \/ status # "reconnecting" THEN UNCHANGED <<status, attempt, retryTimer>>
     ELSE \E retryable \in BOOLEAN :
            IF ~retryable \/ attempt >= MaxAttempts
              THEN status' = "failed" /\ UNCHANGED <<attempt, retryTimer>>
              ELSE attempt' = attempt + 1 /\ UNCHANGED <<status, retryTimer>>
  /\ End(j)
  /\ attemptGen' = IF attemptGen = job[j].gen THEN None ELSE attemptGen
  /\ UNCHANGED <<profile, transport, fg, client, hub, unsettled, generation, settleTimer, mounted,
                 open, builtFor, wanted, tries>>

\* An attempt has failed. The session gives up when the failure cannot be
\* retried (a changed host key among them) or was the last one allowed.
AttemptFails(j) ==
  /\ Is(j, "attempt", "failing")
  /\ IF Stale(j) \/ status # "reconnecting" THEN UNCHANGED <<status, attempt, retryTimer>>
     ELSE \E retryable \in BOOLEAN :
            IF ~retryable \/ attempt >= MaxAttempts
              THEN status' = "failed" /\ UNCHANGED <<attempt, retryTimer>>
              ELSE attempt' = attempt + 1 /\ retryTimer' = fg /\ UNCHANGED status
  /\ End(j)
  /\ attemptGen' = IF attemptGen = job[j].gen THEN None ELSE attemptGen
  /\ UNCHANGED <<profile, transport, fg, client, hub, unsettled, generation, settleTimer, mounted,
                 open, builtFor, wanted, tries>>

\* Mutant: the answer about a client that has been replaced counts.
StillInUseByGeneration(j) == ~Stale(j)

\* The ping is about the connection in use.
StillInUse(j) == ~Stale(j) /\ job[j].on = client

\* The ping is answered: the events are read again.
CheckPasses(j) ==
  /\ Is(j, "check", "ping")
  /\ hub' = IF StillInUse(j) /\ status = "connected" /\ fg THEN client ELSE hub
  /\ End(j)
  /\ UNCHANGED <<stateVars, client, countVars, timerVars, mounted, open, builtFor, wanted, tries>>

\* The ping fails.
CheckFails(j) ==
  /\ Is(j, "check", "ping")
  /\ IF StillInUse(j) THEN LivenessLost
     ELSE UNCHANGED <<status, attempt, hub, retryTimer, settleTimer>>
  /\ End(j)
  /\ UNCHANGED <<profile, transport, fg, client, countVars, mounted, open, builtFor, wanted, tries>>

---------------------------------------------------------------------------
(* Timers and the events stream.                                           *)

RetryTimerFires ==
  /\ retryTimer
  /\ AttemptReconnect(status, fg, tries)
  /\ UNCHANGED <<stateVars, client, hub, unsettled, generation, settleTimer, mounted, open,
                 builtFor, wanted>>

\* The events stream has stayed up for the policy cap.
SettleTimerFires ==
  /\ settleTimer
  /\ settleTimer' = FALSE
  /\ unsettled' = 0 /\ tries' = 0
  /\ UNCHANGED <<stateVars, client, hub, generation, attemptGen, retryTimer, mounted, job, open,
                 builtFor, wanted>>

\* The events stream dies: the hub reports it once.
StreamLost ==
  /\ hub # None
  /\ LivenessLost
  /\ UNCHANGED <<profile, transport, fg, client, countVars, mounted, job, open, builtFor, wanted, tries>>

JobStep(j) ==
  \/ \E t \in Transports : Build(j, t)
  \/ Break(j) \/ Probed(j) \/ GoLive(j) \/ ConnectFails(j)
  \/ Adopt(j) \/ AdoptTooLate(j) \/ AttemptFails(j) \/ CheckPasses(j) \/ CheckFails(j)

Next ==
  \/ \E p \in Profiles, j \in Jobs : Connect(p, j)
  \/ \E j \in Jobs : JobStep(j)
  \/ Disconnect \/ Retry \/ Dispose \/ ToBackground \/ Return
  \/ RetryTimerFires \/ SettleTimerFires \/ StreamLost

Spec == Init /\ [][Next]_vars

\* Awaits end, if only by their timeouts, and timers fire.
Fairness == (\A j \in Jobs : WF_vars(JobStep(j))) /\ WF_vars(RetryTimerFires)

FairSpec == Spec /\ Fairness

---------------------------------------------------------------------------
(* Safety.                                                                 *)

InFlight == {j \in Jobs : job[j].kind # "none"}

\* Every open transport is the session's or is held by a job that will close it
\* or hand it over: none leaks, whatever overtakes what.
NoTransportLeaks ==
  open = ({transport} \cup {job[j].on : j \in {k \in InFlight : job[k].kind # "check"}}) \ {None}

\* What is connected is what was asked for last: no job of an older connect, and
\* none that was cancelled, ever puts its transport into the session. The client
\* and the events are those of that transport, and events are read in the
\* foreground only.
AsWanted ==
  /\ transport # None => /\ profile = wanted /\ wanted # None
                         /\ builtFor[transport] = wanted
                         /\ transport \in open
  /\ client # None => client = transport
  /\ mounted /\ status = "connected" => client = transport /\ transport # None
  /\ hub # None => hub = transport /\ status = "connected" /\ fg

CurrentAttempts == {j \in Jobs : job[j].kind = "attempt" /\ job[j].gen = generation}

\* A session in the foreground never waits for nothing: while reconnecting a
\* timer runs or one attempt is in flight (_attemptGeneration), and never more
\* than that; while connected the events are read or a ping will say whether
\* they can be; while connecting a connect is in flight.
AlwaysOnTheWay ==
  mounted =>
    /\ status = "reconnecting" /\ fg => retryTimer \/ CurrentAttempts # {}
    /\ Cardinality(CurrentAttempts) <= IF retryTimer THEN 0 ELSE 1
    /\ status = "connected" /\ fg =>
         \/ hub = transport
         \/ \E j \in Jobs : job[j].kind = "check" /\ StillInUse(j)
    /\ status = "connecting" => \E j \in Jobs : job[j].kind = "connect" /\ job[j].gen = generation

\* A connection that flaps is given up: between two moments that start the count
\* again (the user, a return to the foreground, a stream that stayed up) there
\* are no more attempts than the policy allows, however many of them connect.
LimitedTries == tries <= MaxAttempts

\* A step that ends the connection is about the session's own transport.
OwnLoss ==
  status = "connected" /\ status' \in {"reconnecting", "failed"} =>
    \/ hub = transport /\ job' = job
    \/ \E j \in Jobs : job[j].kind = "check" /\ job[j].on = transport /\ job'[j] = NoJob

\* A connection is given up for what happened to itself: its events stream, or
\* a ping over its own client, and never the answer to an older ping.
LostForItsOwnReason == [][OwnLoss]_vars

---------------------------------------------------------------------------
(* The inductive invariant behind the safety properties.                   *)

\* What a job is waiting for says whether it holds a transport.
JobInv ==
  \A j \in Jobs :
    /\ job[j].kind = "none" <=> job[j] = NoJob
    /\ job[j].gen <= generation
    /\ job[j].kind = "check" => job[j].at = "ping"
    /\ job[j].kind \in {"connect", "attempt"} => job[j].at \in {"build", "probe", "pin", "failing"}
    /\ job[j].at \in {"build", "failing"} => job[j].on = None
    /\ job[j].at \in {"probe", "pin"} => job[j].on # None

Holds(j) == job[j].kind \in {"connect", "attempt"} /\ job[j].on # None

\* The session and every job hold a transport of their own, and all are open.
HeldInv ==
  /\ transport # None => transport \in open
  /\ \A j \in Jobs : Holds(j) =>
       /\ job[j].on \in open /\ job[j].on # transport
       /\ \A k \in Jobs : Holds(k) /\ job[k].on = job[j].on => k = j
  /\ \A t \in open : t = transport \/ \E j \in Jobs : Holds(j) /\ job[j].on = t

\* What a job of the current generation has built is for the profile wanted now.
WantedInv ==
  /\ mounted /\ status # "disconnected" => profile = wanted /\ wanted # None
  /\ transport # None => mounted /\ builtFor[transport] = wanted
  /\ client = transport
  /\ transport # None <=> mounted /\ status \in {"connected", "reconnecting", "failed"}
  /\ hub # None => hub = transport /\ status = "connected" /\ fg
  /\ \A j \in Jobs : Holds(j) /\ ~Stale(j) => builtFor[job[j].on] = wanted
  /\ \A j \in Jobs : job[j].kind = "connect" /\ ~Stale(j) =>
       /\ status = "connecting"
       /\ \A k \in Jobs : job[k].kind = "connect" /\ ~Stale(k) => k = j

\* At most one thing brings a reconnecting session further, and attemptGen says
\* whether it is an attempt.
WayInv ==
  mounted =>
    /\ status = "reconnecting" /\ fg => retryTimer \/ CurrentAttempts # {}
    /\ retryTimer => status = "reconnecting" /\ fg /\ CurrentAttempts = {}
    /\ CurrentAttempts # {} => status = "reconnecting"
    /\ attemptGen = generation <=> CurrentAttempts # {}
    /\ \A j, k \in CurrentAttempts : j = k
    /\ attemptGen # None => attemptGen <= generation
    /\ status = "connected" /\ fg =>
         \/ hub = transport
         \/ \E j \in Jobs : job[j].kind = "check" /\ StillInUse(j)
    /\ status = "connecting" => \E j \in Jobs : job[j].kind = "connect" /\ job[j].gen = generation

\* The attempt shown is never behind the attempts that were made.
TriesInv ==
  /\ tries <= MaxAttempts
  /\ status = "connected" => tries <= unsettled
  /\ status = "connecting" => tries = 0 /\ unsettled = 0
  /\ status = "reconnecting" => tries <= attempt /\ attempt > 0
  /\ retryTimer => mounted /\ status = "reconnecting" /\ tries < attempt

IInv == TypeOK /\ JobInv /\ HeldInv /\ WantedInv /\ WayInv /\ TriesInv

---------------------------------------------------------------------------
(* Liveness.                                                               *)

\* A connect ends, and so does reconnecting in the foreground, connected or
\* failed: nobody looks at a spinner for ever.
AttemptsEnd ==
  /\ status = "connecting" ~> (status # "connecting" \/ ~mounted)
  /\ (status = "reconnecting" /\ fg) ~> (status # "reconnecting" \/ ~fg \/ ~mounted)

\* A connected session in the foreground reads events again, or learns that it
\* has lost the daemon.
SignalReturns == (status = "connected" /\ fg) ~> (hub # None \/ status # "connected" \/ ~fg \/ ~mounted)
=============================================================================
