------------------------ MODULE DockerSessionProofs -------------------------
(* What the app's session promises, for any number of profiles, transports,  *)
(* jobs in flight, attempts and generations.                                  *)
EXTENDS DockerSession, FiniteSetTheorems, TLAPS

\* Every step keeps every variable in its type.
LEMMA TypeStep ==
  ASSUME TypeOK, JobInv, TriesInv, [Next]_vars
  PROVE  TypeOK'
<1>. USE NoneAssumption, MaxAttemptsAssumption, MaxGenAssumption DEF TypeOK, stateVars,
    countVars, timerVars
<1>1. ASSUME NEW p \in Profiles, NEW j \in Jobs, Connect(p, j) PROVE TypeOK'
  <2>1. generation' \in Gens /\ attemptGen' \in Gens \cup {None}
    BY <1>1 DEF Connect, StopActivity, Close, Free, Gens
  <2>2. job' \in [Jobs -> JobStates]
    BY <1>1, <2>1 DEF Connect, StopActivity, Close, Free, JobStates, NoJob
  <2>3. attempt' \in 0..MaxAttempts /\ unsettled' \in 0..MaxAttempts
    BY <1>1 DEF Connect, StopActivity, Close, Free
  <2>4. tries' \in Nat
    BY <1>1 DEF Connect, StopActivity, Close, Free
  <2>. QED
    BY <1>1, <2>1, <2>2, <2>3, <2>4 DEF Connect, StopActivity, Close, Free
<1>2. CASE Disconnect
  <2>1. generation' \in Gens /\ attemptGen' \in Gens \cup {None}
    BY <1>2 DEF Disconnect, StopActivity, Close, Gens
  <2>2. job' \in [Jobs -> JobStates]
    BY <1>2, <2>1 DEF Disconnect, StopActivity, Close, JobStates, NoJob
  <2>3. attempt' \in 0..MaxAttempts /\ unsettled' \in 0..MaxAttempts
    BY <1>2 DEF Disconnect, StopActivity, Close
  <2>4. tries' \in Nat
    BY <1>2 DEF Disconnect, StopActivity, Close
  <2>. QED
    BY <1>2, <2>1, <2>2, <2>3, <2>4 DEF Disconnect, StopActivity, Close
<1>3. CASE Retry
  <2>1. generation' \in Gens /\ attemptGen' \in Gens \cup {None}
    BY <1>3 DEF Retry, AttemptReconnect, MayAttempt, Begin, Free, Gens
  <2>2. job' \in [Jobs -> JobStates]
    BY <1>3, <2>1 DEF Retry, AttemptReconnect, MayAttempt, Begin, Free, JobStates, NoJob
  <2>3. attempt' \in 0..MaxAttempts /\ unsettled' \in 0..MaxAttempts
    BY <1>3 DEF Retry, AttemptReconnect, MayAttempt, Begin, Free
  <2>4. tries' \in Nat
    BY <1>3 DEF Retry, AttemptReconnect, MayAttempt, Begin, Free
  <2>. QED
    BY <1>3, <2>1, <2>2, <2>3, <2>4 DEF Retry, AttemptReconnect, MayAttempt, Begin, Free
<1>4. CASE Dispose
  <2>1. generation' \in Gens /\ attemptGen' \in Gens \cup {None}
    BY <1>4 DEF Dispose, StopActivity, Close, Gens
  <2>2. job' \in [Jobs -> JobStates]
    BY <1>4, <2>1 DEF Dispose, StopActivity, Close, JobStates, NoJob
  <2>3. attempt' \in 0..MaxAttempts /\ unsettled' \in 0..MaxAttempts
    BY <1>4 DEF Dispose, StopActivity, Close
  <2>4. tries' \in Nat
    BY <1>4 DEF Dispose, StopActivity, Close
  <2>. QED
    BY <1>4, <2>1, <2>2, <2>3, <2>4 DEF Dispose, StopActivity, Close
<1>5. CASE ToBackground
  BY <1>5 DEF ToBackground, JobStates, Gens, NoJob, TriesInv, JobInv
<1>6. CASE Return
  <2>1. generation' \in Gens /\ attemptGen' \in Gens \cup {None}
    BY <1>6 DEF Return, AttemptReconnect, MayAttempt, Begin, Free, Gens
  <2>2. job' \in [Jobs -> JobStates]
    BY <1>6, <2>1 DEF Return, AttemptReconnect, MayAttempt, Begin, Free, JobStates,
        NoJob
  <2>3. attempt' \in 0..MaxAttempts /\ unsettled' \in 0..MaxAttempts
    BY <1>6 DEF Return, AttemptReconnect, MayAttempt, Begin, Free
  <2>4. tries' \in Nat
    BY <1>6 DEF Return, AttemptReconnect, MayAttempt, Begin, Free
  <2>. QED
    BY <1>6, <2>1, <2>2, <2>3, <2>4 DEF Return, AttemptReconnect, MayAttempt, Begin,
        Free
<1>7. ASSUME NEW j \in Jobs, NEW t \in Transports, Build(j, t) PROVE TypeOK'
  <2>1. /\ UNCHANGED <<stateVars, client, hub, unsettled, generation, timerVars, mounted, wanted, tries>>
        /\ \/ /\ open' = open \ {job[j].on} /\ job' = [job EXCEPT ![j] = NoJob]
              /\ attemptGen' \in {None, attemptGen} /\ builtFor' = builtFor
           \/ /\ open' = open \cup {t} /\ job' = [job EXCEPT ![j].at = "probe", ![j].on = t]
              /\ attemptGen' = attemptGen /\ builtFor' = [builtFor EXCEPT ![t] = profile]
    BY <1>7 DEF Build, Abandon, Close, End
  <2>2. job' \in [Jobs -> JobStates]
    <3>1. NoJob \in JobStates
      BY DEF NoJob, JobStates, Gens
    <3>2. [[job[j] EXCEPT !.at = "probe"] EXCEPT !.on = t] \in JobStates
      BY DEF JobStates
    <3>3. \E new \in JobStates : job' = [job EXCEPT ![j] = new]
      BY <2>1, <3>1, <3>2
    <3>. QED
      BY <3>3
  <2>. QED
    BY <2>1, <2>2
<1>8. ASSUME NEW j \in Jobs, Break(j) PROVE TypeOK'
  <2>1. generation' \in Gens /\ attemptGen' \in Gens \cup {None}
    BY <1>8 DEF Break, Close, Gens
  <2>2. job' \in [Jobs -> JobStates]
    <3>1. [[job[j] EXCEPT !.at = "failing"] EXCEPT !.on = None] \in JobStates
      BY DEF JobStates
    <3>2. \E new \in JobStates : job' = [job EXCEPT ![j] = new]
      BY <1>8, <3>1 DEF Break
    <3>. QED
      BY <3>2
  <2>3. attempt' \in 0..MaxAttempts /\ unsettled' \in 0..MaxAttempts
    BY <1>8 DEF Break, Close
  <2>4. tries' \in Nat
    BY <1>8 DEF Break, Close
  <2>. QED
    BY <1>8, <2>1, <2>2, <2>3, <2>4 DEF Break, Close
<1>9. ASSUME NEW j \in Jobs, Probed(j) PROVE TypeOK'
  BY <1>9 DEF Probed, Is, Abandon, Close, End, JobStates, Gens, NoJob, TriesInv, JobInv
<1>10. ASSUME NEW j \in Jobs, GoLive(j) PROVE TypeOK'
  BY <1>10 DEF GoLive, Is, Abandon, Close, End, JobStates, Gens, NoJob, TriesInv, JobInv
<1>11. ASSUME NEW j \in Jobs, ConnectFails(j) PROVE TypeOK'
  BY <1>11 DEF ConnectFails, Is, End, JobStates, Gens, NoJob, TriesInv, JobInv
<1>12. ASSUME NEW j \in Jobs, Adopt(j) PROVE TypeOK'
  BY <1>12 DEF Adopt, Is, End, JobStates, Gens, NoJob, TriesInv, JobInv
<1>13. ASSUME NEW j \in Jobs, AdoptTooLate(j) PROVE TypeOK'
  BY <1>13 DEF AdoptTooLate, Is, Abandon, Close, End, JobStates, Gens, NoJob, TriesInv,
      JobInv
<1>14. ASSUME NEW j \in Jobs, AttemptFails(j) PROVE TypeOK'
  BY <1>14 DEF AttemptFails, Is, End, JobStates, Gens, NoJob, TriesInv, JobInv
<1>15. ASSUME NEW j \in Jobs, CheckPasses(j) PROVE TypeOK'
  BY <1>15 DEF CheckPasses, Is, End, JobStates, Gens, NoJob, TriesInv, JobInv
<1>16. ASSUME NEW j \in Jobs, CheckFails(j) PROVE TypeOK'
  <2>1. generation' \in Gens /\ attemptGen' \in Gens \cup {None}
    BY <1>16 DEF CheckFails, Is, End, LivenessLost, Gens
  <2>2. job' \in [Jobs -> JobStates]
    BY <1>16 DEF CheckFails, End, JobStates, NoJob, Gens
  <2>3. LivenessLost \/ UNCHANGED <<status, attempt, hub, retryTimer, settleTimer>>
    BY <1>16, Zenon DEF CheckFails
  <2>4. /\ hub' \in Transports \cup {None} /\ settleTimer' \in BOOLEAN
        /\ retryTimer' \in BOOLEAN
        /\ status' \in {"disconnected", "connecting", "connected", "reconnecting", "failed"}
    BY <2>3 DEF LivenessLost
  <2>5. attempt' \in 0..MaxAttempts
    BY <2>3 DEF LivenessLost
  <2>6. UNCHANGED <<profile, transport, fg, client, countVars, mounted, open, builtFor, wanted, tries>>
    BY <1>16 DEF CheckFails
  <2>. QED
    BY <2>2, <2>4, <2>5, <2>6
<1>17. CASE RetryTimerFires
  <2>1. generation' \in Gens /\ attemptGen' \in Gens \cup {None}
    BY <1>17 DEF RetryTimerFires, AttemptReconnect, MayAttempt, Begin, Free, Gens
  <2>2. job' \in [Jobs -> JobStates]
    BY <1>17, <2>1 DEF RetryTimerFires, AttemptReconnect, MayAttempt, Begin, Free,
        JobStates, NoJob
  <2>3. attempt' \in 0..MaxAttempts /\ unsettled' \in 0..MaxAttempts
    BY <1>17 DEF RetryTimerFires, AttemptReconnect, MayAttempt, Begin, Free
  <2>4. tries' \in Nat
    BY <1>17 DEF RetryTimerFires, AttemptReconnect, MayAttempt, Begin, Free
  <2>. QED
    BY <1>17, <2>1, <2>2, <2>3, <2>4 DEF RetryTimerFires, AttemptReconnect,
        MayAttempt, Begin, Free
<1>18. CASE SettleTimerFires
  <2>1. generation' \in Gens /\ attemptGen' \in Gens \cup {None}
    BY <1>18 DEF SettleTimerFires, Gens
  <2>2. job' \in [Jobs -> JobStates]
    BY <1>18, <2>1 DEF SettleTimerFires, JobStates, NoJob
  <2>3. attempt' \in 0..MaxAttempts /\ unsettled' \in 0..MaxAttempts
    BY <1>18 DEF SettleTimerFires
  <2>4. tries' \in Nat
    BY <1>18 DEF SettleTimerFires
  <2>. QED
    BY <1>18, <2>1, <2>2, <2>3, <2>4 DEF SettleTimerFires
<1>19. CASE StreamLost
  <2>1. generation' \in Gens /\ attemptGen' \in Gens \cup {None}
    BY <1>19 DEF StreamLost, LivenessLost, Gens
  <2>2. job' \in [Jobs -> JobStates]
    BY <1>19, <2>1 DEF StreamLost, LivenessLost, JobStates, NoJob
  <2>3. attempt' \in 0..MaxAttempts /\ unsettled' \in 0..MaxAttempts
    BY <1>19 DEF StreamLost, LivenessLost
  <2>4. tries' \in Nat
    BY <1>19 DEF StreamLost, LivenessLost
  <2>. QED
    BY <1>19, <2>1, <2>2, <2>3, <2>4 DEF StreamLost, LivenessLost
<1>20. CASE UNCHANGED vars
  BY <1>20 DEF vars
<1>. QED
  BY <1>1, <1>2, <1>3, <1>4, <1>5, <1>6, <1>7, <1>8, <1>9, <1>10, <1>11, <1>12, <1>13,
      <1>14, <1>15, <1>16, <1>17, <1>18, <1>19, <1>20 DEF Next, JobStep

\* A job holds a transport from its build to its end.
LEMMA JobInvStep ==
  ASSUME TypeOK, JobInv, [Next]_vars
  PROVE  JobInv'
<1>. USE NoneAssumption, MaxAttemptsAssumption, MaxGenAssumption DEF TypeOK, JobStates,
    Gens, NoJob, JobInv, Stale, Current, stateVars, countVars, timerVars
<1>1. ASSUME NEW p \in Profiles, NEW j \in Jobs, Connect(p, j) PROVE JobInv'
  BY <1>1 DEF Connect, StopActivity, Close, Free
<1>2. CASE Disconnect
  BY <1>2 DEF Disconnect, StopActivity, Close
<1>3. CASE Retry
  BY <1>3 DEF Retry, AttemptReconnect, MayAttempt, Begin, Free
<1>4. CASE Dispose
  BY <1>4 DEF Dispose, StopActivity, Close
<1>5. CASE ToBackground
  BY <1>5 DEF ToBackground
<1>6. CASE Return
  BY <1>6 DEF Return, AttemptReconnect, MayAttempt, Begin, Free
<1>7. ASSUME NEW j \in Jobs, NEW t \in Transports, Build(j, t) PROVE JobInv'
  BY <1>7 DEF Build, Fresh, Abandon, Close, End
<1>8. ASSUME NEW j \in Jobs, Break(j) PROVE JobInv'
  <2>1. job[j].kind \in {"connect", "attempt"}
    BY <1>8 DEF Break
  <2>2. /\ job'[j].kind = job[j].kind /\ job'[j].gen = job[j].gen
        /\ job'[j].at = "failing" /\ job'[j].on = None
        /\ \A k \in Jobs : k # j => job'[k] = job[k]
    BY <1>8 DEF Break
  <2>3. job'[j] # NoJob
    BY <2>2
  <2>. QED
    BY <1>8, <2>1, <2>2, <2>3 DEF Break
<1>9. ASSUME NEW j \in Jobs, Probed(j) PROVE JobInv'
  BY <1>9 DEF Probed, Is, Abandon, Close, End
<1>10. ASSUME NEW j \in Jobs, GoLive(j) PROVE JobInv'
  BY <1>10 DEF GoLive, Is, Abandon, Close, End
<1>11. ASSUME NEW j \in Jobs, ConnectFails(j) PROVE JobInv'
  BY <1>11 DEF ConnectFails, Is, End
<1>12. ASSUME NEW j \in Jobs, Adopt(j) PROVE JobInv'
  BY <1>12 DEF Adopt, Is, End
<1>13. ASSUME NEW j \in Jobs, AdoptTooLate(j) PROVE JobInv'
  BY <1>13 DEF AdoptTooLate, Is, Abandon, Close, End
<1>14. ASSUME NEW j \in Jobs, AttemptFails(j) PROVE JobInv'
  BY <1>14 DEF AttemptFails, Is, End
<1>15. ASSUME NEW j \in Jobs, CheckPasses(j) PROVE JobInv'
  BY <1>15 DEF CheckPasses, Is, End
<1>16. ASSUME NEW j \in Jobs, CheckFails(j) PROVE JobInv'
  BY <1>16 DEF CheckFails, Is, End, LivenessLost
<1>17. CASE RetryTimerFires
  BY <1>17 DEF RetryTimerFires, AttemptReconnect, MayAttempt, Begin, Free
<1>18. CASE SettleTimerFires
  BY <1>18 DEF SettleTimerFires
<1>19. CASE StreamLost
  BY <1>19 DEF StreamLost, LivenessLost
<1>20. CASE UNCHANGED vars
  BY <1>20 DEF vars
<1>. QED
  BY <1>1, <1>2, <1>3, <1>4, <1>5, <1>6, <1>7, <1>8, <1>9, <1>10, <1>11, <1>12, <1>13,
      <1>14, <1>15, <1>16, <1>17, <1>18, <1>19, <1>20 DEF Next, JobStep

\* A transport changes hands in one step, and whoever gives it up closes it.
LEMMA HeldStep ==
  ASSUME TypeOK, JobInv, HeldInv, WantedInv, [Next]_vars
  PROVE  HeldInv'
<1>. USE NoneAssumption, MaxAttemptsAssumption, MaxGenAssumption DEF TypeOK, JobStates,
    Gens, NoJob, JobInv, HeldInv, WantedInv, Holds, Stale, Current, stateVars,
    countVars, timerVars
<1>1. ASSUME NEW p \in Profiles, NEW j \in Jobs, Connect(p, j) PROVE HeldInv'
  BY <1>1 DEF Connect, StopActivity, Close, Free
<1>2. CASE Disconnect
  BY <1>2 DEF Disconnect, StopActivity, Close
<1>3. CASE Retry
  BY <1>3 DEF Retry, AttemptReconnect, MayAttempt, Begin, Free
<1>4. CASE Dispose
  BY <1>4 DEF Dispose, StopActivity, Close
<1>5. CASE ToBackground
  BY <1>5 DEF ToBackground
<1>6. CASE Return
  <2>1. \A j \in Jobs :
          \/ job'[j] = job[j]
          \/ job[j].kind = "none" /\ ~(job'[j].kind \in {"connect", "attempt"} /\ job'[j].on # None)
    BY <1>6 DEF Return, AttemptReconnect, MayAttempt, Begin, Free
  <2>2. UNCHANGED <<open, transport>>
    BY <1>6 DEF Return
  <2>. QED
    BY <2>1, <2>2
<1>7. ASSUME NEW j \in Jobs, NEW t \in Transports, Build(j, t) PROVE HeldInv'
  BY <1>7 DEF Build, Fresh, Abandon, Close, End
<1>8. ASSUME NEW j \in Jobs, Break(j) PROVE HeldInv'
  BY <1>8 DEF Break, Close
<1>9. ASSUME NEW j \in Jobs, Probed(j) PROVE HeldInv'
  BY <1>9 DEF Probed, Is, Abandon, Close, End
<1>10. ASSUME NEW j \in Jobs, GoLive(j) PROVE HeldInv'
  BY <1>10 DEF GoLive, Is, Abandon, Close, End
<1>11. ASSUME NEW j \in Jobs, ConnectFails(j) PROVE HeldInv'
  BY <1>11 DEF ConnectFails, Is, End
<1>12. ASSUME NEW j \in Jobs, Adopt(j) PROVE HeldInv'
  BY <1>12 DEF Adopt, Is, End
<1>13. ASSUME NEW j \in Jobs, AdoptTooLate(j) PROVE HeldInv'
  BY <1>13 DEF AdoptTooLate, Is, Abandon, Close, End
<1>14. ASSUME NEW j \in Jobs, AttemptFails(j) PROVE HeldInv'
  BY <1>14 DEF AttemptFails, Is, End
<1>15. ASSUME NEW j \in Jobs, CheckPasses(j) PROVE HeldInv'
  BY <1>15 DEF CheckPasses, Is, End
<1>16. ASSUME NEW j \in Jobs, CheckFails(j) PROVE HeldInv'
  BY <1>16 DEF CheckFails, Is, End, LivenessLost
<1>17. CASE RetryTimerFires
  BY <1>17 DEF RetryTimerFires, AttemptReconnect, MayAttempt, Begin, Free
<1>18. CASE SettleTimerFires
  BY <1>18 DEF SettleTimerFires
<1>19. CASE StreamLost
  BY <1>19 DEF StreamLost, LivenessLost
<1>20. CASE UNCHANGED vars
  BY <1>20 DEF vars
<1>. QED
  BY <1>1, <1>2, <1>3, <1>4, <1>5, <1>6, <1>7, <1>8, <1>9, <1>10, <1>11, <1>12, <1>13,
      <1>14, <1>15, <1>16, <1>17, <1>18, <1>19, <1>20 DEF Next, JobStep

\* Only a job of this generation puts its transport into the session.
LEMMA WantedStep ==
  ASSUME TypeOK, JobInv, HeldInv, WantedInv, [Next]_vars
  PROVE  WantedInv'
<1>. USE NoneAssumption, MaxAttemptsAssumption, MaxGenAssumption DEF TypeOK, JobStates,
    Gens, NoJob, JobInv, HeldInv, WantedInv, Holds, Stale, Current, stateVars,
    countVars, timerVars
<1>1. ASSUME NEW p \in Profiles, NEW j \in Jobs, Connect(p, j) PROVE WantedInv'
  BY <1>1 DEF Connect, StopActivity, Close, Free
<1>2. CASE Disconnect
  BY <1>2 DEF Disconnect, StopActivity, Close
<1>3. CASE Retry
  BY <1>3 DEF Retry, AttemptReconnect, MayAttempt, Begin, Free
<1>4. CASE Dispose
  BY <1>4 DEF Dispose, StopActivity, Close
<1>5. CASE ToBackground
  BY <1>5 DEF ToBackground
<1>6. CASE Return
  BY <1>6 DEF Return, AttemptReconnect, MayAttempt, Begin, Free
<1>7. ASSUME NEW j \in Jobs, NEW t \in Transports, Build(j, t) PROVE WantedInv'
  BY <1>7 DEF Build, Fresh, Abandon, Close, End
<1>8. ASSUME NEW j \in Jobs, Break(j) PROVE WantedInv'
  BY <1>8 DEF Break, Close
<1>9. ASSUME NEW j \in Jobs, Probed(j) PROVE WantedInv'
  BY <1>9 DEF Probed, Is, Abandon, Close, End
<1>10. ASSUME NEW j \in Jobs, GoLive(j) PROVE WantedInv'
  BY <1>10 DEF GoLive, Is, Abandon, Close, End
<1>11. ASSUME NEW j \in Jobs, ConnectFails(j) PROVE WantedInv'
  BY <1>11 DEF ConnectFails, Is, End
<1>12. ASSUME NEW j \in Jobs, Adopt(j) PROVE WantedInv'
  BY <1>12 DEF Adopt, Is, End
<1>13. ASSUME NEW j \in Jobs, AdoptTooLate(j) PROVE WantedInv'
  BY <1>13 DEF AdoptTooLate, Is, Abandon, Close, End
<1>14. ASSUME NEW j \in Jobs, AttemptFails(j) PROVE WantedInv'
  BY <1>14 DEF AttemptFails, Is, End
<1>15. ASSUME NEW j \in Jobs, CheckPasses(j) PROVE WantedInv'
  BY <1>15 DEF CheckPasses, Is, End
<1>16. ASSUME NEW j \in Jobs, CheckFails(j) PROVE WantedInv'
  BY <1>16 DEF CheckFails, Is, End, LivenessLost
<1>17. CASE RetryTimerFires
  BY <1>17 DEF RetryTimerFires, AttemptReconnect, MayAttempt, Begin, Free
<1>18. CASE SettleTimerFires
  BY <1>18 DEF SettleTimerFires
<1>19. CASE StreamLost
  BY <1>19 DEF StreamLost, LivenessLost
<1>20. CASE UNCHANGED vars
  BY <1>20 DEF vars
<1>. QED
  BY <1>1, <1>2, <1>3, <1>4, <1>5, <1>6, <1>7, <1>8, <1>9, <1>10, <1>11, <1>12, <1>13,
      <1>14, <1>15, <1>16, <1>17, <1>18, <1>19, <1>20 DEF Next, JobStep

\* Whatever ends while the session reconnects or connects leaves the next thing
\* behind.
LEMMA WayStep ==
  ASSUME TypeOK, JobInv, WantedInv, WayInv, TriesInv, [Next]_vars
  PROVE  WayInv'
<1>. USE NoneAssumption, MaxAttemptsAssumption, MaxGenAssumption DEF TypeOK, JobStates,
    Gens, NoJob, JobInv, WantedInv, WayInv, Holds, Stale, Current, CurrentAttempts,
    StillInUse, stateVars, countVars, timerVars
<1>1. ASSUME NEW p \in Profiles, NEW j \in Jobs, Connect(p, j) PROVE WayInv'
  BY <1>1 DEF Connect, StopActivity, Close, Free
<1>2. CASE Disconnect
  BY <1>2 DEF Disconnect, StopActivity, Close
<1>3. CASE Retry
  BY <1>3 DEF Retry, AttemptReconnect, MayAttempt, Begin, Free
<1>4. CASE Dispose
  BY <1>4 DEF Dispose, StopActivity, Close
<1>5. CASE ToBackground
  BY <1>5 DEF ToBackground
<1>6. CASE Return
  BY <1>6 DEF Return, AttemptReconnect, MayAttempt, Begin, Free
<1>7. ASSUME NEW j \in Jobs, NEW t \in Transports, Build(j, t) PROVE WayInv'
  BY <1>7 DEF Build, Fresh, Abandon, Close, End
<1>8. ASSUME NEW j \in Jobs, Break(j) PROVE WayInv'
  <2>1. job[j].kind # "check"
    BY <1>8 DEF Break
  <2>2. /\ job'[j].kind = job[j].kind /\ job'[j].gen = job[j].gen
        /\ \A k \in Jobs : k # j => job'[k] = job[k]
    BY <1>8 DEF Break
  <2>3. UNCHANGED <<stateVars, client, hub, countVars, timerVars, mounted>>
    BY <1>8 DEF Break
  <2>4. CurrentAttempts' = CurrentAttempts
    BY <2>2, <2>3
  <2>5. \A k \in Jobs : job[k].kind = "check" => job'[k] = job[k]
    BY <2>1, <2>2
  <2>. HIDE DEF CurrentAttempts, JobInv, WantedInv
  <2>. QED
    BY <2>2, <2>3, <2>4, <2>5
<1>9. ASSUME NEW j \in Jobs, Probed(j) PROVE WayInv'
  BY <1>9 DEF Probed, Is, Abandon, Close, End
<1>10. ASSUME NEW j \in Jobs, GoLive(j) PROVE WayInv'
  BY <1>10 DEF GoLive, Is, Abandon, Close, End
<1>11. ASSUME NEW j \in Jobs, ConnectFails(j) PROVE WayInv'
  BY <1>11 DEF ConnectFails, Is, End
<1>12. ASSUME NEW j \in Jobs, Adopt(j) PROVE WayInv'
  BY <1>12 DEF Adopt, Is, End
<1>13. ASSUME NEW j \in Jobs, AdoptTooLate(j) PROVE WayInv'
  BY <1>13 DEF AdoptTooLate, Is, Abandon, Close, End
<1>14. ASSUME NEW j \in Jobs, AttemptFails(j) PROVE WayInv'
  BY <1>14 DEF AttemptFails, Is, End
<1>15. ASSUME NEW j \in Jobs, CheckPasses(j) PROVE WayInv'
  BY <1>15 DEF CheckPasses, Is, End
<1>16. ASSUME NEW j \in Jobs, CheckFails(j) PROVE WayInv'
  BY <1>16 DEF CheckFails, Is, End, LivenessLost
<1>17. CASE RetryTimerFires
  BY <1>17 DEF RetryTimerFires, AttemptReconnect, MayAttempt, Begin, Free
<1>18. CASE SettleTimerFires
  BY <1>18 DEF SettleTimerFires
<1>19. CASE StreamLost
  BY <1>19 DEF StreamLost, LivenessLost
<1>20. CASE UNCHANGED vars
  BY <1>20 DEF vars
<1>. QED
  BY <1>1, <1>2, <1>3, <1>4, <1>5, <1>6, <1>7, <1>8, <1>9, <1>10, <1>11, <1>12, <1>13,
      <1>14, <1>15, <1>16, <1>17, <1>18, <1>19, <1>20 DEF Next, JobStep

\* Every attempt is counted twice over: the one shown never falls behind.
LEMMA TriesStep ==
  ASSUME TypeOK, JobInv, WantedInv, WayInv, TriesInv, [Next]_vars
  PROVE  TriesInv'
<1>. USE NoneAssumption, MaxAttemptsAssumption, MaxGenAssumption DEF TypeOK, JobStates,
    Gens, NoJob, JobInv, WantedInv, WayInv, TriesInv, Stale, Current, CurrentAttempts,
    stateVars, countVars, timerVars
<1>1. ASSUME NEW p \in Profiles, NEW j \in Jobs, Connect(p, j) PROVE TriesInv'
  BY <1>1 DEF Connect, StopActivity, Close, Free
<1>2. CASE Disconnect
  BY <1>2 DEF Disconnect, StopActivity, Close
<1>3. CASE Retry
  BY <1>3 DEF Retry, AttemptReconnect, MayAttempt, Begin, Free
<1>4. CASE Dispose
  BY <1>4 DEF Dispose, StopActivity, Close
<1>5. CASE ToBackground
  BY <1>5 DEF ToBackground
<1>6. CASE Return
  BY <1>6 DEF Return, AttemptReconnect, MayAttempt, Begin, Free
<1>7. ASSUME NEW j \in Jobs, NEW t \in Transports, Build(j, t) PROVE TriesInv'
  BY <1>7 DEF Build, Fresh, Abandon, Close, End
<1>8. ASSUME NEW j \in Jobs, Break(j) PROVE TriesInv'
  BY <1>8 DEF Break, Close
<1>9. ASSUME NEW j \in Jobs, Probed(j) PROVE TriesInv'
  BY <1>9 DEF Probed, Is, Abandon, Close, End
<1>10. ASSUME NEW j \in Jobs, GoLive(j) PROVE TriesInv'
  BY <1>10 DEF GoLive, Is, Abandon, Close, End
<1>11. ASSUME NEW j \in Jobs, ConnectFails(j) PROVE TriesInv'
  BY <1>11 DEF ConnectFails, Is, End
<1>12. ASSUME NEW j \in Jobs, Adopt(j) PROVE TriesInv'
  BY <1>12 DEF Adopt, Is, End
<1>13. ASSUME NEW j \in Jobs, AdoptTooLate(j) PROVE TriesInv'
  BY <1>13 DEF AdoptTooLate, Is, Abandon, Close, End
<1>14. ASSUME NEW j \in Jobs, AttemptFails(j) PROVE TriesInv'
  BY <1>14 DEF AttemptFails, Is, End
<1>15. ASSUME NEW j \in Jobs, CheckPasses(j) PROVE TriesInv'
  BY <1>15 DEF CheckPasses, Is, End
<1>16. ASSUME NEW j \in Jobs, CheckFails(j) PROVE TriesInv'
  <2>1. CASE StillInUse(j)
    <3>1. LivenessLost
      BY <1>16, <2>1 DEF CheckFails
    <3>2. mounted /\ UNCHANGED <<tries, unsettled, mounted>>
      BY <1>16, <2>1 DEF CheckFails, StillInUse
    <3>. QED
      BY <3>1, <3>2 DEF LivenessLost
  <2>2. CASE ~StillInUse(j)
    BY <1>16, <2>2 DEF CheckFails
  <2>. QED
    BY <2>1, <2>2
<1>17. CASE RetryTimerFires
  BY <1>17 DEF RetryTimerFires, AttemptReconnect, MayAttempt, Begin, Free
<1>18. CASE SettleTimerFires
  BY <1>18 DEF SettleTimerFires
<1>19. CASE StreamLost
  <2>1. mounted /\ LivenessLost /\ UNCHANGED <<tries, unsettled, mounted>>
    BY <1>19 DEF StreamLost
  <2>. QED
    BY <2>1 DEF LivenessLost
<1>20. CASE UNCHANGED vars
  BY <1>20 DEF vars
<1>. QED
  BY <1>1, <1>2, <1>3, <1>4, <1>5, <1>6, <1>7, <1>8, <1>9, <1>10, <1>11, <1>12, <1>13,
      <1>14, <1>15, <1>16, <1>17, <1>18, <1>19, <1>20 DEF Next, JobStep

\* Only the hub's loss and a ping about the client in use end a connection.
LEMMA LossStep ==
  ASSUME TypeOK, JobInv, WantedInv, [Next]_vars
  PROVE  OwnLoss
<1>. USE NoneAssumption, MaxAttemptsAssumption, MaxGenAssumption DEF OwnLoss, Holds,
    Stale, Current, WantedInv, StillInUse, stateVars, countVars, timerVars
<1>1. ASSUME NEW p \in Profiles, NEW j \in Jobs, Connect(p, j) PROVE OwnLoss
  BY <1>1 DEF Connect, StopActivity, Close, Free
<1>2. CASE Disconnect
  BY <1>2 DEF Disconnect, StopActivity, Close
<1>3. CASE Retry
  BY <1>3 DEF Retry, AttemptReconnect, MayAttempt, Begin, Free
<1>4. CASE Dispose
  BY <1>4 DEF Dispose, StopActivity, Close
<1>5. CASE ToBackground
  BY <1>5 DEF ToBackground
<1>6. CASE Return
  BY <1>6 DEF Return, AttemptReconnect, MayAttempt, Begin, Free
<1>7. ASSUME NEW j \in Jobs, NEW t \in Transports, Build(j, t) PROVE OwnLoss
  BY <1>7 DEF Build, Fresh, Abandon, Close, End
<1>8. ASSUME NEW j \in Jobs, Break(j) PROVE OwnLoss
  BY <1>8 DEF Break, Close
<1>9. ASSUME NEW j \in Jobs, Probed(j) PROVE OwnLoss
  BY <1>9 DEF Probed, Is, Abandon, Close, End
<1>10. ASSUME NEW j \in Jobs, GoLive(j) PROVE OwnLoss
  BY <1>10 DEF GoLive, Is, Abandon, Close, End
<1>11. ASSUME NEW j \in Jobs, ConnectFails(j) PROVE OwnLoss
  BY <1>11 DEF ConnectFails, Is, End
<1>12. ASSUME NEW j \in Jobs, Adopt(j) PROVE OwnLoss
  BY <1>12 DEF Adopt, Is, End
<1>13. ASSUME NEW j \in Jobs, AdoptTooLate(j) PROVE OwnLoss
  BY <1>13 DEF AdoptTooLate, Is, Abandon, Close, End
<1>14. ASSUME NEW j \in Jobs, AttemptFails(j) PROVE OwnLoss
  BY <1>14 DEF AttemptFails, Is, End
<1>15. ASSUME NEW j \in Jobs, CheckPasses(j) PROVE OwnLoss
  BY <1>15 DEF CheckPasses, Is, End
<1>16. ASSUME NEW j \in Jobs, CheckFails(j) PROVE OwnLoss
  <2>1. CASE StillInUse(j)
    <3>1. job[j].kind = "check" /\ job[j].on = transport
      BY <1>16, <2>1 DEF CheckFails, Is
    <3>2. job'[j] = NoJob
      BY <1>16 DEF CheckFails, End, TypeOK
    <3>. QED
      BY <3>1, <3>2
  <2>2. CASE ~StillInUse(j)
    BY <1>16, <2>2 DEF CheckFails
  <2>. QED
    BY <2>1, <2>2
<1>17. CASE RetryTimerFires
  BY <1>17 DEF RetryTimerFires, AttemptReconnect, MayAttempt, Begin, Free
<1>18. CASE SettleTimerFires
  BY <1>18 DEF SettleTimerFires
<1>19. CASE StreamLost
  BY <1>19 DEF StreamLost, LivenessLost
<1>20. CASE UNCHANGED vars
  BY <1>20 DEF vars
<1>. QED
  BY <1>1, <1>2, <1>3, <1>4, <1>5, <1>6, <1>7, <1>8, <1>9, <1>10, <1>11, <1>12, <1>13,
      <1>14, <1>15, <1>16, <1>17, <1>18, <1>19, <1>20 DEF Next, JobStep

\* The inductive invariant holds in every state of the session, whatever is
\* awaited when it connects, disconnects, retries or is resumed.
THEOREM Invariance == Spec => []IInv
<1>1. Init => IInv
  <2>. SUFFICES ASSUME Init PROVE IInv
    OBVIOUS
  <2>. USE NoneAssumption, MaxAttemptsAssumption, MaxGenAssumption DEF Init, NoJob
  <2>1. TypeOK
    <3>1. generation \in Gens /\ attemptGen \in Gens \cup {None}
      BY DEF Gens
    <3>2. job \in [Jobs -> JobStates]
      BY DEF JobStates, Gens
    <3>3. attempt \in 0..MaxAttempts /\ unsettled \in 0..MaxAttempts /\ tries \in Nat
      OBVIOUS
    <3>4. builtFor \in [Transports -> Profiles \cup {None}]
      OBVIOUS
    <3>. QED
      BY <3>1, <3>2, <3>3, <3>4 DEF TypeOK
  <2>2. JobInv
    BY DEF JobInv
  <2>3. HeldInv /\ WantedInv
    BY DEF HeldInv, WantedInv, Holds, Stale, Current
  <2>4. WayInv /\ TriesInv
    BY DEF WayInv, TriesInv, CurrentAttempts
  <2>. QED
    BY <2>1, <2>2, <2>3, <2>4 DEF IInv
<1>2. IInv /\ [Next]_vars => IInv'
  BY TypeStep, JobInvStep, HeldStep, WantedStep, WayStep, TriesStep DEF IInv
<1>. QED
  BY <1>1, <1>2, PTL DEF Spec

\* No transport is left open that neither the session nor a job holds (connect,
\* _attemptReconnect and their early returns).
THEOREM NoTransportIsLost == Spec => []NoTransportLeaks
<1>1. IInv => NoTransportLeaks
  <2>. SUFFICES ASSUME IInv PROVE NoTransportLeaks
    OBVIOUS
  <2>1. \A j \in Jobs : job[j].on # None /\ job[j].kind \notin {"check", "none"} <=> Holds(j)
    BY DEF IInv, TypeOK, JobStates, Holds
  <2>2. \A t \in Transports :
          t \in open <=> t = transport \/ \E j \in Jobs : Holds(j) /\ job[j].on = t
    BY NoneAssumption DEF IInv, HeldInv
  <2>. QED
    BY <2>1, <2>2, NoneAssumption DEF IInv, TypeOK, JobStates, NoTransportLeaks, InFlight
<1>. QED
  BY <1>1, Invariance, PTL

\* The session is on what was asked for last, and no overtaken job changes that.
THEOREM SessionIsAsWanted == Spec => []AsWanted
<1>1. IInv => AsWanted
  BY DEF IInv, HeldInv, WantedInv, AsWanted
<1>. QED
  BY <1>1, Invariance, PTL

\* In the foreground something always brings the session further, and one thing
\* only (_attemptReconnect, livenessLost, _checkAfterResume).
THEOREM SessionIsOnTheWay == Spec => []AlwaysOnTheWay
<1>1. ASSUME IInv, mounted
      PROVE  Cardinality(CurrentAttempts) <= IF retryTimer THEN 0 ELSE 1
  <2>1. CASE CurrentAttempts = {}
    BY <2>1, FS_EmptySet
  <2>2. CASE CurrentAttempts # {}
    <3>1. PICK j \in CurrentAttempts : TRUE
      BY <2>2
    <3>2. CurrentAttempts = {j} /\ ~retryTimer
      BY <1>1, <2>2, <3>1 DEF IInv, WayInv
    <3>3. Cardinality({j}) = 1
      BY FS_Singleton
    <3>. QED
      BY <3>2, <3>3
  <2>. QED
    BY <2>1, <2>2
<1>2. IInv => AlwaysOnTheWay
  BY <1>1 DEF IInv, WayInv, AlwaysOnTheWay
<1>. QED
  BY <1>2, Invariance, PTL

\* Between two moments that start the count again there are no more attempts
\* than the policy allows (ReconnectPolicy.maxAttempts, _unsettled).
THEOREM TriesAreLimited == Spec => []LimitedTries
<1>1. IInv => LimitedTries
  BY DEF IInv, TriesInv, LimitedTries
<1>. QED
  BY <1>1, Invariance, PTL

\* No answer to an old ping, and no stream of an old connection, ends a
\* connection (livenessLost, _checkAfterResume).
THEOREM LossesAreOwn == Spec => LostForItsOwnReason
<1>1. IInv /\ [Next]_vars => OwnLoss
  BY LossStep DEF IInv
<1>. QED
  BY <1>1, Invariance, PTL DEF Spec, LostForItsOwnReason
=============================================================================
