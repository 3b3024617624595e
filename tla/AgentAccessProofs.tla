------------------------- MODULE AgentAccessProofs -------------------------
(* The safety of AgentAccess for any number of requests, devices,          *)
(* revocations and addresses. IInv is inductive: every part of it is kept  *)
(* by every step, and the safety properties follow from it, and that       *)
(* AgentAccess implements AccessControl.                                   *)
EXTENDS AgentAccess, TLAPS

\* Every step keeps every variable in its type.
LEMMA TypeStep == TypeOK /\ [Next]_vars => TypeOK'
<1>. SUFFICES ASSUME TypeOK, [Next]_vars PROVE TypeOK'
  OBVIOUS
<1>. USE ThresholdAssumption
  DEF TypeOK, ReqPCs, TrackedAt, Answers, RevPCs, StopPCs, Credentials,
      Goto, Answer, RevokeGoto,
      vars, reqVars, revVars, regVars, devVars, stopVars, limitVars
<1>1. ASSUME NEW r \in Requests, NEW c \in Credentials, Arrive(r, c) PROVE TypeOK'
  BY <1>1 DEF Arrive
<1>2. ASSUME NEW r \in Requests, Lookup(r) PROVE TypeOK'
  BY <1>2 DEF Lookup
<1>3. ASSUME NEW r \in Requests, Track(r) PROVE TypeOK'
  BY <1>3 DEF Track
<1>4. ASSUME NEW r \in Requests, ReadTracked(r) PROVE TypeOK'
  BY <1>4 DEF ReadTracked
<1>5. ASSUME NEW r \in Requests, ReadParent(r) PROVE TypeOK'
  BY <1>5 DEF ReadParent
<1>6. ASSUME NEW r \in Requests, Relookup(r) PROVE TypeOK'
  BY <1>6 DEF Relookup
<1>7. ASSUME NEW r \in Requests, Dispatch(r) PROVE TypeOK'
  BY <1>7 DEF Dispatch
<1>8. ASSUME NEW r \in Requests, Finish(r) PROVE TypeOK'
  BY <1>8 DEF Finish
<1>9. ASSUME NEW r \in Requests, Release(r) PROVE TypeOK'
  BY <1>9 DEF Release
<1>10. ASSUME NEW r \in Requests, CheckLimit(r) PROVE TypeOK'
  BY <1>10 DEF CheckLimit
<1>11. ASSUME NEW r \in Requests, CountFailure(r) PROVE TypeOK'
  BY <1>11 DEF CountFailure
<1>12. ASSUME NEW r \in Requests, ClientLeaves(r) PROVE TypeOK'
  BY <1>12 DEF ClientLeaves
<1>13. ASSUME NEW r \in Requests, EndPropagates(r) PROVE TypeOK'
  BY <1>13 DEF EndPropagates
<1>14. ASSUME NEW a \in Addresses, BlockEnds(a) PROVE TypeOK'
  BY <1>14 DEF BlockEnds
<1>15. ASSUME NEW a \in Addresses, FailuresForgotten(a) PROVE TypeOK'
  BY <1>15 DEF FailuresForgotten
<1>16. ASSUME NEW d \in Devices, Pair(d) PROVE TypeOK'
  BY <1>16 DEF Pair
<1>17. ASSUME NEW v \in Revokes, NEW d \in Devices, RemoveNotFound(v, d) PROVE TypeOK'
  BY <1>17 DEF RemoveNotFound
<1>18. ASSUME NEW v \in Revokes, NEW d \in Devices, RemoveFails(v, d) PROVE TypeOK'
  BY <1>18 DEF RemoveFails
<1>19. ASSUME NEW v \in Revokes, NEW d \in Devices, Remove(v, d) PROVE TypeOK'
  BY <1>19 DEF Remove
<1>20. ASSUME NEW v \in Revokes, CloseDeviceTake(v) PROVE TypeOK'
  BY <1>20 DEF CloseDeviceTake
<1>21. ASSUME NEW v \in Revokes, CloseDeviceCancel(v) PROVE TypeOK'
  BY <1>21 DEF CloseDeviceCancel
<1>22. ASSUME NEW v \in Revokes, AnswerRevoke(v) PROVE TypeOK'
  BY <1>22 DEF AnswerRevoke
<1>23. CASE BeginStop
  BY <1>23 DEF BeginStop
<1>24. CASE CloseAllTake
  BY <1>24 DEF CloseAllTake
<1>25. CASE CloseAllCancel
  BY <1>25 DEF CloseAllCancel
<1>26. CASE CloseServer
  BY <1>26 DEF CloseServer
<1>27. CASE UNCHANGED vars
  BY <1>27
<1>. QED
  BY <1>1, <1>2, <1>3, <1>4, <1>5, <1>6, <1>7, <1>8, <1>9,
     <1>10, <1>11, <1>12, <1>13, <1>14, <1>15, <1>16, <1>17, <1>18,
     <1>19, <1>20, <1>21, <1>22, <1>23, <1>24, <1>25, <1>26, <1>27
  DEF Next, RequestStep, RevokeStep, StopStep

\* A token that exists was issued, and a request that has not been sent has none.
LEMMA CredentialInvStep == IInv /\ TypeOK' /\ [Next]_vars => CredentialInv'
<1>. SUFFICES ASSUME TypeOK, CredentialInv, TypeOK', [Next]_vars
             PROVE  CredentialInv'
  BY DEF IInv
<1>. USE CredentialsAssumption DEF TypeOK, CredentialInv,
  ReqPCs, TrackedAt, Answers, RevPCs, StopPCs,
  Credentials, BeenTracked, Removed, Removing, Goto, Answer, RevokeGoto,
  vars, reqVars, revVars, regVars, devVars, stopVars, limitVars
<1>1. ASSUME NEW r \in Requests, NEW c \in Credentials, Arrive(r, c) PROVE CredentialInv'
  BY <1>1 DEF Arrive
<1>2. ASSUME NEW r \in Requests, RequestStep(r) PROVE CredentialInv'
  BY <1>2 DEF RequestStep, Lookup, Track, ReadTracked, ReadParent, Relookup,
    Dispatch, Release, CheckLimit, CountFailure
<1>3. ASSUME NEW r \in Requests, Finish(r) \/ ClientLeaves(r) \/ EndPropagates(r) PROVE CredentialInv'
  BY <1>3 DEF Finish, ClientLeaves, EndPropagates
<1>4. ASSUME NEW a \in Addresses, BlockEnds(a) \/ FailuresForgotten(a) PROVE CredentialInv'
  BY <1>4 DEF BlockEnds, FailuresForgotten
<1>5. ASSUME NEW d \in Devices, Pair(d) PROVE CredentialInv'
  BY <1>5 DEF Pair
<1>6. ASSUME NEW v \in Revokes, NEW d \in Devices,
         RemoveNotFound(v, d) \/ RemoveFails(v, d) \/ Remove(v, d)
  PROVE  CredentialInv'
  BY <1>6 DEF RemoveNotFound, RemoveFails, Remove
<1>7. ASSUME NEW v \in Revokes, RevokeStep(v) PROVE CredentialInv'
  BY <1>7 DEF RevokeStep, CloseDeviceTake, CloseDeviceCancel, AnswerRevoke
<1>8. CASE BeginStop \/ StopStep
  BY <1>8 DEF BeginStop, StopStep, CloseAllTake, CloseAllCancel, CloseServer
<1>9. CASE UNCHANGED vars
  BY <1>9
<1>. QED
  BY <1>1, <1>2, <1>3, <1>4, <1>5, <1>6, <1>7, <1>8, <1>9 DEF Next

\* What is tracked stays in reach of a cancel: whoever takes a request out of the
\* registry is the one that goes on to cancel it.
LEMMA ReachInvStep == IInv /\ TypeOK' /\ [Next]_vars => ReachInv'
<1>. SUFFICES ASSUME TypeOK, CredentialInv, ReachInv, AnswerInv, StopInv, TypeOK', [Next]_vars
             PROVE  ReachInv'
  BY DEF IInv
<1>. USE CredentialsAssumption DEF TypeOK, CredentialInv, ReachInv, AnswerInv, StopInv,
  ReqPCs, TrackedAt, Answers, RevPCs, StopPCs,
  Credentials, BeenTracked, Removed, Removing, Goto, Answer, RevokeGoto,
  vars, reqVars, revVars, regVars, devVars, stopVars, limitVars
<1>1. ASSUME NEW r \in Requests, NEW c \in Credentials, Arrive(r, c) PROVE ReachInv'
  BY <1>1 DEF Arrive
<1>2. ASSUME NEW r \in Requests, RequestStep(r) PROVE ReachInv'
  <2>1. CASE Lookup(r) \/ Track(r) \/ ReadTracked(r) \/ ReadParent(r)
    BY <2>1 DEF Lookup, Track, ReadTracked, ReadParent
  <2>2. CASE Relookup(r) \/ Dispatch(r)
    BY <2>2 DEF Relookup, Dispatch
  <2>3. CASE Release(r)
    BY <2>3 DEF Release
  <2>4. CASE CheckLimit(r) \/ CountFailure(r)
    BY <2>4 DEF CheckLimit, CountFailure
  <2>. QED
    BY <1>2, <2>1, <2>2, <2>3, <2>4 DEF RequestStep
<1>3. ASSUME NEW r \in Requests, Finish(r) \/ ClientLeaves(r) \/ EndPropagates(r) PROVE ReachInv'
  BY <1>3 DEF Finish, ClientLeaves, EndPropagates
<1>4. ASSUME NEW a \in Addresses, BlockEnds(a) \/ FailuresForgotten(a) PROVE ReachInv'
  BY <1>4 DEF BlockEnds, FailuresForgotten
<1>5. ASSUME NEW d \in Devices, Pair(d) PROVE ReachInv'
  BY <1>5 DEF Pair
<1>6. ASSUME NEW v \in Revokes, NEW d \in Devices,
         RemoveNotFound(v, d) \/ RemoveFails(v, d) \/ Remove(v, d)
  PROVE  ReachInv'
  BY <1>6 DEF RemoveNotFound, RemoveFails, Remove
<1>7. ASSUME NEW v \in Revokes, RevokeStep(v) PROVE ReachInv'
  BY <1>7 DEF RevokeStep, CloseDeviceTake, CloseDeviceCancel, AnswerRevoke
<1>8. CASE BeginStop \/ StopStep
  BY <1>8 DEF BeginStop, StopStep, CloseAllTake, CloseAllCancel, CloseServer
<1>9. CASE UNCHANGED vars
  BY <1>9
<1>. QED
  BY <1>1, <1>2, <1>3, <1>4, <1>5, <1>6, <1>7, <1>8, <1>9 DEF Next

\* A removed device stays removed, because its id and its token are fresh.
LEMMA RemovalInvStep == IInv /\ TypeOK' /\ [Next]_vars => RemovalInv'
<1>. SUFFICES ASSUME TypeOK, RemovalInv, TypeOK', [Next]_vars
             PROVE  RemovalInv'
  BY DEF IInv
<1>. USE CredentialsAssumption DEF TypeOK, RemovalInv,
  ReqPCs, TrackedAt, Answers, RevPCs, StopPCs,
  Credentials, BeenTracked, Removed, Removing, Goto, Answer, RevokeGoto,
  vars, reqVars, revVars, regVars, devVars, stopVars, limitVars
<1>1. ASSUME NEW r \in Requests, NEW c \in Credentials, Arrive(r, c) PROVE RemovalInv'
  BY <1>1 DEF Arrive
<1>2. ASSUME NEW r \in Requests, RequestStep(r) PROVE RemovalInv'
  BY <1>2 DEF RequestStep, Lookup, Track, ReadTracked, ReadParent, Relookup,
    Dispatch, Release, CheckLimit, CountFailure
<1>3. ASSUME NEW r \in Requests, Finish(r) \/ ClientLeaves(r) \/ EndPropagates(r) PROVE RemovalInv'
  BY <1>3 DEF Finish, ClientLeaves, EndPropagates
<1>4. ASSUME NEW a \in Addresses, BlockEnds(a) \/ FailuresForgotten(a) PROVE RemovalInv'
  BY <1>4 DEF BlockEnds, FailuresForgotten
<1>5. ASSUME NEW d \in Devices, Pair(d) PROVE RemovalInv'
  BY <1>5 DEF Pair
<1>6. ASSUME NEW v \in Revokes, NEW d \in Devices,
         RemoveNotFound(v, d) \/ RemoveFails(v, d) \/ Remove(v, d)
  PROVE  RemovalInv'
  BY <1>6 DEF RemoveNotFound, RemoveFails, Remove
<1>7. ASSUME NEW v \in Revokes, RevokeStep(v) PROVE RemovalInv'
  BY <1>7 DEF RevokeStep, CloseDeviceTake, CloseDeviceCancel, AnswerRevoke
<1>8. CASE BeginStop \/ StopStep
  BY <1>8 DEF BeginStop, StopStep, CloseAllTake, CloseAllCancel, CloseServer
<1>9. CASE UNCHANGED vars
  BY <1>9
<1>. QED
  BY <1>1, <1>2, <1>3, <1>4, <1>5, <1>6, <1>7, <1>8, <1>9 DEF Next

\* The removal of a device comes before its CloseDevice, and the second lookup
\* after Track: what got past the lookup is still to be taken.
LEMMA SecondLookupInvStep == IInv /\ TypeOK' /\ [Next]_vars => SecondLookupInv'
<1>. SUFFICES ASSUME TypeOK, CredentialInv, ReachInv, RemovalInv, SecondLookupInv, TypeOK', [Next]_vars
             PROVE  SecondLookupInv'
  BY DEF IInv
<1>. USE CredentialsAssumption DEF TypeOK, CredentialInv, ReachInv, RemovalInv, SecondLookupInv,
  ReqPCs, TrackedAt, Answers, RevPCs, StopPCs,
  Credentials, BeenTracked, Removed, Removing, Goto, Answer, RevokeGoto,
  vars, reqVars, revVars, regVars, devVars, stopVars, limitVars
<1>1. ASSUME NEW r \in Requests, NEW c \in Credentials, Arrive(r, c) PROVE SecondLookupInv'
  BY <1>1 DEF Arrive
<1>2. ASSUME NEW r \in Requests, RequestStep(r) PROVE SecondLookupInv'
  BY <1>2 DEF RequestStep, Lookup, Track, ReadTracked, ReadParent, Relookup,
    Dispatch, Release, CheckLimit, CountFailure
<1>3. ASSUME NEW r \in Requests, Finish(r) \/ ClientLeaves(r) \/ EndPropagates(r) PROVE SecondLookupInv'
  BY <1>3 DEF Finish, ClientLeaves, EndPropagates
<1>4. ASSUME NEW a \in Addresses, BlockEnds(a) \/ FailuresForgotten(a) PROVE SecondLookupInv'
  BY <1>4 DEF BlockEnds, FailuresForgotten
<1>5. ASSUME NEW d \in Devices, Pair(d) PROVE SecondLookupInv'
  BY <1>5 DEF Pair
<1>6. ASSUME NEW v \in Revokes, NEW d \in Devices,
         RemoveNotFound(v, d) \/ RemoveFails(v, d) \/ Remove(v, d)
  PROVE  SecondLookupInv'
  BY <1>6 DEF RemoveNotFound, RemoveFails, Remove
<1>7. ASSUME NEW v \in Revokes, RevokeStep(v) PROVE SecondLookupInv'
  BY <1>7 DEF RevokeStep, CloseDeviceTake, CloseDeviceCancel, AnswerRevoke
<1>8. CASE BeginStop \/ StopStep
  BY <1>8 DEF BeginStop, StopStep, CloseAllTake, CloseAllCancel, CloseServer
<1>9. CASE UNCHANGED vars
  BY <1>9
<1>. QED
  BY <1>1, <1>2, <1>3, <1>4, <1>5, <1>6, <1>7, <1>8, <1>9 DEF Next

\* A request found ended while its client is there was ended by the registry, and
\* one whose device is found again after that was ended by CloseAll.
LEMMA AnswerInvStep == IInv /\ TypeOK' /\ [Next]_vars => AnswerInv'
<1>. SUFFICES ASSUME TypeOK, CredentialInv, ReachInv, AnswerInv, EndedForCause, StopInv, TypeOK', [Next]_vars
             PROVE  AnswerInv'
  BY DEF IInv
<1>. USE CredentialsAssumption DEF TypeOK, CredentialInv, ReachInv, AnswerInv, EndedForCause, StopInv,
  Accepted, ReqPCs, TrackedAt, Answers, RevPCs, StopPCs,
  Credentials, BeenTracked, Removed, Removing, Goto, Answer, RevokeGoto,
  vars, reqVars, revVars, regVars, devVars, stopVars, limitVars
<1>1. ASSUME NEW r \in Requests, NEW c \in Credentials, Arrive(r, c) PROVE AnswerInv'
  BY <1>1 DEF Arrive
<1>2. ASSUME NEW r \in Requests, RequestStep(r) PROVE AnswerInv'
  BY <1>2 DEF RequestStep, Lookup, Track, ReadTracked, ReadParent, Relookup,
    Dispatch, Release, CheckLimit, CountFailure
<1>3. ASSUME NEW r \in Requests, Finish(r) \/ ClientLeaves(r) \/ EndPropagates(r) PROVE AnswerInv'
  BY <1>3 DEF Finish, ClientLeaves, EndPropagates
<1>4. ASSUME NEW a \in Addresses, BlockEnds(a) \/ FailuresForgotten(a) PROVE AnswerInv'
  BY <1>4 DEF BlockEnds, FailuresForgotten
<1>5. ASSUME NEW d \in Devices, Pair(d) PROVE AnswerInv'
  BY <1>5 DEF Pair
<1>6. ASSUME NEW v \in Revokes, NEW d \in Devices,
         RemoveNotFound(v, d) \/ RemoveFails(v, d) \/ Remove(v, d)
  PROVE  AnswerInv'
  BY <1>6 DEF RemoveNotFound, RemoveFails, Remove
<1>7. ASSUME NEW v \in Revokes, RevokeStep(v) PROVE AnswerInv'
  BY <1>7 DEF RevokeStep, CloseDeviceTake, CloseDeviceCancel, AnswerRevoke
<1>8. CASE BeginStop \/ StopStep
  BY <1>8 DEF BeginStop, StopStep, CloseAllTake, CloseAllCancel, CloseServer
<1>9. CASE UNCHANGED vars
  BY <1>9
<1>. QED
  BY <1>1, <1>2, <1>3, <1>4, <1>5, <1>6, <1>7, <1>8, <1>9 DEF Next

\* The registry is closed from CloseAll on and holds nothing then.
LEMMA StopInvStep == IInv /\ TypeOK' /\ [Next]_vars => StopInv'
<1>. SUFFICES ASSUME TypeOK, StopInv, TypeOK', [Next]_vars
             PROVE  StopInv'
  BY DEF IInv
<1>. USE CredentialsAssumption DEF TypeOK, StopInv,
  ReqPCs, TrackedAt, Answers, RevPCs, StopPCs,
  Credentials, BeenTracked, Removed, Removing, Goto, Answer, RevokeGoto,
  vars, reqVars, revVars, regVars, devVars, stopVars, limitVars
<1>1. ASSUME NEW r \in Requests, NEW c \in Credentials, Arrive(r, c) PROVE StopInv'
  BY <1>1 DEF Arrive
<1>2. ASSUME NEW r \in Requests, RequestStep(r) PROVE StopInv'
  BY <1>2 DEF RequestStep, Lookup, Track, ReadTracked, ReadParent, Relookup,
    Dispatch, Release, CheckLimit, CountFailure
<1>3. ASSUME NEW r \in Requests, Finish(r) \/ ClientLeaves(r) \/ EndPropagates(r) PROVE StopInv'
  BY <1>3 DEF Finish, ClientLeaves, EndPropagates
<1>4. ASSUME NEW a \in Addresses, BlockEnds(a) \/ FailuresForgotten(a) PROVE StopInv'
  BY <1>4 DEF BlockEnds, FailuresForgotten
<1>5. ASSUME NEW d \in Devices, Pair(d) PROVE StopInv'
  BY <1>5 DEF Pair
<1>6. ASSUME NEW v \in Revokes, NEW d \in Devices,
         RemoveNotFound(v, d) \/ RemoveFails(v, d) \/ Remove(v, d)
  PROVE  StopInv'
  BY <1>6 DEF RemoveNotFound, RemoveFails, Remove
<1>7. ASSUME NEW v \in Revokes, RevokeStep(v) PROVE StopInv'
  BY <1>7 DEF RevokeStep, CloseDeviceTake, CloseDeviceCancel, AnswerRevoke
<1>8. CASE BeginStop \/ StopStep
  BY <1>8 DEF BeginStop, StopStep, CloseAllTake, CloseAllCancel, CloseServer
<1>9. CASE UNCHANGED vars
  BY <1>9
<1>. QED
  BY <1>1, <1>2, <1>3, <1>4, <1>5, <1>6, <1>7, <1>8, <1>9 DEF Next

\* Every cancel has its cause: a client, a removal, or the shutdown.
LEMMA EndedForCauseStep == IInv /\ TypeOK' /\ [Next]_vars => EndedForCause'
<1>. SUFFICES ASSUME TypeOK, CredentialInv, ReachInv, RemovalInv, AnswerInv, StopInv, EndedForCause, TypeOK', [Next]_vars
             PROVE  EndedForCause'
  BY DEF IInv
<1>. USE CredentialsAssumption DEF TypeOK, CredentialInv, ReachInv, RemovalInv, AnswerInv, StopInv, EndedForCause,
  ReqPCs, TrackedAt, Answers, RevPCs, StopPCs,
  Credentials, BeenTracked, Removed, Removing, Goto, Answer, RevokeGoto,
  vars, reqVars, revVars, regVars, devVars, stopVars, limitVars
<1>1. ASSUME NEW r \in Requests, NEW c \in Credentials, Arrive(r, c) PROVE EndedForCause'
  BY <1>1 DEF Arrive
<1>2. ASSUME NEW r \in Requests, RequestStep(r) PROVE EndedForCause'
  BY <1>2 DEF RequestStep, Lookup, Track, ReadTracked, ReadParent, Relookup,
    Dispatch, Release, CheckLimit, CountFailure
<1>3. ASSUME NEW r \in Requests, Finish(r) \/ ClientLeaves(r) \/ EndPropagates(r) PROVE EndedForCause'
  BY <1>3 DEF Finish, ClientLeaves, EndPropagates
<1>4. ASSUME NEW a \in Addresses, BlockEnds(a) \/ FailuresForgotten(a) PROVE EndedForCause'
  BY <1>4 DEF BlockEnds, FailuresForgotten
<1>5. ASSUME NEW d \in Devices, Pair(d) PROVE EndedForCause'
  BY <1>5 DEF Pair
<1>6. ASSUME NEW v \in Revokes, NEW d \in Devices,
         RemoveNotFound(v, d) \/ RemoveFails(v, d) \/ Remove(v, d)
  PROVE  EndedForCause'
  BY <1>6 DEF RemoveNotFound, RemoveFails, Remove
<1>7. ASSUME NEW v \in Revokes, RevokeStep(v) PROVE EndedForCause'
  BY <1>7 DEF RevokeStep, CloseDeviceTake, CloseDeviceCancel, AnswerRevoke
<1>8. CASE BeginStop \/ StopStep
  BY <1>8 DEF BeginStop, StopStep, CloseAllTake, CloseAllCancel, CloseServer
<1>9. CASE UNCHANGED vars
  BY <1>9
<1>. QED
  BY <1>1, <1>2, <1>3, <1>4, <1>5, <1>6, <1>7, <1>8, <1>9 DEF Next

\* 503 is answered only to what was marked, and a marked request is dispatched
\* only when the registry is closed.
LEMMA ShutdownToldTrulyStep == IInv /\ TypeOK' /\ [Next]_vars => ShutdownToldTruly'
<1>. SUFFICES ASSUME TypeOK, AnswerInv, StopInv, ShutdownToldTruly, TypeOK', [Next]_vars
             PROVE  ShutdownToldTruly'
  BY DEF IInv
<1>. USE CredentialsAssumption DEF TypeOK, AnswerInv, StopInv, ShutdownToldTruly,
  ReqPCs, TrackedAt, Answers, RevPCs, StopPCs,
  Credentials, BeenTracked, Removed, Removing, Goto, Answer, RevokeGoto,
  vars, reqVars, revVars, regVars, devVars, stopVars, limitVars
<1>1. ASSUME NEW r \in Requests, NEW c \in Credentials, Arrive(r, c) PROVE ShutdownToldTruly'
  BY <1>1 DEF Arrive
<1>2. ASSUME NEW r \in Requests, RequestStep(r) PROVE ShutdownToldTruly'
  BY <1>2 DEF RequestStep, Lookup, Track, ReadTracked, ReadParent, Relookup,
    Dispatch, Release, CheckLimit, CountFailure
<1>3. ASSUME NEW r \in Requests, Finish(r) \/ ClientLeaves(r) \/ EndPropagates(r) PROVE ShutdownToldTruly'
  BY <1>3 DEF Finish, ClientLeaves, EndPropagates
<1>4. ASSUME NEW a \in Addresses, BlockEnds(a) \/ FailuresForgotten(a) PROVE ShutdownToldTruly'
  BY <1>4 DEF BlockEnds, FailuresForgotten
<1>5. ASSUME NEW d \in Devices, Pair(d) PROVE ShutdownToldTruly'
  BY <1>5 DEF Pair
<1>6. ASSUME NEW v \in Revokes, NEW d \in Devices,
         RemoveNotFound(v, d) \/ RemoveFails(v, d) \/ Remove(v, d)
  PROVE  ShutdownToldTruly'
  BY <1>6 DEF RemoveNotFound, RemoveFails, Remove
<1>7. ASSUME NEW v \in Revokes, RevokeStep(v) PROVE ShutdownToldTruly'
  BY <1>7 DEF RevokeStep, CloseDeviceTake, CloseDeviceCancel, AnswerRevoke
<1>8. CASE BeginStop \/ StopStep
  BY <1>8 DEF BeginStop, StopStep, CloseAllTake, CloseAllCancel, CloseServer
<1>9. CASE UNCHANGED vars
  BY <1>9
<1>. QED
  BY <1>1, <1>2, <1>3, <1>4, <1>5, <1>6, <1>7, <1>8, <1>9 DEF Next

\* Only what is not paired gets as far as the limiter.
LEMMA PairedNotLockedOutStep == IInv /\ TypeOK' /\ [Next]_vars => PairedNotLockedOut'
<1>. SUFFICES ASSUME TypeOK, CredentialInv, AnswerInv, PairedNotLockedOut, TypeOK', [Next]_vars
             PROVE  PairedNotLockedOut'
  BY DEF IInv
<1>. USE CredentialsAssumption DEF TypeOK, CredentialInv, AnswerInv, PairedNotLockedOut,
  ReqPCs, TrackedAt, Answers, RevPCs, StopPCs,
  Credentials, BeenTracked, Removed, Removing, Goto, Answer, RevokeGoto,
  vars, reqVars, revVars, regVars, devVars, stopVars, limitVars
<1>1. ASSUME NEW r \in Requests, NEW c \in Credentials, Arrive(r, c) PROVE PairedNotLockedOut'
  BY <1>1 DEF Arrive
<1>2. ASSUME NEW r \in Requests, RequestStep(r) PROVE PairedNotLockedOut'
  BY <1>2 DEF RequestStep, Lookup, Track, ReadTracked, ReadParent, Relookup,
    Dispatch, Release, CheckLimit, CountFailure
<1>3. ASSUME NEW r \in Requests, Finish(r) \/ ClientLeaves(r) \/ EndPropagates(r) PROVE PairedNotLockedOut'
  BY <1>3 DEF Finish, ClientLeaves, EndPropagates
<1>4. ASSUME NEW a \in Addresses, BlockEnds(a) \/ FailuresForgotten(a) PROVE PairedNotLockedOut'
  BY <1>4 DEF BlockEnds, FailuresForgotten
<1>5. ASSUME NEW d \in Devices, Pair(d) PROVE PairedNotLockedOut'
  BY <1>5 DEF Pair
<1>6. ASSUME NEW v \in Revokes, NEW d \in Devices,
         RemoveNotFound(v, d) \/ RemoveFails(v, d) \/ Remove(v, d)
  PROVE  PairedNotLockedOut'
  BY <1>6 DEF RemoveNotFound, RemoveFails, Remove
<1>7. ASSUME NEW v \in Revokes, RevokeStep(v) PROVE PairedNotLockedOut'
  BY <1>7 DEF RevokeStep, CloseDeviceTake, CloseDeviceCancel, AnswerRevoke
<1>8. CASE BeginStop \/ StopStep
  BY <1>8 DEF BeginStop, StopStep, CloseAllTake, CloseAllCancel, CloseServer
<1>9. CASE UNCHANGED vars
  BY <1>9
<1>. QED
  BY <1>1, <1>2, <1>3, <1>4, <1>5, <1>6, <1>7, <1>8, <1>9 DEF Next

---------------------------------------------------------------------------

\* The invariant holds when the agent starts.
LEMMA InitInv == Init => IInv
<1>. SUFFICES ASSUME Init PROVE IInv
  OBVIOUS
<1>. USE CredentialsAssumption DEF Init
<1>1. TypeOK
  <2>1. failed \in [Addresses -> 0..Threshold]
    BY ThresholdAssumption
  <2>2. toCancel \in [Revokes -> SUBSET Requests]
    OBVIOUS
  <2>. QED
    BY <2>1, <2>2 DEF TypeOK, ReqPCs, TrackedAt, Answers, RevPCs, StopPCs, Credentials
<1>2. CredentialInv /\ ReachInv /\ RemovalInv /\ SecondLookupInv
  BY DEF CredentialInv, ReachInv, RemovalInv, SecondLookupInv, TrackedAt, Removing
<1>3. AnswerInv /\ StopInv /\ EndedForCause /\ ShutdownToldTruly /\ PairedNotLockedOut
  BY DEF AnswerInv, StopInv, EndedForCause, ShutdownToldTruly, PairedNotLockedOut, TrackedAt
<1>. QED
  BY <1>1, <1>2, <1>3 DEF IInv

\* Every step keeps the invariant.
LEMMA StepInv == IInv /\ [Next]_vars => IInv'
<1>. SUFFICES ASSUME IInv, [Next]_vars PROVE IInv'
  OBVIOUS
<1>1. TypeOK'
  BY TypeStep DEF IInv
<1>2. CredentialInv' /\ ReachInv' /\ RemovalInv' /\ SecondLookupInv' /\ AnswerInv'
  BY <1>1, CredentialInvStep, ReachInvStep, RemovalInvStep, SecondLookupInvStep,
     AnswerInvStep
<1>3. StopInv' /\ EndedForCause' /\ ShutdownToldTruly' /\ PairedNotLockedOut'
  BY <1>1, StopInvStep, EndedForCauseStep, ShutdownToldTrulyStep,
     PairedNotLockedOutStep
<1>. QED
  BY <1>1, <1>2, <1>3 DEF IInv

\* The invariant holds in every state of every behaviour.
THEOREM Invariance == Spec => []IInv
  BY InitInv, StepInv, PTL DEF Spec

\* The variables keep their types.
THEOREM TypeCorrect == Spec => []TypeOK
<1>1. IInv => TypeOK
  BY DEF IInv
<1>. QED
  BY <1>1, Invariance, PTL

\* Once a revocation is answered, nothing is served to the removed device on a
\* live context. Removing(v) is unique per device (RemovalInv), so the
\* CloseDevice a request could still wait for (SecondLookupInv), or the one
\* that holds it (ReachInv), is that of v itself, and v is past both.
THEOREM RevocationIsComplete == Spec => []RevokedIsCutOff
<1>1. IInv => RevokedIsCutOff
  <2>. SUFFICES ASSUME IInv, NEW v \in Revokes, NEW r \in Requests,
                       rpc[v] = "revoked", cred[r] = target[v], pc[r] = "serving",
                       r \notin ended \cup stopCancel
                PROVE  FALSE
    BY DEF RevokedIsCutOff
  <2>1. Removed(r) /\ Removing(v)
    BY CredentialsAssumption DEF IInv, RemovalInv, Removing, Removed, TypeOK
  <2>2. r \in open \/ \E w \in Revokes : r \in toCancel[w]
    BY DEF IInv, ReachInv, TrackedAt
  <2>3. CASE r \in open
    <3>1. PICK w \in Revokes : rpc[w] = "close" /\ target[w] = cred[r]
      BY <2>1, <2>3 DEF IInv, SecondLookupInv
    <3>. QED
      BY <2>1, <3>1 DEF IInv, RemovalInv, Removing
  <2>4. ASSUME NEW w \in Revokes, r \in toCancel[w] PROVE FALSE
    <3>1. rpc[w] = "cancel" /\ target[w] = cred[r]
      BY <2>4 DEF IInv, ReachInv
    <3>. QED
      BY <2>1, <3>1 DEF IInv, RemovalInv, Removing
  <2>. QED
    BY <2>2, <2>3, <2>4
<1>. QED
  BY <1>1, Invariance, PTL

\* A context ends for one of the three reasons, and for no other.
THEOREM EndsHaveCauses == Spec => []EndedForCause
<1>1. IInv => EndedForCause
  BY DEF IInv
<1>. QED
  BY <1>1, Invariance, PTL

\* 503 is the truth.
THEOREM ShutdownAnswersAreTrue == Spec => []ShutdownToldTruly
<1>1. IInv => ShutdownToldTruly
  BY DEF IInv
<1>. QED
  BY <1>1, Invariance, PTL

\* No paired device is refused, whatever its address has done.
THEOREM PairedDevicesPass == Spec => []PairedNotLockedOut
<1>1. IInv => PairedNotLockedOut
  BY DEF IInv
<1>. QED
  BY <1>1, Invariance, PTL

\* The registry holds only requests that are not over, and none once closed.
THEOREM RegistryIsBounded == Spec => []NothingLeaks
<1>1. IInv => NothingLeaks
  BY DEF IInv, NothingLeaks, ReachInv, StopInv
<1>. QED
  BY <1>1, Invariance, PTL

\* Stopping the agent leaves nothing served on a live context.
THEOREM StoppingIsComplete == Spec => []StopEndsEverything
<1>1. IInv => StopEndsEverything
  BY DEF IInv, StopEndsEverything, ReachInv, StopInv, TrackedAt
<1>. QED
  BY <1>1, Invariance, PTL

---------------------------------------------------------------------------
(* AgentAccess is AccessControl.                                           *)

\* A device stands where its pairing, its removal and the answer to that put it.
LEMMA StandingIs ==
  ASSUME IInv, NEW d \in Devices
  PROVE  /\ Standing(d) = "none" <=> d \notin issued
         /\ Standing(d) = "paired" <=> d \in paired
         /\ Standing(d) = "gone" <=> \E v \in Revokes : rpc[v] = "revoked" /\ target[v] = d
         /\ Standing(d) \in {"none", "paired", "gone", "removed"}
<1>1. paired \subseteq issued
  BY DEF IInv, TypeOK
<1>2. \A v \in Revokes : rpc[v] = "revoked" => target[v] \in issued \ paired
  BY DEF IInv, RemovalInv, Removing
<1>. QED
  BY <1>1, <1>2 DEF Standing

\* It stands there as long as neither the list nor an answer changes that.
LEMMA StandingKept ==
  ASSUME UNCHANGED devVars,
         \A v \in Revokes :
           \/ rpc'[v] = rpc[v] /\ target'[v] = target[v]
           \/ rpc[v] # "revoked" /\ rpc'[v] # "revoked"
  PROVE  \A d : Standing(d)' = Standing(d)
<1>1. \A d : (\E v \in Revokes : rpc'[v] = "revoked" /\ target'[v] = d)
               <=> (\E v \in Revokes : rpc[v] = "revoked" /\ target[v] = d)
  OBVIOUS
<1>. QED
  BY <1>1 DEF Standing, devVars

\* What AccessControl says of a request's device, in the terms of AgentAccess.
LEMMA StandsIs ==
  ASSUME NEW r \in Requests, NEW where
  PROVE  Access!Stands(r, where) <=> cred[r] \in Devices /\ Standing(cred[r]) \in where
  BY DEF Access!Stands

\* A request that passed the second lookup and has not been ended: nobody has
\* been told that its device is gone, and if the registry does not hold it any
\* more, a removal is about to end it.
LEMMA AliveStands ==
  ASSUME IInv, NEW r \in Requests, pc[r] \in {"dispatch", "serving"},
         r \notin ended \cup stopCancel
  PROVE  /\ cred[r] \in Devices => Standing(cred[r]) \in {"paired", "removed"}
         /\ r \notin open => cred[r] \in Devices /\ Standing(cred[r]) = "removed"
<1>1. r \in open \/ \E v \in Revokes : r \in toCancel[v]
  BY DEF IInv, ReachInv, TrackedAt
<1>2. cred[r] \in Devices => cred[r] \in issued
  BY DEF IInv, CredentialInv
<1>3. ASSUME NEW v \in Revokes, rpc[v] \in {"close", "cancel"}, target[v] = cred[r]
      PROVE  cred[r] \in Devices /\ Standing(cred[r]) = "removed"
  <2>1. cred[r] \in issued \ paired /\ issued \subseteq Devices
    BY <1>3 DEF IInv, TypeOK, RemovalInv, Removing
  <2>2. \A w \in Revokes : ~(rpc[w] = "revoked" /\ target[w] = cred[r])
    BY <1>3 DEF IInv, RemovalInv, Removing
  <2>. QED
    BY <2>1, <2>2 DEF Standing
<1>4. CASE r \in open
  <2>1. CASE Removed(r)
    <3>1. PICK v \in Revokes : rpc[v] = "close" /\ target[v] = cred[r]
      BY <1>4, <2>1 DEF IInv, SecondLookupInv
    <3>. QED
      BY <1>3, <1>4, <3>1
  <2>2. CASE cred[r] \in paired
    <3>1. cred[r] \in Devices => Standing(cred[r]) = "paired"
      BY <2>2, StandingIs
    <3>. QED
      BY <1>4, <3>1
  <2>3. CASE cred[r] \notin Devices
    BY <1>4, <2>3
  <2>. QED
    BY <2>1, <2>2, <2>3 DEF Removed
<1>5. ASSUME NEW v \in Revokes, r \in toCancel[v]
      PROVE  cred[r] \in Devices /\ Standing(cred[r]) = "removed"
  <2>1. rpc[v] = "cancel" /\ cred[r] = target[v]
    BY <1>5 DEF IInv, ReachInv
  <2>. QED
    BY <1>3, <2>1
<1>. QED
  BY <1>1, <1>4, <1>5

\* One request goes on, and nothing else can be seen of the step.
LEMMA Moves ==
  ASSUME NEW r \in Requests, NEW from, NEW to, Phase(r) \in from,
         \A q \in Requests : Phase(q)' = IF q = r THEN to ELSE Phase(q),
         \A d \in Devices : Standing(d)' = Standing(d),
         UNCHANGED <<cred, gone, closed>>
  PROVE  Access!Becomes(r, from, to)
  BY DEF Access!Becomes

\* And nothing at all.
LEMMA Unseen ==
  ASSUME \A q \in Requests : Phase(q)' = Phase(q),
         \A d \in Devices : Standing(d)' = Standing(d),
         UNCHANGED <<cred, gone, closed>>
  PROVE  UNCHANGED Access!vars
  BY DEF Access!vars

\* AccessControl begins as the agent does: nobody paired, nothing sent, not stopped.
LEMMA AccessInit == Init => Access!Init
<1>. SUFFICES ASSUME Init PROVE Access!Init
  OBVIOUS
<1>1. \A d \in Devices : Standing(d) = "none"
  BY DEF Init, Standing
<1>2. ASSUME NEW r \in Requests PROVE Phase(r) = "new"
  <2>1. pc[r] = "idle"
    BY DEF Init
  <2>. QED
    BY <2>1 DEF Phase
<1>. QED
  BY <1>1, <1>2 DEF Init, Access!Init

\* The steps of a request.
LEMMA RequestAccessStep ==
  ASSUME IInv, NEW r \in Requests, RequestStep(r) \/ Finish(r)
  PROVE  Access!Next \/ UNCHANGED Access!vars
<1>1. /\ UNCHANGED <<cred, gone, closed, paired, issued, rpc, target, stopCancel>>
      /\ \A d \in Devices : Standing(d)' = Standing(d)
  <2>1. UNCHANGED <<cred, gone, closed, devVars, rpc, target, stopCancel>>
    BY Zenon DEF RequestStep, Lookup, Track, ReadTracked, ReadParent, Relookup, Dispatch, Release,
           CheckLimit, CountFailure, Finish, revVars, regVars, stopVars
  <2>. QED
    BY <2>1, StandingKept DEF devVars
<1>2. pc \in [Requests -> ReqPCs] /\ answer \in [Requests -> Answers]
  BY DEF IInv, TypeOK
<1>3. CASE /\ pc[r] \notin {"idle", "serving"} /\ pc'[r] \notin {"idle", "serving"}
           /\ \A q \in Requests : q # r => pc'[q] = pc[q] /\ (q \in ended' <=> q \in ended)
           /\ answer' = answer
  <2>1. \A q \in Requests : Phase(q)' = Phase(q)
    BY <1>1, <1>2, <1>3 DEF Phase, Answers
  <2>. QED
    BY <1>1, <2>1, Unseen
<1>4. CASE Lookup(r) \/ Track(r) \/ ReadTracked(r) \/ ReadParent(r) \/ Relookup(r) \/ Release(r)
  BY <1>2, <1>3, <1>4 DEF Lookup, Track, ReadTracked, ReadParent, Relookup, Release, Goto
<1>5. CASE CheckLimit(r) /\ addr[r] \notin blocked
  BY <1>2, <1>3, <1>5 DEF CheckLimit, Goto
<1>6. ASSUME NEW to \in {"live", "cut", "done", "refused", "unavailable"}, NEW from, Phase(r) \in from,
             Phase(r)' = to, UNCHANGED ended,
             \A q \in Requests : q # r => pc'[q] = pc[q] /\ answer'[q] = answer[q]
      PROVE  Access!Becomes(r, from, to)
  <2>1. \A q \in Requests : Phase(q)' = IF q = r THEN to ELSE Phase(q)
    BY <1>1, <1>2, <1>6 DEF Phase, Answers
  <2>. QED
    BY <1>1, <1>6, <2>1, Moves
<1>7. pc[r] \in {"limiter", "fail", "dispatch"} => Phase(r) = "waiting"
  BY DEF Phase, IInv, AnswerInv
<1>8. CASE (CheckLimit(r) /\ addr[r] \in blocked) \/ CountFailure(r)
  <2>1. /\ pc[r] \in {"limiter", "fail"} /\ pc' = [pc EXCEPT ![r] = "done"]
        /\ answer'[r] \in {"401", "429"} /\ UNCHANGED ended
        /\ \A q \in Requests : q # r => pc'[q] = pc[q] /\ answer'[q] = answer[q]
    <3>1. CASE CheckLimit(r) /\ addr[r] \in blocked
      <4>1. /\ pc[r] = "limiter" /\ pc' = [pc EXCEPT ![r] = "done"] /\ UNCHANGED ended
            /\ answer' = [answer EXCEPT ![r] = "429"]
        BY <3>1, Zenon DEF CheckLimit, Goto, Answer
      <4>. QED
        BY <1>2, <3>1, <4>1
    <3>2. CASE CountFailure(r)
      <4>1. /\ pc[r] = "fail" /\ pc' = [pc EXCEPT ![r] = "done"] /\ UNCHANGED ended
            /\ answer' = [answer EXCEPT ![r] = "401"]
        BY <3>2, Zenon DEF CountFailure, Goto, Answer
      <4>. QED
        BY <1>2, <4>1
    <3>. QED
      BY <1>8, <3>1, <3>2
  <2>2. Phase(r)' = "refused"
    BY <1>2, <2>1 DEF Phase
  <2>3. ~Access!Stands(r, {"paired"})
    BY <2>1, StandsIs, StandingIs DEF IInv, AnswerInv
  <2>4. Access!Becomes(r, {"waiting"}, "refused")
    BY <1>6, <1>7, <2>1, <2>2
  <2>5. Access!Refuse(r)
    BY <2>3, <2>4 DEF Access!Refuse
  <2>. QED
    BY <2>5 DEF Access!Next
<1>9. CASE Dispatch(r) /\ r \in marked
  <2>1. /\ pc[r] = "dispatch" /\ pc' = [pc EXCEPT ![r] = "release"]
        /\ answer' = [answer EXCEPT ![r] = "503"] /\ UNCHANGED ended
    BY <1>9 DEF Dispatch, Goto, Answer
  <2>2. Phase(r)' = "unavailable"
    BY <1>2, <2>1 DEF Phase
  <2>3. Access!Becomes(r, {"waiting"}, "unavailable")
    BY <1>2, <1>6, <1>7, <2>1, <2>2
  <2>4. Access!Unavailable(r)
    BY <1>9, <2>1, <2>3 DEF Access!Unavailable, IInv, AnswerInv
  <2>. QED
    BY <2>4 DEF Access!Next
<1>10. CASE Dispatch(r) /\ r \notin marked
  <2>1. /\ pc[r] = "dispatch" /\ pc' = [pc EXCEPT ![r] = "serving"]
        /\ answer' = [answer EXCEPT ![r] = "served"] /\ UNCHANGED ended
    BY <1>10 DEF Dispatch, Goto, Answer
  <2>2. cred[r] \in Accepted
    BY <2>1 DEF IInv, AnswerInv, TrackedAt
  <2>3. CASE r \in ended \cup stopCancel
    <3>1. Phase(r)' = "cut"
      <4>1. pc'[r] = "serving" /\ r \in ended' \cup stopCancel'
        BY <1>1, <1>2, <2>1, <2>3
      <4>. QED
        BY <4>1 DEF Phase
    <3>2. Access!Becomes(r, {"waiting"}, "cut")
      BY <1>2, <1>6, <1>7, <2>1, <3>1
    <3>3. Access!Cause(r)
      <4>1. r \in gone \/ closed \/ cred[r] \in Devices \ paired
        BY <2>1, <2>3 DEF IInv, EndedForCause, StopInv, TrackedAt
      <4>2. cred[r] \in Devices \ paired => Standing(cred[r]) \in {"removed", "gone"}
        BY StandingIs DEF IInv, CredentialInv
      <4>. QED
        BY <4>1, <4>2, StandsIs DEF Access!Cause
    <3>4. Access!ServeCut(r)
      BY <2>2, <3>2, <3>3 DEF Access!ServeCut
    <3>. QED
      BY <3>4 DEF Access!Next
  <2>4. CASE r \notin ended \cup stopCancel
    <3>1. Phase(r)' = "live"
      <4>1. pc'[r] = "serving" /\ r \notin ended' \cup stopCancel'
        BY <1>1, <1>2, <2>1, <2>4
      <4>. QED
        BY <4>1 DEF Phase
    <3>2. Access!Becomes(r, {"waiting"}, "live")
      BY <1>2, <1>6, <1>7, <2>1, <3>1
    <3>3. /\ cred[r] \in Devices => Standing(cred[r]) \in {"paired", "removed"}
          /\ closed => cred[r] \in Devices /\ Standing(cred[r]) = "removed"
      BY <2>1, <2>4, AliveStands DEF IInv, StopInv
    <3>4. Access!Serve(r)
      BY <2>2, <3>2, <3>3, StandsIs DEF Access!Serve
    <3>. QED
      BY <3>4 DEF Access!Next
  <2>. QED
    BY <2>3, <2>4
<1>11. CASE Finish(r)
  <2>1. /\ pc[r] = "serving" /\ pc' = [pc EXCEPT ![r] = "release"] /\ answer[r] = "served"
        /\ UNCHANGED <<answer, ended>>
    BY <1>11 DEF Finish, Goto, IInv, AnswerInv
  <2>2. Phase(r) \in {"live", "cut"} /\ Phase(r)' = "done"
    <3>1. pc'[r] = "release" /\ answer'[r] = "served"
      BY <1>2, <2>1
    <3>. QED
      BY <2>1, <3>1 DEF Phase
  <2>3. Access!Finish(r)
    BY <1>2, <1>6, <2>1, <2>2 DEF Access!Finish
  <2>. QED
    BY <2>3 DEF Access!Next
<1>. QED
  BY <1>4, <1>5, <1>8, <1>9, <1>10, <1>11 DEF RequestStep

\* The phases stay while places, answers and the set of ended requests do.
LEMMA PhasesKept ==
  ASSUME IInv, UNCHANGED <<pc, answer>>, UNCHANGED (ended \cup stopCancel)
  PROVE  \A q \in Requests : Phase(q)' = Phase(q)
<1>1. \A q \in Requests : answer[q] \in Answers
  BY DEF IInv, TypeOK
<1>2. \A q : q \in ended' \cup stopCancel' <=> q \in ended \cup stopCancel
  OBVIOUS
<1>. QED
  BY <1>1, <1>2 DEF Phase, Answers

\* A request is ended, served or not, and nothing else can be seen of the step.
LEMMA EndAccessStep ==
  ASSUME IInv, NEW r \in Requests, UNCHANGED <<pc, answer, stopCancel>>, ended' = ended \cup {r},
         \A d \in Devices : Standing(d)' = Standing(d), UNCHANGED <<cred, gone, closed>>,
         r \in gone \/ r \in stopCancel \/ (cred[r] \in Devices /\ Standing(cred[r]) \in {"removed", "gone"})
  PROVE  Access!Next \/ UNCHANGED Access!vars
<1>1. \A q \in Requests : answer[q] \in Answers
  BY DEF IInv, TypeOK
<1>2. CASE pc[r] = "serving" /\ r \notin ended \cup stopCancel
  <2>1. Phase(r) \in {"live"} /\ \A q \in Requests : Phase(q)' = IF q = r THEN "cut" ELSE Phase(q)
    BY <1>1, <1>2 DEF Phase, Answers
  <2>2. Access!Cause(r)
    BY <1>2, StandsIs DEF Access!Cause
  <2>3. Access!Becomes(r, {"live"}, "cut")
    BY <2>1, Moves
  <2>4. Access!Cut(r)
    BY <2>2, <2>3 DEF Access!Cut
  <2>. QED
    BY <2>4 DEF Access!Next
<1>3. CASE ~(pc[r] = "serving" /\ r \notin ended \cup stopCancel)
  <2>1. \A q \in Requests : Phase(q)' = Phase(q)
    BY <1>1, <1>3 DEF Phase, Answers
  <2>. QED
    BY <2>1, Unseen
<1>. QED
  BY <1>2, <1>3

\* The context of a client that has left ends.
LEMMA PropagateAccessStep ==
  ASSUME IInv, NEW r \in Requests, EndPropagates(r)
  PROVE  Access!Next \/ UNCHANGED Access!vars
<1>1. /\ UNCHANGED <<pc, answer, stopCancel>> /\ UNCHANGED <<cred, gone, closed>>
      /\ ended' = ended \cup {r} /\ r \in gone
  BY DEF EndPropagates, regVars, stopVars
<1>2. \A d \in Devices : Standing(d)' = Standing(d)
  BY StandingKept DEF EndPropagates, revVars
<1>. QED
  BY <1>1, <1>2, EndAccessStep

\* The steps that pairing and removing take.
LEMMA DeviceAccessStep ==
  ASSUME IInv, IInv',
         \/ \E d \in Devices : Pair(d)
         \/ \E v \in Revokes :
              \/ \E d \in Devices : RemoveNotFound(v, d) \/ RemoveFails(v, d) \/ Remove(v, d)
              \/ RevokeStep(v)
  PROVE  Access!Next \/ UNCHANGED Access!vars
<1>1. /\ rpc \in [Revokes -> RevPCs] /\ target \in [Revokes -> Devices \cup {Nobody}]
      /\ paired \subseteq issued
  BY DEF IInv, TypeOK
<1>2. ASSUME NEW d \in Devices, Pair(d) PROVE Access!Pair(d)
  <2>1. \A e \in Devices : Standing(e)' = IF e = d THEN "paired" ELSE Standing(e)
    BY <1>1, <1>2 DEF Pair, Standing, revVars
  <2>2. Standing(d) = "none"
    BY <1>2 DEF Pair, Standing
  <2>3. /\ UNCHANGED <<cred, gone, closed>> /\ \A q \in Requests : Phase(q)' = Phase(q)
    BY <1>2, PhasesKept DEF Pair, reqVars, regVars, stopVars
  <2>. QED
    BY <2>1, <2>2, <2>3 DEF Access!Pair
<1>3. ASSUME NEW v \in Revokes, NEW d \in Devices, RemoveNotFound(v, d) \/ RemoveFails(v, d)
      PROVE  UNCHANGED Access!vars
  <2>1. \A e \in Devices : Standing(e)' = Standing(e)
    <3>1. /\ rpc[v] = "idle" /\ rpc'[v] \in {"notFound", "failed"} /\ UNCHANGED devVars
          /\ \A w \in Revokes : w # v => rpc'[w] = rpc[w] /\ target'[w] = target[w]
      BY <1>1, <1>3 DEF RemoveNotFound, RemoveFails, RevokeGoto
    <3>. QED
      BY <3>1, StandingKept
  <2>2. /\ UNCHANGED <<cred, gone, closed>> /\ \A q \in Requests : Phase(q)' = Phase(q)
    BY <1>3, PhasesKept DEF RemoveNotFound, RemoveFails, reqVars, regVars, stopVars
  <2>. QED
    BY <2>1, <2>2, Unseen
<1>4. ASSUME NEW v \in Revokes, NEW d \in Devices, Remove(v, d) PROVE Access!Remove(d)
  <2>1. /\ rpc[v] = "idle" /\ rpc'[v] = "close" /\ paired' = paired \ {d} /\ d \in paired
        /\ UNCHANGED <<issued, cred, gone, closed>>
        /\ \A w \in Revokes : w # v => rpc'[w] = rpc[w] /\ target'[w] = target[w]
    BY <1>1, <1>4 DEF Remove, RevokeGoto, reqVars, regVars
  <2>2. \A e \in Devices : (\E w \in Revokes : rpc'[w] = "revoked" /\ target'[w] = e)
                             <=> (\E w \in Revokes : rpc[w] = "revoked" /\ target[w] = e)
    BY <2>1
  <2>3. \A w \in Revokes : ~(rpc[w] = "revoked" /\ target[w] = d)
    BY <2>1 DEF IInv, RemovalInv, Removing
  <2>4. \A e \in Devices : Standing(e)' = IF e = d THEN "removed" ELSE Standing(e)
    BY <1>1, <2>1, <2>2, <2>3 DEF Standing
  <2>5. Standing(d) = "paired"
    BY <1>1, <2>1 DEF Standing
  <2>6. \A q \in Requests : Phase(q)' = Phase(q)
    BY <1>4, PhasesKept DEF Remove, reqVars, stopVars
  <2>. QED
    BY <2>1, <2>4, <2>5, <2>6 DEF Access!Remove
<1>5. ASSUME NEW v \in Revokes, CloseDeviceTake(v) PROVE UNCHANGED Access!vars
  <2>1. \A e \in Devices : Standing(e)' = Standing(e)
    <3>1. /\ rpc[v] = "close" /\ rpc' = [rpc EXCEPT ![v] = "cancel"]
          /\ UNCHANGED devVars /\ target' = target
      BY <1>5 DEF CloseDeviceTake, RevokeGoto
    <3>. QED
      BY <1>1, <3>1, StandingKept
  <2>2. /\ UNCHANGED <<cred, gone, closed>> /\ \A q \in Requests : Phase(q)' = Phase(q)
    BY <1>5, PhasesKept DEF CloseDeviceTake, reqVars, stopVars
  <2>. QED
    BY <2>1, <2>2, Unseen
<1>6. ASSUME NEW v \in Revokes, CloseDeviceCancel(v) PROVE Access!Next \/ UNCHANGED Access!vars
  <2>1. PICK r \in toCancel[v] : ended' = ended \cup {r}
    BY <1>6 DEF CloseDeviceCancel
  <2>2. /\ r \in Requests /\ cred[r] \in Devices /\ cred[r] \in issued \ paired
    <3>1. toCancel[v] \subseteq Requests /\ issued \subseteq Devices
      BY DEF IInv, TypeOK
    <3>2. rpc[v] = "cancel" /\ cred[r] = target[v]
      BY <2>1, <3>1 DEF IInv, ReachInv
    <3>3. target[v] \in issued \ paired
      BY <3>2 DEF IInv, RemovalInv, Removing
    <3>. QED
      BY <3>1, <3>2, <3>3
  <2>3. UNCHANGED <<pc, answer, stopCancel, cred, gone, closed, devVars, rpc, target>>
    BY <1>6, Zenon DEF CloseDeviceCancel, regVars, stopVars
  <2>4. \A d \in Devices : Standing(d)' = Standing(d)
    BY <2>3, StandingKept
  <2>5. Standing(cred[r]) \in {"removed", "gone"}
    BY <2>2, StandingIs
  <2>. QED
    BY <2>1, <2>2, <2>3, <2>4, <2>5, EndAccessStep
<1>7. ASSUME NEW v \in Revokes, AnswerRevoke(v) PROVE Access!Confirm(target[v])
  <2>1. /\ rpc[v] = "cancel" /\ rpc' = [rpc EXCEPT ![v] = "revoked"] /\ toCancel[v] = {}
        /\ UNCHANGED <<pc, answer, ended, stopCancel, cred, gone, closed, issued, paired, target>>
    BY <1>7, Zenon DEF AnswerRevoke, RevokeGoto, reqVars, regVars, devVars, stopVars
  <2>2. target[v] \in issued \ paired /\ target[v] \in Devices
    BY <2>1 DEF IInv, TypeOK, RemovalInv, Removing
  <2>3. \A w \in Revokes : w # v => ~(Removing(w) /\ target[w] = target[v])
    BY <2>1 DEF IInv, RemovalInv, Removing
  <2>4. Standing(target[v]) = "removed"
    BY <2>1, <2>2, <2>3 DEF Standing, Removing
  <2>5. \A w \in Revokes : rpc'[w] = IF w = v THEN "revoked" ELSE rpc[w]
    BY <1>1, <2>1
  <2>6. \A e \in Devices : (\E w \in Revokes : rpc'[w] = "revoked" /\ target'[w] = e)
          <=> e = target[v] \/ \E w \in Revokes : rpc[w] = "revoked" /\ target[w] = e
    BY <2>1, <2>5
  <2>7. \A e \in Devices : Standing(e)' = IF e = target[v] THEN "gone" ELSE Standing(e)
    BY <2>1, <2>2, <2>6 DEF Standing
  <2>8. ASSUME NEW r \in Requests, cred[r] = target[v] PROVE Phase(r) # "live"
    <3>1. SUFFICES ASSUME pc[r] = "serving", r \notin ended \cup stopCancel PROVE FALSE
      BY DEF Phase, IInv, TypeOK, Answers
    <3>2. r \in open \/ \E w \in Revokes : r \in toCancel[w]
      BY <3>1 DEF IInv, ReachInv, TrackedAt
    <3>3. CASE r \in open
      <4>1. PICK w \in Revokes : rpc[w] = "close" /\ target[w] = cred[r]
        BY <2>2, <2>8, <3>1, <3>3 DEF IInv, SecondLookupInv, Removed
      <4>. QED
        BY <2>1, <2>3, <2>8, <4>1 DEF Removing
    <3>4. ASSUME NEW w \in Revokes, r \in toCancel[w] PROVE FALSE
      <4>1. rpc[w] = "cancel" /\ target[w] = cred[r]
        BY <3>4 DEF IInv, ReachInv
      <4>. QED
        BY <2>1, <2>3, <2>8, <3>4, <4>1 DEF Removing
    <3>. QED
      BY <3>2, <3>3, <3>4
  <2>9. \A q \in Requests : Phase(q)' = Phase(q)
    BY <2>1, PhasesKept
  <2>. QED
    BY <2>1, <2>2, <2>4, <2>7, <2>8, <2>9 DEF Access!Confirm
<1>8. ASSUME NEW v \in Revokes, RevokeStep(v) PROVE Access!Next \/ UNCHANGED Access!vars
  <2>1. ASSUME AnswerRevoke(v) PROVE target[v] \in Devices
    BY <2>1 DEF AnswerRevoke, IInv, TypeOK, RemovalInv, Removing
  <2>. QED
    BY <1>5, <1>6, <1>7, <1>8, <2>1 DEF RevokeStep, Access!Next
<1>. QED
  BY <1>2, <1>3, <1>4, <1>8 DEF Access!Next

\* The steps of the shutdown.
LEMMA StopAccessStep ==
  ASSUME IInv, BeginStop \/ StopStep
  PROVE  Access!Next \/ UNCHANGED Access!vars
<1>1. /\ UNCHANGED <<pc, answer, cred, gone>>
      /\ \A d \in Devices : Standing(d)' = Standing(d)
  <2>1. UNCHANGED <<pc, answer, cred, gone, devVars, rpc, target>>
    BY DEF BeginStop, StopStep, CloseAllTake, CloseAllCancel, CloseServer, reqVars, revVars
  <2>. QED
    BY <2>1, StandingKept
<1>2. CASE BeginStop \/ CloseAllCancel \/ CloseServer
  <2>1. UNCHANGED closed /\ UNCHANGED (ended \cup stopCancel)
    BY <1>2 DEF BeginStop, CloseAllCancel, CloseServer, reqVars, regVars
  <2>. QED
    BY <1>1, <2>1, PhasesKept, Unseen
<1>3. CASE CloseAllTake
  <2>. DEFINE rest == {r \in Requests : r \notin open /\ Access!Stands(r, {"removed"})}
  <2>1. ~closed /\ closed' = TRUE /\ stopCancel = {} /\ stopCancel' = open /\ ended' = ended
    BY <1>3 DEF CloseAllTake, reqVars, IInv, StopInv
  <2>2. \A r \in Requests : answer[r] \in Answers
    BY DEF IInv, TypeOK
  <2>3. ASSUME NEW r \in Requests
        PROVE  Phase(r)' = IF Phase(r) = "live" /\ r \notin rest THEN "cut" ELSE Phase(r)
    <3>1. CASE Phase(r) = "live"
      <4>1. pc[r] = "serving" /\ r \notin ended \cup stopCancel
        BY <2>2, <3>1 DEF Phase, Answers
      <4>2. r \in rest <=> r \notin open
        BY <4>1, AliveStands, StandsIs
      <4>. QED
        BY <1>1, <2>1, <3>1, <4>1, <4>2 DEF Phase
    <3>2. CASE Phase(r) # "live"
      BY <1>1, <2>1, <2>2, <3>2 DEF Phase, Answers
    <3>. QED
      BY <3>1, <3>2
  <2>4. rest \in SUBSET {r \in Requests : Access!Stands(r, {"removed"})}
    OBVIOUS
  <2>. HIDE DEF rest
  <2>5. Access!Stop
    BY <1>1, <2>1, <2>3, <2>4 DEF Access!Stop
  <2>. QED
    BY <2>5 DEF Access!Next
<1>. QED
  BY <1>2, <1>3 DEF StopStep

\* Every step is one of AccessControl, or changes nothing that can be seen of it.
LEMMA AccessStep == IInv /\ IInv' /\ [Next]_vars => [Access!Next]_(Access!vars)
<1>. SUFFICES ASSUME IInv, IInv', [Next]_vars PROVE Access!Next \/ UNCHANGED Access!vars
  OBVIOUS
<1>1. ASSUME NEW r \in Requests, NEW c \in Credentials, Arrive(r, c) PROVE Access!Send(r, c)
  <2>1. /\ pc[r] = "idle" /\ answer[r] = "none"
        /\ c \in Devices => c \in issued
        /\ cred' = [cred EXCEPT ![r] = c]
        /\ UNCHANGED <<gone, closed, devVars, rpc, target, answer, ended, stopCancel>>
    BY <1>1 DEF Arrive, revVars, regVars, stopVars, IInv, CredentialInv
  <2>2. /\ pc'[r] \in {"lookup", "limiter"} /\ \A q \in Requests : q # r => pc'[q] = pc[q]
        /\ \A q \in Requests : answer[q] \in Answers
    BY <1>1 DEF Arrive, Goto, IInv, TypeOK
  <2>3. Phase(r) = "new" /\ \A q \in Requests : Phase(q)' = IF q = r THEN "waiting" ELSE Phase(q)
    BY <2>1, <2>2 DEF Phase, Answers
  <2>4. \A d \in Devices : Standing(d)' = Standing(d)
    BY <2>1, StandingKept
  <2>5. c \in Devices => Standing(c) # "none"
    BY <2>1, StandingIs
  <2>. QED
    BY <2>1, <2>3, <2>4, <2>5 DEF Access!Send
<1>2. ASSUME NEW r \in Requests, ClientLeaves(r) PROVE Access!Leave(r)
  <2>1. /\ gone' = gone \cup {r}
        /\ UNCHANGED <<cred, closed, devVars, rpc, target, pc, answer, ended, stopCancel>>
    BY <1>2 DEF ClientLeaves, revVars, regVars, stopVars
  <2>2. /\ \A d \in Devices : Standing(d)' = Standing(d)
        /\ \A q \in Requests : Phase(q)' = Phase(q)
    BY <2>1, StandingKept, PhasesKept
  <2>. QED
    BY <2>1, <2>2 DEF Access!Leave
<1>3. ASSUME NEW r \in Requests, EndPropagates(r) PROVE Access!Next \/ UNCHANGED Access!vars
  BY <1>3, PropagateAccessStep
<1>4. ASSUME \/ \E a \in Addresses : BlockEnds(a) \/ FailuresForgotten(a)
             \/ UNCHANGED vars
      PROVE  UNCHANGED Access!vars
  <2>1. UNCHANGED <<cred, gone, closed, devVars, rpc, target, pc, answer, ended, stopCancel>>
    BY <1>4 DEF BlockEnds, FailuresForgotten, vars, reqVars, revVars, regVars, stopVars
  <2>2. /\ \A d \in Devices : Standing(d)' = Standing(d)
        /\ \A q \in Requests : Phase(q)' = Phase(q)
    BY <2>1, StandingKept, PhasesKept
  <2>. QED
    BY <2>1, <2>2, Unseen
<1>5. CASE \E r \in Requests, c \in Credentials : Arrive(r, c)
  BY <1>1, <1>5 DEF Access!Next
<1>6. CASE \E r \in Requests : ClientLeaves(r)
  BY <1>2, <1>6 DEF Access!Next
<1>. QED
  BY <1>3, <1>4, <1>5, <1>6, RequestAccessStep, DeviceAccessStep, StopAccessStep DEF Next

\* AgentAccess implements AccessControl, for any number of requests, devices,
\* addresses and revocations: who is served, refused or ended, and why, and that
\* a confirmed removal is the end of its device (Require, CloseDevice, CloseAll).
THEOREM ControlsAccess == Spec => IsAccessControl
<1>1. IInv /\ IInv' /\ [Next]_vars => [Access!Next]_(Access!vars)
  BY AccessStep
<1>. QED
  BY <1>1, AccessInit, Invariance, PTL DEF Spec, IsAccessControl, Access!Spec
=============================================================================
