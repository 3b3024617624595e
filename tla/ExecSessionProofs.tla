-------------------------- MODULE ExecSessionProofs ---------------------------
(* What ExecSession promises, however often a terminal is started and with   *)
(* any set of streams beside it.                                             *)
EXTENDS ExecSession, TLAPS

\* Letting go of the channel keeps the calls in their types.
LEMMA Releases ==
  ASSUME CallTypeOK, channel \in Starts \cup {0}, ReleaseChannel
  PROVE  CallTypeOK' /\ channel' = 0
<1>1. CASE channel = 0
  BY <1>1 DEF ReleaseChannel, CallTypeOK, callVars
<1>2. CASE channel # 0
  <2>1. Over(channel)
    BY <1>2 DEF ReleaseChannel
  <2>2. call' \in [Calls -> CallPlaces] /\ cancelled' \in [Calls -> BOOLEAN]
    BY <2>1 DEF Over, CallTypeOK, CallPlaces
  <2>3. conn' \in [Calls -> ConnStates]
    <3>1. \A c \in Calls : conn[c] \in ConnStates /\ ClosedNow(c) \in ConnStates
      BY DEF CallTypeOK, ClosedNow, ConnStates
    <3>2. conn' = [conn EXCEPT ![channel] = ClosedNow(channel)] /\ conn \in [Calls -> ConnStates]
      BY <2>1 DEF Over, CallTypeOK
    <3>. QED
      BY <3>1, <3>2
  <2>. QED
    BY <2>2, <2>3 DEF CallTypeOK, ReleaseChannel
<1>. QED
  BY <1>1, <1>2

\* Every step keeps every variable in its type.
LEMMA TypeStep ==
  ASSUME TypeOK, CallInv, StartInv, SessionInv, [Next]_vars
  PROVE  TypeOK'
<1>. USE StreamsAssumption, StartsAssumption DEF TypeOK, CallTypeOK, CallPlaces,
    ConnStates, CallInv, StartInv, SessionInv, Starts, callVars, ownVars
<1>1. ASSUME NEW s \in Starts, Created(s)
      PROVE  TypeOK'
  BY <1>1 DEF Created, Begin, Abandoned
<1>2. ASSUME NEW s \in Starts, CreateFails(s)
      PROVE  TypeOK'
  BY <1>2 DEF CreateFails, Failed, Abandoned
<1>3. ASSUME NEW s \in Starts, Attached(s)
      PROVE  TypeOK'
  BY <1>3 DEF Attached, HeadArrives, Abandoned, Over, ClosedNow
<1>4. ASSUME NEW s \in Starts, AttachFails(s)
      PROVE  TypeOK'
  <2>1. CASE OpenFails(s)
    BY <1>4, <2>1 DEF AttachFails, Failed, Abandoned, OpenFails
  <2>2. CASE TimesOut(s)
    BY <1>4, <2>2 DEF AttachFails, Failed, Abandoned, TimesOut, Over, ClosedNow
  <2>3. CASE HeadBreaks(s)
    BY <1>4, <2>3 DEF AttachFails, Failed, Abandoned, HeadBreaks, Over, ClosedNow
  <2>4. CASE RefusalRead(s)
    BY <1>4, <2>4 DEF AttachFails, Failed, Abandoned, RefusalRead, Over, ClosedNow
  <2>. QED
    BY <1>4, <2>1, <2>2, <2>3, <2>4 DEF AttachFails, CallFails
<1>5. ASSUME NEW s \in Starts, ChannelEnds(s)
      PROVE  TypeOK'
  <2>. HIDE DEF CallTypeOK, CallPlaces, ConnStates, CallInv, StartInv, SessionInv
  <2>1. CallTypeOK' /\ channel' = 0
    BY <1>5, Releases DEF ChannelEnds
  <2>. QED
    BY <1>5, <2>1 DEF ChannelEnds
<1>6. ASSUME NEW s \in Starts, \E code \in {0, s} : Inspected(s, code)
      PROVE  TypeOK'
  BY <1>6 DEF Inspected, Abandoned
<1>7. CASE Restart
  <2>. HIDE DEF CallTypeOK, CallPlaces, ConnStates, CallInv, StartInv, SessionInv
  <2>1. CallTypeOK' /\ channel' = 0
    BY <1>7, Releases DEF Restart
  <2>2. gen + 1 \in Starts /\ gen + 1 \in 1..(MaxStarts + 1)
    BY <1>7 DEF Restart
  <2>. QED
    BY <1>7, <2>1, <2>2 DEF Restart
<1>8. CASE End
  <2>1. CASE status = "ended"
    BY <1>8, <2>1 DEF End
  <2>2. CASE status # "ended"
    <3>. HIDE DEF CallTypeOK, CallPlaces, ConnStates, CallInv, StartInv
    <3>1. CallTypeOK' /\ channel' = 0
      BY <1>8, <2>2, Releases DEF End
    <3>2. gen + 1 \in 1..(MaxStarts + 1)
      BY <1>8, <2>2 DEF End
    <3>. QED
      BY <1>8, <2>2, <3>1, <3>2 DEF End
  <2>. QED
    BY <2>1, <2>2
<1>9. CASE Dispose
  <2>. HIDE DEF CallTypeOK, CallPlaces, ConnStates, CallInv, StartInv, SessionInv
  <2>1. CallTypeOK' /\ channel' = 0
    BY <1>9, Releases DEF Dispose
  <2>. QED
    BY <1>9, <2>1 DEF Dispose
<1>10. ASSUME NEW c \in Calls, ChannelOpens(c) /\ UNCHANGED ownVars
      PROVE  TypeOK'
  BY <1>10 DEF ChannelOpens
<1>11. ASSUME NEW c \in Calls, OpenFailsLate(c) /\ UNCHANGED ownVars
      PROVE  TypeOK'
  BY <1>11 DEF OpenFailsLate
<1>12. ASSUME NEW c \in Calls, HeadRefuses(c) /\ UNCHANGED ownVars
      PROVE  TypeOK'
  BY <1>12 DEF HeadRefuses
<1>13. ASSUME NEW c \in Streams, Begin(c) /\ UNCHANGED ownVars
      PROVE  TypeOK'
  BY <1>13 DEF Begin
<1>14. ASSUME NEW c \in Streams, HeadArrives(c) /\ UNCHANGED ownVars
      PROVE  TypeOK'
  BY <1>14 DEF HeadArrives
<1>15. ASSUME NEW c \in Streams, Cancel(c) /\ UNCHANGED ownVars
      PROVE  TypeOK'
  BY <1>15 DEF Cancel, ClosedNow
<1>16. ASSUME NEW c \in Streams, BodyEnds(c) /\ UNCHANGED ownVars
      PROVE  TypeOK'
  BY <1>16 DEF BodyEnds, Over, ClosedNow
<1>17. ASSUME NEW c \in Streams, CallFails(c) /\ UNCHANGED ownVars
      PROVE  TypeOK'
  <2>1. CASE OpenFails(c)
    BY <1>17, <2>1 DEF OpenFails
  <2>2. CASE TimesOut(c)
    BY <1>17, <2>2 DEF TimesOut, Over, ClosedNow
  <2>3. CASE HeadBreaks(c)
    BY <1>17, <2>3 DEF HeadBreaks, Over, ClosedNow
  <2>4. CASE RefusalRead(c)
    BY <1>17, <2>4 DEF RefusalRead, Over, ClosedNow
  <2>. QED
    BY <1>17, <2>1, <2>2, <2>3, <2>4 DEF CallFails
<1>18. CASE UNCHANGED vars
  BY <1>18 DEF vars
<1>. QED
  BY <1>1, <1>2, <1>3, <1>4, <1>5, <1>6, <1>7, <1>8, <1>9, <1>10,
      <1>11, <1>12, <1>13, <1>14, <1>15, <1>16, <1>17, <1>18
     DEF Next, StartStep, ChannelStep, StreamStep

\* A channel opens only for a call that waits for it, and a call that ends closes
\* its channel.
LEMMA CallStep ==
  ASSUME TypeOK, CallInv, StartInv, SessionInv, [Next]_vars
  PROVE  CallInv'
<1>. USE StreamsAssumption, StartsAssumption DEF TypeOK, CallTypeOK, CallPlaces,
    ConnStates, CallInv, StartInv, SessionInv, Starts, callVars, ownVars
<1>1. ASSUME NEW s \in Starts, Created(s)
      PROVE  CallInv'
  BY <1>1 DEF Created, Begin, Abandoned
<1>2. ASSUME NEW s \in Starts, CreateFails(s)
      PROVE  CallInv'
  BY <1>2 DEF CreateFails, Failed, Abandoned
<1>3. ASSUME NEW s \in Starts, Attached(s)
      PROVE  CallInv'
  BY <1>3 DEF Attached, HeadArrives, Abandoned, Over, ClosedNow
<1>4. ASSUME NEW s \in Starts, AttachFails(s)
      PROVE  CallInv'
  <2>1. CASE OpenFails(s)
    BY <1>4, <2>1 DEF AttachFails, Failed, Abandoned, OpenFails
  <2>2. CASE TimesOut(s)
    BY <1>4, <2>2 DEF AttachFails, Failed, Abandoned, TimesOut, Over, ClosedNow
  <2>3. CASE HeadBreaks(s)
    BY <1>4, <2>3 DEF AttachFails, Failed, Abandoned, HeadBreaks, Over, ClosedNow
  <2>4. CASE RefusalRead(s)
    BY <1>4, <2>4 DEF AttachFails, Failed, Abandoned, RefusalRead, Over, ClosedNow
  <2>. QED
    BY <1>4, <2>1, <2>2, <2>3, <2>4 DEF AttachFails, CallFails
<1>5. ASSUME NEW s \in Starts, ChannelEnds(s)
      PROVE  CallInv'
  BY <1>5 DEF ChannelEnds, ReleaseChannel, Over, ClosedNow
<1>6. ASSUME NEW s \in Starts, \E code \in {0, s} : Inspected(s, code)
      PROVE  CallInv'
  BY <1>6 DEF Inspected, Abandoned
<1>7. CASE Restart
  BY <1>7 DEF Restart, ReleaseChannel, Over, ClosedNow
<1>8. CASE End
  BY <1>8 DEF End, ReleaseChannel, Over, ClosedNow
<1>9. CASE Dispose
  BY <1>9 DEF Dispose, ReleaseChannel, Over, ClosedNow
<1>10. ASSUME NEW c \in Calls, ChannelOpens(c) /\ UNCHANGED ownVars
      PROVE  CallInv'
  BY <1>10 DEF ChannelOpens
<1>11. ASSUME NEW c \in Calls, OpenFailsLate(c) /\ UNCHANGED ownVars
      PROVE  CallInv'
  BY <1>11 DEF OpenFailsLate
<1>12. ASSUME NEW c \in Calls, HeadRefuses(c) /\ UNCHANGED ownVars
      PROVE  CallInv'
  BY <1>12 DEF HeadRefuses
<1>13. ASSUME NEW c \in Streams, Begin(c) /\ UNCHANGED ownVars
      PROVE  CallInv'
  BY <1>13 DEF Begin
<1>14. ASSUME NEW c \in Streams, HeadArrives(c) /\ UNCHANGED ownVars
      PROVE  CallInv'
  BY <1>14 DEF HeadArrives
<1>15. ASSUME NEW c \in Streams, Cancel(c) /\ UNCHANGED ownVars
      PROVE  CallInv'
  BY <1>15 DEF Cancel, ClosedNow
<1>16. ASSUME NEW c \in Streams, BodyEnds(c) /\ UNCHANGED ownVars
      PROVE  CallInv'
  BY <1>16 DEF BodyEnds, Over, ClosedNow
<1>17. ASSUME NEW c \in Streams, CallFails(c) /\ UNCHANGED ownVars
      PROVE  CallInv'
  <2>1. CASE OpenFails(c)
    BY <1>17, <2>1 DEF OpenFails
  <2>2. CASE TimesOut(c)
    BY <1>17, <2>2 DEF TimesOut, Over, ClosedNow
  <2>3. CASE HeadBreaks(c)
    BY <1>17, <2>3 DEF HeadBreaks, Over, ClosedNow
  <2>4. CASE RefusalRead(c)
    BY <1>17, <2>4 DEF RefusalRead, Over, ClosedNow
  <2>. QED
    BY <1>17, <2>1, <2>2, <2>3, <2>4 DEF CallFails
<1>18. CASE UNCHANGED vars
  BY <1>18 DEF vars
<1>. QED
  BY <1>1, <1>2, <1>3, <1>4, <1>5, <1>6, <1>7, <1>8, <1>9, <1>10,
      <1>11, <1>12, <1>13, <1>14, <1>15, <1>16, <1>17, <1>18
     DEF Next, StartStep, ChannelStep, StreamStep

\* A start moves its own call and no other; the session moves that of its channel.
LEMMA StartStepKeeps ==
  ASSUME TypeOK, CallInv, StartInv, SessionInv, [Next]_vars
  PROVE  StartInv'
<1>. USE StreamsAssumption, StartsAssumption DEF TypeOK, CallTypeOK, CallPlaces,
    ConnStates, CallInv, StartInv, SessionInv, Starts, callVars, ownVars
<1>1. ASSUME NEW s \in Starts, Created(s)
      PROVE  StartInv'
  BY <1>1 DEF Created, Begin, Abandoned
<1>2. ASSUME NEW s \in Starts, CreateFails(s)
      PROVE  StartInv'
  BY <1>2 DEF CreateFails, Failed, Abandoned
<1>3. ASSUME NEW s \in Starts, Attached(s)
      PROVE  StartInv'
  <2>1. CASE Abandoned(s)
    BY <1>3, <2>1 DEF Attached, Over, ClosedNow
  <2>2. CASE ~Abandoned(s)
    BY <1>3, <2>2 DEF Attached, HeadArrives, Abandoned
  <2>. QED
    BY <2>1, <2>2
<1>4. ASSUME NEW s \in Starts, AttachFails(s)
      PROVE  StartInv'
  <2>1. CASE OpenFails(s)
    BY <1>4, <2>1 DEF AttachFails, Failed, Abandoned, OpenFails
  <2>2. CASE TimesOut(s)
    BY <1>4, <2>2 DEF AttachFails, Failed, Abandoned, TimesOut, Over, ClosedNow
  <2>3. CASE HeadBreaks(s)
    BY <1>4, <2>3 DEF AttachFails, Failed, Abandoned, HeadBreaks, Over, ClosedNow
  <2>4. CASE RefusalRead(s)
    BY <1>4, <2>4 DEF AttachFails, Failed, Abandoned, RefusalRead, Over, ClosedNow
  <2>. QED
    BY <1>4, <2>1, <2>2, <2>3, <2>4 DEF AttachFails, CallFails
<1>5. ASSUME NEW s \in Starts, ChannelEnds(s)
      PROVE  StartInv'
  BY <1>5 DEF ChannelEnds, ReleaseChannel, Over, ClosedNow
<1>6. ASSUME NEW s \in Starts, \E code \in {0, s} : Inspected(s, code)
      PROVE  StartInv'
  BY <1>6 DEF Inspected, Abandoned
<1>7. CASE Restart
  <2>1. CASE channel = 0
    BY <1>7, <2>1 DEF Restart, ReleaseChannel
  <2>2. CASE channel # 0
    BY <1>7, <2>2 DEF Restart, ReleaseChannel, Over, ClosedNow
  <2>. QED
    BY <2>1, <2>2
<1>8. CASE End
  BY <1>8 DEF End, ReleaseChannel, Over, ClosedNow
<1>9. CASE Dispose
  BY <1>9 DEF Dispose, ReleaseChannel, Over, ClosedNow
<1>10. ASSUME NEW c \in Calls, ChannelOpens(c) /\ UNCHANGED ownVars
      PROVE  StartInv'
  BY <1>10 DEF ChannelOpens
<1>11. ASSUME NEW c \in Calls, OpenFailsLate(c) /\ UNCHANGED ownVars
      PROVE  StartInv'
  BY <1>11 DEF OpenFailsLate
<1>12. ASSUME NEW c \in Calls, HeadRefuses(c) /\ UNCHANGED ownVars
      PROVE  StartInv'
  BY <1>12 DEF HeadRefuses
<1>13. ASSUME NEW c \in Streams, Begin(c) /\ UNCHANGED ownVars
      PROVE  StartInv'
  BY <1>13 DEF Begin
<1>14. ASSUME NEW c \in Streams, HeadArrives(c) /\ UNCHANGED ownVars
      PROVE  StartInv'
  BY <1>14 DEF HeadArrives
<1>15. ASSUME NEW c \in Streams, Cancel(c) /\ UNCHANGED ownVars
      PROVE  StartInv'
  BY <1>15 DEF Cancel, ClosedNow
<1>16. ASSUME NEW c \in Streams, BodyEnds(c) /\ UNCHANGED ownVars
      PROVE  StartInv'
  BY <1>16 DEF BodyEnds, Over, ClosedNow
<1>17. ASSUME NEW c \in Streams, CallFails(c) /\ UNCHANGED ownVars
      PROVE  StartInv'
  <2>1. CASE OpenFails(c)
    BY <1>17, <2>1 DEF OpenFails
  <2>2. CASE TimesOut(c)
    BY <1>17, <2>2 DEF TimesOut, Over, ClosedNow
  <2>3. CASE HeadBreaks(c)
    BY <1>17, <2>3 DEF HeadBreaks, Over, ClosedNow
  <2>4. CASE RefusalRead(c)
    BY <1>17, <2>4 DEF RefusalRead, Over, ClosedNow
  <2>. QED
    BY <1>17, <2>1, <2>2, <2>3, <2>4 DEF CallFails
<1>18. CASE UNCHANGED vars
  BY <1>18 DEF vars
<1>. QED
  BY <1>1, <1>2, <1>3, <1>4, <1>5, <1>6, <1>7, <1>8, <1>9, <1>10,
      <1>11, <1>12, <1>13, <1>14, <1>15, <1>16, <1>17, <1>18
     DEF Next, StartStep, ChannelStep, StreamStep

\* A start that was abandoned changes nothing of the session, and a session that
\* is restarted, ended or disposed of lets go of its channel at once.
LEMMA SessionStep ==
  ASSUME TypeOK, CallInv, StartInv, SessionInv, [Next]_vars
  PROVE  SessionInv'
<1>. USE StreamsAssumption, StartsAssumption DEF TypeOK, CallTypeOK, CallPlaces,
    ConnStates, CallInv, StartInv, SessionInv, Starts, callVars, ownVars
<1>1. ASSUME NEW s \in Starts, Created(s)
      PROVE  SessionInv'
  BY <1>1 DEF Created, Begin, Abandoned
<1>2. ASSUME NEW s \in Starts, CreateFails(s)
      PROVE  SessionInv'
  BY <1>2 DEF CreateFails, Failed, Abandoned
<1>3. ASSUME NEW s \in Starts, Attached(s)
      PROVE  SessionInv'
  <2>1. CASE Abandoned(s)
    <3>1. /\ UNCHANGED <<status, gen, disposed, moved, channel, exit, inspecting>>
          /\ \A t \in Calls : t # s => call'[t] = call[t]
          /\ \A t \in Starts : t # s => job'[t] = job[t]
      BY <1>3, <2>1 DEF Attached, Over
    <3>2. s # gen \/ disposed
      BY <2>1 DEF Abandoned
    <3>3. channel # 0 => channel = gen /\ gen \in Starts /\ gen # s /\ call'[gen] = "body"
      BY <3>1, <3>2
    <3>. QED
      BY <3>1, <3>2, <3>3
  <2>2. CASE ~Abandoned(s)
    BY <1>3, <2>2 DEF Attached, HeadArrives, Abandoned
  <2>. QED
    BY <2>1, <2>2
<1>4. ASSUME NEW s \in Starts, AttachFails(s)
      PROVE  SessionInv'
  <2>1. CASE OpenFails(s)
    BY <1>4, <2>1 DEF AttachFails, Failed, Abandoned, OpenFails
  <2>2. CASE TimesOut(s)
    BY <1>4, <2>2 DEF AttachFails, Failed, Abandoned, TimesOut, Over, ClosedNow
  <2>3. CASE HeadBreaks(s)
    BY <1>4, <2>3 DEF AttachFails, Failed, Abandoned, HeadBreaks, Over, ClosedNow
  <2>4. CASE RefusalRead(s)
    BY <1>4, <2>4 DEF AttachFails, Failed, Abandoned, RefusalRead, Over, ClosedNow
  <2>. QED
    BY <1>4, <2>1, <2>2, <2>3, <2>4 DEF AttachFails, CallFails
<1>5. ASSUME NEW s \in Starts, ChannelEnds(s)
      PROVE  SessionInv'
  BY <1>5 DEF ChannelEnds, ReleaseChannel, Over, ClosedNow
<1>6. ASSUME NEW s \in Starts, \E code \in {0, s} : Inspected(s, code)
      PROVE  SessionInv'
  BY <1>6 DEF Inspected, Abandoned
<1>7. CASE Restart
  BY <1>7 DEF Restart, ReleaseChannel, Over, ClosedNow
<1>8. CASE End
  BY <1>8 DEF End, ReleaseChannel, Over, ClosedNow
<1>9. CASE Dispose
  BY <1>9 DEF Dispose, ReleaseChannel, Over, ClosedNow
<1>10. ASSUME NEW c \in Calls, ChannelOpens(c) /\ UNCHANGED ownVars
      PROVE  SessionInv'
  BY <1>10 DEF ChannelOpens
<1>11. ASSUME NEW c \in Calls, OpenFailsLate(c) /\ UNCHANGED ownVars
      PROVE  SessionInv'
  BY <1>11 DEF OpenFailsLate
<1>12. ASSUME NEW c \in Calls, HeadRefuses(c) /\ UNCHANGED ownVars
      PROVE  SessionInv'
  BY <1>12 DEF HeadRefuses
<1>13. ASSUME NEW c \in Streams, Begin(c) /\ UNCHANGED ownVars
      PROVE  SessionInv'
  BY <1>13 DEF Begin
<1>14. ASSUME NEW c \in Streams, HeadArrives(c) /\ UNCHANGED ownVars
      PROVE  SessionInv'
  BY <1>14 DEF HeadArrives
<1>15. ASSUME NEW c \in Streams, Cancel(c) /\ UNCHANGED ownVars
      PROVE  SessionInv'
  BY <1>15 DEF Cancel, ClosedNow
<1>16. ASSUME NEW c \in Streams, BodyEnds(c) /\ UNCHANGED ownVars
      PROVE  SessionInv'
  BY <1>16 DEF BodyEnds, Over, ClosedNow
<1>17. ASSUME NEW c \in Streams, CallFails(c) /\ UNCHANGED ownVars
      PROVE  SessionInv'
  <2>1. CASE OpenFails(c)
    BY <1>17, <2>1 DEF OpenFails
  <2>2. CASE TimesOut(c)
    BY <1>17, <2>2 DEF TimesOut, Over, ClosedNow
  <2>3. CASE HeadBreaks(c)
    BY <1>17, <2>3 DEF HeadBreaks, Over, ClosedNow
  <2>4. CASE RefusalRead(c)
    BY <1>17, <2>4 DEF RefusalRead, Over, ClosedNow
  <2>. QED
    BY <1>17, <2>1, <2>2, <2>3, <2>4 DEF CallFails
<1>18. CASE UNCHANGED vars
  BY <1>18 DEF vars
<1>. QED
  BY <1>1, <1>2, <1>3, <1>4, <1>5, <1>6, <1>7, <1>8, <1>9, <1>10,
      <1>11, <1>12, <1>13, <1>14, <1>15, <1>16, <1>17, <1>18
     DEF Next, StartStep, ChannelStep, StreamStep

\* The inductive invariant holds in every state of the terminal, however many
\* starts (_start) are under way.
THEOREM Invariance == Spec => []IInv
<1>1. Init => IInv
  <2>. SUFFICES ASSUME Init PROVE IInv
    OBVIOUS
  <2>. USE StreamsAssumption, StartsAssumption DEF Init, CallInit, Starts
  <2>1. TypeOK
    <3>1. CallTypeOK
      BY DEF CallTypeOK, CallPlaces, ConnStates
    <3>2. job \in [Starts -> {"none", "create", "attach", "done"}]
      OBVIOUS
    <3>3. gen \in 1 .. MaxStarts + 1 /\ channel \in Starts \cup {0} /\ exit \in Starts \cup {0}
      OBVIOUS
    <3>. QED
      BY <3>1, <3>2, <3>3 DEF TypeOK
  <2>2. CallInv
    BY DEF CallInv
  <2>3. StartInv
    BY DEF StartInv
  <2>4. SessionInv
    BY DEF SessionInv
  <2>. QED
    BY <2>1, <2>2, <2>3, <2>4 DEF IInv
<1>2. IInv /\ [Next]_vars => IInv'
  BY TypeStep, CallStep, StartStepKeeps, SessionStep DEF IInv
<1>. QED
  BY <1>1, <1>2, PTL DEF Spec

\* No channel stays open that nobody can close any more: late ones and those of
\* abandoned starts are closed (_openAndSend, _start and _releaseChannel).
THEOREM NoChannelLeaks == Spec => []ChannelsAreHeld
<1>1. ASSUME IInv, NEW c \in Calls, conn[c] = "open", call[c] = "body", c \notin Streams
      PROVE  c = channel /\ c = gen /\ ~disposed
  <2>1. c \in Starts /\ c # 0
    BY <1>1, StartsAssumption DEF Starts
  <2>. QED
    BY <1>1, <2>1 DEF IInv, StartInv, SessionInv
<1>2. IInv => ChannelsAreHeld
  BY <1>1 DEF IInv, CallInv, ChannelsAreHeld
<1>. QED
  BY <1>2, Invariance, PTL

\* The status, the channel and the exit code on the screen are those of the last
\* start, whatever arrives from earlier ones (_start and _onEnded).
THEOREM ScreenIsOwn == Spec => []ShownIsOwn
<1>1. IInv => ShownIsOwn
  BY StreamsAssumption, StartsAssumption DEF IInv, TypeOK, CallTypeOK, CallPlaces, ConnStates,
     CallInv, StartInv, SessionInv, ShownIsOwn
<1>. QED
  BY <1>1, Invariance, PTL
=============================================================================
