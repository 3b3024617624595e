--------------------------- MODULE PairingProofs ---------------------------
(* The safety of Pairing for any number of pair commands and phones, and   *)
(* any number of tries. IInv is inductive, and what the commands and the   *)
(* phones are promised follows from it: Pairing implements OneTimeCode.    *)
(* Then Throttle, the limiter that the phones' failures are counted by.    *)
EXTENDS Pairing, Throttle, FiniteSetTheorems, SequenceTheorems, WellFoundedInduction, TLAPS

\* Every step keeps every variable in its type.
LEMMA TypeStep == IInv /\ [Next]_vars => TypeOK'
<1>. SUFFICES ASSUME TypeOK, GuessesAreCounted, [Next]_vars
             PROVE  TypeOK'
  BY DEF IInv
<1>. USE MaxTriesAssumption, NoneAssumption DEF TypeOK, GuessesAreCounted,
  Outcomes, PCs, Sayings, Answers, Goto, Say, AnswerPhone, RequestOver, Connected,
  Over, Redeemable, vars, managerVars, handlerVars, commandVars, phoneVars
<1>1. ASSUME NEW c \in Commands, Refuse(c) PROVE TypeOK'
  BY <1>1 DEF Refuse
<1>2. ASSUME NEW c \in Commands, Generate(c) PROVE TypeOK'
  BY <1>2 DEF Generate
<1>3. ASSUME NEW c \in Commands, Start(c) PROVE TypeOK'
  BY <1>3 DEF Start, Begin
<1>4. ASSUME NEW c \in Commands, SendStarted(c) PROVE TypeOK'
  BY <1>4 DEF SendStarted
<1>5. ASSUME NEW c \in Commands, TakeResult(c) PROVE TypeOK'
  BY <1>5 DEF TakeResult
<1>6. ASSUME NEW c \in Commands, Expire(c) PROVE TypeOK'
  BY <1>6 DEF Expire, EndIf, EndPending
<1>7. ASSUME NEW c \in Commands, Cancel(c) PROVE TypeOK'
  BY <1>7 DEF Cancel, EndIf, EndPending
<1>8. ASSUME NEW c \in Commands, Report(c) PROVE TypeOK'
  BY <1>8 DEF Report
<1>9. ASSUME NEW c \in Commands, ShowCode(c) PROVE TypeOK'
  BY <1>9 DEF ShowCode
<1>10. ASSUME NEW c \in Commands, ReadEnd(c) PROVE TypeOK'
  BY <1>10 DEF ReadEnd
<1>11. ASSUME NEW c \in Commands, BreakOff(c) PROVE TypeOK'
  BY <1>11 DEF BreakOff
<1>12. ASSUME NEW c \in Commands, Interrupt(c) PROVE TypeOK'
  BY <1>12 DEF Interrupt
<1>13. ASSUME NEW c \in Commands, TimeIsUp(c) PROVE TypeOK'
  BY <1>13 DEF TimeIsUp
<1>14. ASSUME NEW p \in Phones, PhoneRefused(p) PROVE TypeOK'
  BY <1>14 DEF PhoneRefused
<1>15. ASSUME NEW p \in Phones, RedeemNone(p) PROVE TypeOK'
  BY <1>15 DEF RedeemNone, EndPending
<1>16. ASSUME NEW p \in Phones, RedeemWrong(p) PROVE TypeOK'
  BY <1>16 DEF RedeemWrong, EndPending
<1>17. ASSUME NEW p \in Phones, RedeemFails(p) PROVE TypeOK'
  BY <1>17 DEF RedeemFails, EndPending
<1>18. ASSUME NEW p \in Phones, Redeem(p) PROVE TypeOK'
  BY <1>18 DEF Redeem, EndPending
<1>19. CASE BeginStop
  BY <1>19 DEF BeginStop
<1>20. CASE CloseAdmin
  BY <1>20 DEF CloseAdmin
<1>21. CASE UNCHANGED vars
  BY <1>21
<1>. QED
  BY <1>1, <1>2, <1>3, <1>4, <1>5, <1>6, <1>7, <1>8, <1>9, <1>10, <1>11,
     <1>12, <1>13, <1>14, <1>15, <1>16, <1>17, <1>18, <1>19, <1>20, <1>21
  DEF Next, HandlerStep, CommandStep

\* Where a handler is keeps saying what has become of its pairing.
LEMMA HandlerInvStep == IInv /\ TypeOK' /\ [Next]_vars => HandlerInv'
<1>. SUFFICES ASSUME TypeOK, HandlerInv, TypeOK', [Next]_vars
             PROVE  HandlerInv'
  BY DEF IInv
<1>. USE MaxTriesAssumption, NoneAssumption DEF TypeOK, HandlerInv,
  Outcomes, PCs, Sayings, Answers, Goto, Say, AnswerPhone, RequestOver, Connected,
  Over, Redeemable, vars, managerVars, handlerVars, commandVars, phoneVars
<1>1. ASSUME NEW c \in Commands, Refuse(c) PROVE HandlerInv'
  BY <1>1 DEF Refuse
<1>2. ASSUME NEW c \in Commands, Generate(c) PROVE HandlerInv'
  BY <1>2 DEF Generate
<1>3. ASSUME NEW c \in Commands, Start(c) PROVE HandlerInv'
  BY <1>3 DEF Start, Begin
<1>4. ASSUME NEW c \in Commands, SendStarted(c) PROVE HandlerInv'
  BY <1>4 DEF SendStarted
<1>5. ASSUME NEW c \in Commands, TakeResult(c) PROVE HandlerInv'
  BY <1>5 DEF TakeResult
<1>6. ASSUME NEW c \in Commands, Expire(c) PROVE HandlerInv'
  BY <1>6 DEF Expire, EndIf, EndPending
<1>7. ASSUME NEW c \in Commands, Cancel(c) PROVE HandlerInv'
  BY <1>7 DEF Cancel, EndIf, EndPending
<1>8. ASSUME NEW c \in Commands, Report(c) PROVE HandlerInv'
  BY <1>8 DEF Report
<1>9. ASSUME NEW c \in Commands, ShowCode(c) PROVE HandlerInv'
  BY <1>9 DEF ShowCode
<1>10. ASSUME NEW c \in Commands, ReadEnd(c) PROVE HandlerInv'
  BY <1>10 DEF ReadEnd
<1>11. ASSUME NEW c \in Commands, BreakOff(c) PROVE HandlerInv'
  BY <1>11 DEF BreakOff
<1>12. ASSUME NEW c \in Commands, Interrupt(c) PROVE HandlerInv'
  BY <1>12 DEF Interrupt
<1>13. ASSUME NEW c \in Commands, TimeIsUp(c) PROVE HandlerInv'
  BY <1>13 DEF TimeIsUp
<1>14. ASSUME NEW p \in Phones, PhoneRefused(p) PROVE HandlerInv'
  BY <1>14 DEF PhoneRefused
<1>15. ASSUME NEW p \in Phones, RedeemNone(p) PROVE HandlerInv'
  BY <1>15 DEF RedeemNone, EndPending
<1>16. ASSUME NEW p \in Phones, RedeemWrong(p) PROVE HandlerInv'
  BY <1>16 DEF RedeemWrong, EndPending
<1>17. ASSUME NEW p \in Phones, RedeemFails(p) PROVE HandlerInv'
  BY <1>17 DEF RedeemFails, EndPending
<1>18. ASSUME NEW p \in Phones, Redeem(p) PROVE HandlerInv'
  BY <1>18 DEF Redeem, EndPending
<1>19. CASE BeginStop
  BY <1>19 DEF BeginStop
<1>20. CASE CloseAdmin
  BY <1>20 DEF CloseAdmin
<1>21. CASE UNCHANGED vars
  BY <1>21
<1>. QED
  BY <1>1, <1>2, <1>3, <1>4, <1>5, <1>6, <1>7, <1>8, <1>9, <1>10, <1>11,
     <1>12, <1>13, <1>14, <1>15, <1>16, <1>17, <1>18, <1>19, <1>20, <1>21
  DEF Next, HandlerStep, CommandStep

\* Results stay true to whether a phone has been paired.
LEMMA ResultInvStep == IInv /\ TypeOK' /\ [Next]_vars => ResultInv'
<1>. SUFFICES ASSUME TypeOK, HandlerInv, ResultInv, CommandInv, TypeOK', [Next]_vars
             PROVE  ResultInv'
  BY DEF IInv
<1>. USE MaxTriesAssumption, NoneAssumption DEF TypeOK, HandlerInv, ResultInv, CommandInv,
  Outcomes, PCs, Sayings, Answers, Goto, Say, AnswerPhone, RequestOver, Connected,
  Over, Redeemable, vars, managerVars, handlerVars, commandVars, phoneVars
<1>1. ASSUME NEW c \in Commands, Refuse(c) PROVE ResultInv'
  BY <1>1 DEF Refuse
<1>2. ASSUME NEW c \in Commands, Generate(c) PROVE ResultInv'
  BY <1>2 DEF Generate
<1>3. ASSUME NEW c \in Commands, Start(c) PROVE ResultInv'
  BY <1>3 DEF Start, Begin
<1>4. ASSUME NEW c \in Commands, SendStarted(c) PROVE ResultInv'
  BY <1>4 DEF SendStarted
<1>5. ASSUME NEW c \in Commands, TakeResult(c) PROVE ResultInv'
  BY <1>5 DEF TakeResult
<1>6. ASSUME NEW c \in Commands, Expire(c) PROVE ResultInv'
  BY <1>6 DEF Expire, EndIf, EndPending
<1>7. ASSUME NEW c \in Commands, Cancel(c) PROVE ResultInv'
  BY <1>7 DEF Cancel, EndIf, EndPending
<1>8. ASSUME NEW c \in Commands, Report(c) PROVE ResultInv'
  BY <1>8 DEF Report
<1>9. ASSUME NEW c \in Commands, ShowCode(c) PROVE ResultInv'
  BY <1>9 DEF ShowCode
<1>10. ASSUME NEW c \in Commands, ReadEnd(c) PROVE ResultInv'
  BY <1>10 DEF ReadEnd
<1>11. ASSUME NEW c \in Commands, BreakOff(c) PROVE ResultInv'
  BY <1>11 DEF BreakOff
<1>12. ASSUME NEW c \in Commands, Interrupt(c) PROVE ResultInv'
  BY <1>12 DEF Interrupt
<1>13. ASSUME NEW c \in Commands, TimeIsUp(c) PROVE ResultInv'
  BY <1>13 DEF TimeIsUp
<1>14. ASSUME NEW p \in Phones, PhoneRefused(p) PROVE ResultInv'
  BY <1>14 DEF PhoneRefused
<1>15. ASSUME NEW p \in Phones, RedeemNone(p) PROVE ResultInv'
  BY <1>15 DEF RedeemNone, EndPending
<1>16. ASSUME NEW p \in Phones, RedeemWrong(p) PROVE ResultInv'
  BY <1>16 DEF RedeemWrong, EndPending
<1>17. ASSUME NEW p \in Phones, RedeemFails(p) PROVE ResultInv'
  BY <1>17 DEF RedeemFails, EndPending
<1>18. ASSUME NEW p \in Phones, Redeem(p) PROVE ResultInv'
  BY <1>18 DEF Redeem, EndPending
<1>19. CASE BeginStop
  BY <1>19 DEF BeginStop
<1>20. CASE CloseAdmin
  BY <1>20 DEF CloseAdmin
<1>21. CASE UNCHANGED vars
  BY <1>21
<1>. QED
  BY <1>1, <1>2, <1>3, <1>4, <1>5, <1>6, <1>7, <1>8, <1>9, <1>10, <1>11,
     <1>12, <1>13, <1>14, <1>15, <1>16, <1>17, <1>18, <1>19, <1>20, <1>21
  DEF Next, HandlerStep, CommandStep

\* Commands keep saying what they have read, and nothing else.
LEMMA CommandInvStep == IInv /\ TypeOK' /\ [Next]_vars => CommandInv'
<1>. SUFFICES ASSUME TypeOK, HandlerInv, ResultInv, CommandInv, TypeOK', [Next]_vars
             PROVE  CommandInv'
  BY DEF IInv
<1>. USE MaxTriesAssumption, NoneAssumption DEF TypeOK, HandlerInv, ResultInv, CommandInv,
  Outcomes, PCs, Sayings, Answers, Goto, Say, AnswerPhone, RequestOver, Connected,
  Over, Redeemable, vars, managerVars, handlerVars, commandVars, phoneVars
<1>1. ASSUME NEW c \in Commands, Refuse(c) PROVE CommandInv'
  BY <1>1 DEF Refuse
<1>2. ASSUME NEW c \in Commands, Generate(c) PROVE CommandInv'
  BY <1>2 DEF Generate
<1>3. ASSUME NEW c \in Commands, Start(c) PROVE CommandInv'
  BY <1>3 DEF Start, Begin
<1>4. ASSUME NEW c \in Commands, SendStarted(c) PROVE CommandInv'
  BY <1>4 DEF SendStarted
<1>5. ASSUME NEW c \in Commands, TakeResult(c) PROVE CommandInv'
  BY <1>5 DEF TakeResult
<1>6. ASSUME NEW c \in Commands, Expire(c) PROVE CommandInv'
  BY <1>6 DEF Expire, EndIf, EndPending
<1>7. ASSUME NEW c \in Commands, Cancel(c) PROVE CommandInv'
  BY <1>7 DEF Cancel, EndIf, EndPending
<1>8. ASSUME NEW c \in Commands, Report(c) PROVE CommandInv'
  BY <1>8 DEF Report
<1>9. ASSUME NEW c \in Commands, ShowCode(c) PROVE CommandInv'
  BY <1>9 DEF ShowCode
<1>10. ASSUME NEW c \in Commands, ReadEnd(c) PROVE CommandInv'
  BY <1>10 DEF ReadEnd
<1>11. ASSUME NEW c \in Commands, BreakOff(c) PROVE CommandInv'
  BY <1>11 DEF BreakOff
<1>12. ASSUME NEW c \in Commands, Interrupt(c) PROVE CommandInv'
  BY <1>12 DEF Interrupt
<1>13. ASSUME NEW c \in Commands, TimeIsUp(c) PROVE CommandInv'
  BY <1>13 DEF TimeIsUp
<1>14. ASSUME NEW p \in Phones, PhoneRefused(p) PROVE CommandInv'
  BY <1>14 DEF PhoneRefused
<1>15. ASSUME NEW p \in Phones, RedeemNone(p) PROVE CommandInv'
  BY <1>15 DEF RedeemNone, EndPending
<1>16. ASSUME NEW p \in Phones, RedeemWrong(p) PROVE CommandInv'
  BY <1>16 DEF RedeemWrong, EndPending
<1>17. ASSUME NEW p \in Phones, RedeemFails(p) PROVE CommandInv'
  BY <1>17 DEF RedeemFails, EndPending
<1>18. ASSUME NEW p \in Phones, Redeem(p) PROVE CommandInv'
  BY <1>18 DEF Redeem, EndPending
<1>19. CASE BeginStop
  BY <1>19 DEF BeginStop
<1>20. CASE CloseAdmin
  BY <1>20 DEF CloseAdmin
<1>21. CASE UNCHANGED vars
  BY <1>21
<1>. QED
  BY <1>1, <1>2, <1>3, <1>4, <1>5, <1>6, <1>7, <1>8, <1>9, <1>10, <1>11,
     <1>12, <1>13, <1>14, <1>15, <1>16, <1>17, <1>18, <1>19, <1>20, <1>21
  DEF Next, HandlerStep, CommandStep

\* A code that is not pending yet has not been tested.
LEMMA TriesInvStep == IInv /\ TypeOK' /\ [Next]_vars => TriesInv'
<1>. SUFFICES ASSUME TypeOK, HandlerInv, TriesInv, TypeOK', [Next]_vars
             PROVE  TriesInv'
  BY DEF IInv
<1>. USE MaxTriesAssumption, NoneAssumption DEF TypeOK, HandlerInv, TriesInv,
  Outcomes, PCs, Sayings, Answers, Goto, Say, AnswerPhone, RequestOver, Connected,
  Over, Redeemable, vars, managerVars, handlerVars, commandVars, phoneVars
<1>1. ASSUME NEW c \in Commands, Refuse(c) PROVE TriesInv'
  BY <1>1 DEF Refuse
<1>2. ASSUME NEW c \in Commands, Generate(c) PROVE TriesInv'
  BY <1>2 DEF Generate
<1>3. ASSUME NEW c \in Commands, Start(c) PROVE TriesInv'
  BY <1>3 DEF Start, Begin
<1>4. ASSUME NEW c \in Commands, SendStarted(c) PROVE TriesInv'
  BY <1>4 DEF SendStarted
<1>5. ASSUME NEW c \in Commands, TakeResult(c) PROVE TriesInv'
  BY <1>5 DEF TakeResult
<1>6. ASSUME NEW c \in Commands, Expire(c) PROVE TriesInv'
  BY <1>6 DEF Expire, EndIf, EndPending
<1>7. ASSUME NEW c \in Commands, Cancel(c) PROVE TriesInv'
  BY <1>7 DEF Cancel, EndIf, EndPending
<1>8. ASSUME NEW c \in Commands, Report(c) PROVE TriesInv'
  BY <1>8 DEF Report
<1>9. ASSUME NEW c \in Commands, ShowCode(c) PROVE TriesInv'
  BY <1>9 DEF ShowCode
<1>10. ASSUME NEW c \in Commands, ReadEnd(c) PROVE TriesInv'
  BY <1>10 DEF ReadEnd
<1>11. ASSUME NEW c \in Commands, BreakOff(c) PROVE TriesInv'
  BY <1>11 DEF BreakOff
<1>12. ASSUME NEW c \in Commands, Interrupt(c) PROVE TriesInv'
  BY <1>12 DEF Interrupt
<1>13. ASSUME NEW c \in Commands, TimeIsUp(c) PROVE TriesInv'
  BY <1>13 DEF TimeIsUp
<1>14. ASSUME NEW p \in Phones, PhoneRefused(p) PROVE TriesInv'
  BY <1>14 DEF PhoneRefused
<1>15. ASSUME NEW p \in Phones, RedeemNone(p) PROVE TriesInv'
  BY <1>15 DEF RedeemNone, EndPending
<1>16. ASSUME NEW p \in Phones, RedeemWrong(p) PROVE TriesInv'
  BY <1>16 DEF RedeemWrong, EndPending
<1>17. ASSUME NEW p \in Phones, RedeemFails(p) PROVE TriesInv'
  BY <1>17 DEF RedeemFails, EndPending
<1>18. ASSUME NEW p \in Phones, Redeem(p) PROVE TriesInv'
  BY <1>18 DEF Redeem, EndPending
<1>19. CASE BeginStop
  BY <1>19 DEF BeginStop
<1>20. CASE CloseAdmin
  BY <1>20 DEF CloseAdmin
<1>21. CASE UNCHANGED vars
  BY <1>21
<1>. QED
  BY <1>1, <1>2, <1>3, <1>4, <1>5, <1>6, <1>7, <1>8, <1>9, <1>10, <1>11,
     <1>12, <1>13, <1>14, <1>15, <1>16, <1>17, <1>18, <1>19, <1>20, <1>21
  DEF Next, HandlerStep, CommandStep

\* Every wrong proof is counted, and none is tested too often.
LEMMA GuessesAreCountedStep == IInv /\ TypeOK' /\ [Next]_vars => GuessesAreCounted'
<1>. SUFFICES ASSUME TypeOK, HandlerInv, TriesInv, GuessesAreCounted, TypeOK', [Next]_vars
             PROVE  GuessesAreCounted'
  BY DEF IInv
<1>. USE MaxTriesAssumption, NoneAssumption DEF TypeOK, HandlerInv, TriesInv, GuessesAreCounted,
  Outcomes, PCs, Sayings, Answers, Goto, Say, AnswerPhone, RequestOver, Connected,
  Over, Redeemable, vars, managerVars, handlerVars, commandVars, phoneVars
<1>1. ASSUME NEW c \in Commands, Refuse(c) PROVE GuessesAreCounted'
  BY <1>1 DEF Refuse
<1>2. ASSUME NEW c \in Commands, Generate(c) PROVE GuessesAreCounted'
  BY <1>2 DEF Generate
<1>3. ASSUME NEW c \in Commands, Start(c) PROVE GuessesAreCounted'
  BY <1>3 DEF Start, Begin
<1>4. ASSUME NEW c \in Commands, SendStarted(c) PROVE GuessesAreCounted'
  BY <1>4 DEF SendStarted
<1>5. ASSUME NEW c \in Commands, TakeResult(c) PROVE GuessesAreCounted'
  BY <1>5 DEF TakeResult
<1>6. ASSUME NEW c \in Commands, Expire(c) PROVE GuessesAreCounted'
  BY <1>6 DEF Expire, EndIf, EndPending
<1>7. ASSUME NEW c \in Commands, Cancel(c) PROVE GuessesAreCounted'
  BY <1>7 DEF Cancel, EndIf, EndPending
<1>8. ASSUME NEW c \in Commands, Report(c) PROVE GuessesAreCounted'
  BY <1>8 DEF Report
<1>9. ASSUME NEW c \in Commands, ShowCode(c) PROVE GuessesAreCounted'
  BY <1>9 DEF ShowCode
<1>10. ASSUME NEW c \in Commands, ReadEnd(c) PROVE GuessesAreCounted'
  BY <1>10 DEF ReadEnd
<1>11. ASSUME NEW c \in Commands, BreakOff(c) PROVE GuessesAreCounted'
  BY <1>11 DEF BreakOff
<1>12. ASSUME NEW c \in Commands, Interrupt(c) PROVE GuessesAreCounted'
  BY <1>12 DEF Interrupt
<1>13. ASSUME NEW c \in Commands, TimeIsUp(c) PROVE GuessesAreCounted'
  BY <1>13 DEF TimeIsUp
<1>14. ASSUME NEW p \in Phones, PhoneRefused(p) PROVE GuessesAreCounted'
  BY <1>14 DEF PhoneRefused
<1>15. ASSUME NEW p \in Phones, RedeemNone(p) PROVE GuessesAreCounted'
  BY <1>15 DEF RedeemNone, EndPending
<1>16. ASSUME NEW p \in Phones, RedeemWrong(p) PROVE GuessesAreCounted'
  BY <1>16 DEF RedeemWrong, EndPending
<1>17. ASSUME NEW p \in Phones, RedeemFails(p) PROVE GuessesAreCounted'
  BY <1>17 DEF RedeemFails, EndPending
<1>18. ASSUME NEW p \in Phones, Redeem(p) PROVE GuessesAreCounted'
  BY <1>18 DEF Redeem, EndPending
<1>19. CASE BeginStop
  BY <1>19 DEF BeginStop
<1>20. CASE CloseAdmin
  BY <1>20 DEF CloseAdmin
<1>21. CASE UNCHANGED vars
  BY <1>21
<1>. QED
  BY <1>1, <1>2, <1>3, <1>4, <1>5, <1>6, <1>7, <1>8, <1>9, <1>10, <1>11,
     <1>12, <1>13, <1>14, <1>15, <1>16, <1>17, <1>18, <1>19, <1>20, <1>21
  DEF Next, HandlerStep, CommandStep

\* The inductive invariant holds in every state.
THEOREM Invariance == Spec => []IInv
<1>1. Init => IInv
  BY MaxTriesAssumption, NoneAssumption
  DEF Init, IInv, TypeOK, HandlerInv, ResultInv, CommandInv, TriesInv, GuessesAreCounted,
      Outcomes, PCs, Sayings, Answers, RequestOver
<1>2. IInv /\ [Next]_vars => IInv'
  BY TypeStep, HandlerInvStep, ResultInvStep, CommandInvStep, TriesInvStep, GuessesAreCountedStep
  DEF IInv
<1>. QED
  BY <1>1, <1>2, PTL DEF Spec

\* The variables keep their types.
THEOREM TypeCorrect == Spec => []TypeOK
<1>1. IInv => TypeOK
  BY DEF IInv
<1>. QED
  BY <1>1, Invariance, PTL

\* What a pair command says of its pairing is so, and stays so: a phone is
\* paired when it says "paired" and none is when it says the code was used up
\* otherwise (cmdPair).
THEOREM CommandsTellTheTruth == Spec => []TruthTold
<1>1. IInv => TruthTold
  <2>. SUFFICES ASSUME TypeOK, ResultInv, CommandInv PROVE TruthTold
    BY DEF IInv
  <2>. QED
    BY NoneAssumption DEF TypeOK, ResultInv, CommandInv, TruthTold, Outcomes
<1>. QED
  BY <1>1, Invariance, PTL

\* The channel of the pending pairing is empty and somebody waits for it, so
\* endLocked never blocks with the mutex held.
THEOREM NobodyBlocks == Spec => []PendingIsAwaited
<1>1. IInv => PendingIsAwaited
  <2>. SUFFICES ASSUME TypeOK, HandlerInv PROVE PendingIsAwaited
    BY DEF IInv
  <2>. QED
    BY NoneAssumption DEF TypeOK, HandlerInv, PendingIsAwaited, PCs
<1>. QED
  BY <1>1, Invariance, PTL

\* After Expire or Cancel a result is there to be read (handlePair).
THEOREM ResultsAreThere == Spec => []ResultIsThere
<1>1. IInv => ResultIsThere
  BY DEF IInv, HandlerInv, ResultIsThere
<1>. QED
  BY <1>1, Invariance, PTL

\* A command says that the agent stopped only when it did (ErrStopped).
THEOREM StoppedIsSaidTruly == Spec => []StoppedIsTrue
<1>1. IInv => StoppedIsTrue
  BY DEF IInv, CommandInv, StoppedIsTrue
<1>. QED
  BY <1>1, Invariance, PTL

\* At most MaxTries wrong proofs per code, all of them counted (Redeem).
THEOREM GuessesAreLimited == Spec => []GuessesAreCounted
<1>1. IInv => GuessesAreCounted
  BY DEF IInv
<1>. QED
  BY <1>1, Invariance, PTL

---------------------------------------------------------------------------
(* Pairing is OneTimeCode.                                                 *)

\* A code stays what it is when nothing of its own changes.
LEMMA FateKept ==
  ASSUME NEW c \in Commands, device'[c] = device[c], said'[c] = said[c],
         cur' = c <=> cur = c,
         pc'[c] \in {"idle", "generated"} <=> pc[c] \in {"idle", "generated"}
  PROVE  Fate(c)' = Fate(c)
  BY DEF Fate

\* What the two are told.
LEMMA Tellings ==
  /\ Told("nothing") = "nothing" /\ Told("paired") = "paired"
  /\ Told("interrupted") = "unknown" /\ Told("stopped") = "unknown"
  /\ \A what : what \notin {"nothing", "paired", "interrupted", "stopped"} => Told(what) = "unpaired"
  /\ Got("nothing") = "nothing" /\ Got("200") = "paired"
  /\ \A what : what \notin {"nothing", "200"} => Got(what) = "unpaired"
  BY DEF Told, Got

\* A phone that is answered has been told something, and no other phone has.
LEMMA AnswerStep ==
  ASSUME TypeOK, NEW p \in Phones, NEW what, answer[p] = "nothing", answer' = [answer EXCEPT ![p] = what]
  PROVE  Codes!Answer(p, Got(what))
<1>1. answer \in [Phones -> Answers]
  BY DEF TypeOK
<1>. DEFINE got == [q \in Phones |-> Got(answer[q])]
<1>2. got[p] = "nothing"
  BY Tellings
<1>3. [q \in Phones |-> Got(answer'[q])] = [got EXCEPT ![p] = Got(what)]
  BY <1>1
<1>. QED
  BY <1>2, <1>3, Zenon DEF Codes!Answer

\* The same of a command that ends.
LEMMA SayStep ==
  ASSUME TypeOK, NEW c \in Commands, NEW what, said' = [said EXCEPT ![c] = what]
  PROVE  [d \in Commands |-> Told(said[d])]' = [[d \in Commands |-> Told(said[d])] EXCEPT ![c] = Told(what)]
  BY DEF TypeOK

\* The pending code is open, or its command has ended without showing it.
LEMMA PendingFate ==
  ASSUME IInv, cur # None
  PROVE  /\ cur \in Commands /\ device[cur] = None /\ Fate(cur) \in {"open", "void"}
         /\ pc[cur] \in {"started", "wait"}
         /\ cur \in shown => Fate(cur) = "open"
<1>1. cur \in Commands /\ pc[cur] \in {"started", "wait"}
  BY DEF IInv, TypeOK, HandlerInv, PCs
<1>2. device[cur] = None
  BY <1>1, NoneAssumption DEF IInv, TypeOK, HandlerInv, ResultInv, Outcomes
<1>3. cur \in shown => said[cur] \notin {"refused", "interruptedEarly"}
  BY <1>1 DEF IInv, CommandInv
<1>. QED
  BY <1>1, <1>2, <1>3 DEF Fate

\* When the pending pairing ends and no phone has used its code, the code is void.
LEMMA EndedFate ==
  ASSUME IInv, cur # None, NEW outcome, EndPending(outcome), UNCHANGED <<device, said>>,
         \A c \in Commands : pc'[c] \in {"idle", "generated"} <=> pc[c] \in {"idle", "generated"}
  PROVE  \A c \in Commands : Fate(c)' = IF c = cur THEN "void" ELSE Fate(c)
<1>. SUFFICES ASSUME NEW c \in Commands
              PROVE  Fate(c)' = IF c = cur THEN "void" ELSE Fate(c)
  OBVIOUS
<1>1. /\ cur' = None /\ device[cur] = None /\ pc[cur] \in {"started", "wait"}
      /\ None \notin Commands
  BY PendingFate, NoneAssumption DEF EndPending
<1>. QED
  BY <1>1 DEF Fate

\* Every step is one of OneTimeCode, or changes nothing that the two see of it.
LEMMA CodeStep == IInv /\ IInv' /\ [Next]_vars => [Codes!Next]_(Codes!vars)
<1>. SUFFICES ASSUME IInv, IInv', [Next]_vars PROVE Codes!Next \/ UNCHANGED Codes!vars
  OBVIOUS
<1>. USE MaxTriesAssumption, NoneAssumption
<1>. DEFINE Same == \A c \in Commands : Fate(c)' = Fate(c)
            Void(x) == \A c \in Commands : Fate(c)' = IF c = x THEN "void" ELSE Fate(c)
<1>1. ASSUME Same, UNCHANGED <<device, over, wrong, said, answer>>
      PROVE  UNCHANGED Codes!vars
  BY <1>1 DEF Codes!vars
<1>2. ASSUME NEW x \in Commands, Void(x), Fate(x) # "used",
             UNCHANGED <<device, over, wrong, said, answer>>
      PROVE  Codes!Next \/ UNCHANGED Codes!vars
  <2>1. CASE Fate(x) = "void"
    BY <1>1, <1>2, <2>1
  <2>2. CASE Fate(x) \in {"none", "open"}
    <3>1. Codes!Withdraw(x)
      BY <1>2, <2>2 DEF Codes!Withdraw
    <3>. QED
      BY <3>1 DEF Codes!Next
  <2>. QED
    BY <1>2, <2>1, <2>2 DEF Fate
<1>3. ASSUME NEW p \in Phones, answer[p] = "nothing", NEW what \in {"refused", "403", "404", "500"},
             answer' = [answer EXCEPT ![p] = what], UNCHANGED <<device, over, wrong, said>>,
             Same \/ (\E x \in Commands : Fate(x) = "open" /\ Void(x))
      PROVE  Codes!Next
  <2>1. Codes!TurnAway(p)
    <3>1. what \notin {"nothing", "200"}
      BY <1>3
    <3>2. Codes!Answer(p, Got(what)) /\ Got(what) = "unpaired"
      BY <1>3, <3>1, AnswerStep, Tellings, Zenon DEF IInv
    <3>. QED
      BY <1>3, <3>2 DEF Codes!TurnAway
  <2>. QED
    BY <2>1 DEF Codes!Next
<1>4. ASSUME NEW c \in Commands, Refuse(c) PROVE Codes!Next \/ UNCHANGED Codes!vars
  <2>1. /\ pc[c] = "idle" /\ pc'[c] = "done" /\ cur # c /\ device[c] = None
        /\ \A d \in Commands \ {c} : pc'[d] = pc[d]
        /\ UNCHANGED <<cur, device, over, wrong, said, answer>>
    BY <1>4 DEF Refuse, Goto, IInv, TypeOK, HandlerInv, ResultInv, managerVars, commandVars, phoneVars
  <2>2. Void(c)
    BY <2>1 DEF Fate
  <2>. QED
    BY <1>2, <2>1, <2>2 DEF Fate
<1>5. ASSUME NEW c \in Commands, Start(c) PROVE Codes!Next \/ UNCHANGED Codes!vars
  <2>1. /\ pc[c] = "generated" /\ pc'[c] = "started" /\ cur # c /\ cur' = c /\ device[c] = None
        /\ \A d \in Commands \ {c} : pc'[d] = pc[d]
        /\ UNCHANGED <<device, over, wrong, said, answer>>
    <3>1. done[c] = None /\ cur # c
      BY <1>5 DEF Start, IInv, HandlerInv
    <3>2. device[c] = None
      BY <3>1 DEF IInv, ResultInv, Outcomes
    <3>. QED
      BY <1>5, <3>1, <3>2 DEF Start, Begin, Goto, IInv, TypeOK, commandVars, phoneVars
  <2>2. \A d \in Commands \ {c} : Fate(d)' = IF d = cur THEN "void" ELSE Fate(d)
    <3>1. cur # None => device[cur] = None /\ pc[cur] \in {"started", "wait"}
      BY PendingFate
    <3>. QED
      BY <2>1, <3>1 DEF Fate
  <2>3. \A d \in Commands : Fate(d) = "open" => d = cur
    BY DEF Fate
  <2>4. CASE Fate(c) = "none"
    <3>1. Fate(c)' = "open"
      BY <2>1, <2>4 DEF Fate
    <3>2. \A d \in Commands : Fate(d)' = IF d = c THEN "open" ELSE IF Fate(d) = "open" THEN "void" ELSE Fate(d)
      BY <2>1, <2>2, <2>3, <3>1, PendingFate
    <3>3. Codes!Offer(c)
      BY <2>1, <2>4, <3>2 DEF Codes!Offer
    <3>. QED
      BY <3>3 DEF Codes!Next
  <2>5. CASE Fate(c) # "none"
    <3>1. Fate(c) = "void" /\ Fate(c)' = "void"
      BY <2>1, <2>5 DEF Fate
    <3>2. CASE cur = None
      BY <1>1, <2>1, <2>2, <3>1, <3>2
    <3>3. CASE cur # None
      BY <1>2, <2>1, <2>2, <3>1, <3>3, PendingFate
    <3>. QED
      BY <3>2, <3>3
  <2>. QED
    BY <2>4, <2>5
<1>6. ASSUME NEW c \in Commands, Expire(c) \/ Cancel(c) PROVE Codes!Next \/ UNCHANGED Codes!vars
  <2>1. /\ pc[c] = "wait" /\ pc'[c] = "read" /\ \A d \in Commands \ {c} : pc'[d] = pc[d]
        /\ UNCHANGED <<device, over, wrong, said, answer>>
        /\ cur # c => UNCHANGED cur
        /\ cur = c => \E outcome : EndPending(outcome)
    BY <1>6 DEF Expire, Cancel, EndIf, Goto, IInv, TypeOK, commandVars, phoneVars
  <2>2. CASE cur = c
    <3>1. Void(cur)
      BY <2>1, <2>2, EndedFate
    <3>. QED
      BY <1>2, <2>1, <2>2, <3>1, PendingFate
  <2>3. CASE cur # c
    BY <1>1, <2>1, <2>3, FateKept
  <2>. QED
    BY <2>2, <2>3
<1>7. ASSUME NEW c \in Commands,
             Generate(c) \/ SendStarted(c) \/ TakeResult(c) \/ Report(c) \/ ShowCode(c)
      PROVE  UNCHANGED Codes!vars
  <2>1. /\ UNCHANGED <<cur, device, over, wrong, said, answer>>
        /\ \A d \in Commands : pc'[d] \in {"idle", "generated"} <=> pc[d] \in {"idle", "generated"}
    BY <1>7 DEF Generate, SendStarted, TakeResult, Report, ShowCode, Goto, IInv, TypeOK,
       managerVars, handlerVars, commandVars, phoneVars
  <2>. QED
    BY <1>1, <2>1, FateKept
<1>8. ASSUME NEW c \in Commands, NEW what, said[c] = "nothing", said' = [said EXCEPT ![c] = what],
             UNCHANGED <<cur, pc, device, over, wrong, answer>>,
             what \in {"interrupted", "stopped"} \/ (what = "paired" /\ device[c] # None)
             \/ (what \in Sayings \ {"nothing", "paired", "interrupted", "stopped"} /\ device[c] = None /\ Fate(c)' = "void")
      PROVE  Codes!Next
  <2>1. \A d \in Commands \ {c} : said'[d] = said[d] /\ Fate(d)' = Fate(d)
    BY <1>8, FateKept DEF IInv, TypeOK
  <2>2. said'[c] = what
    BY <1>8 DEF IInv, TypeOK
  <2>6. [d \in Commands |-> Told(said'[d])] = [[d \in Commands |-> Told(said[d])] EXCEPT ![c] = Told(what)]
    BY <1>8, SayStep DEF IInv
  <2>3. CASE what \in {"interrupted", "stopped"}
    <3>1. Fate(c)' = Fate(c)
      BY <1>8, <2>2, <2>3 DEF Fate
    <3>2. Codes!Tell(c, "unknown")
      <4>1. Told(what) = "unknown" /\ Told(said[c]) = "nothing"
        BY <1>8, <2>3, <3>1, Tellings
      <4>. QED
        BY <1>8, <2>1, <2>6, <3>1, <4>1 DEF Codes!Tell
    <3>. QED
      BY <3>2 DEF Codes!Next
  <2>4. CASE what = "paired" /\ device[c] # None
    <3>1. Fate(c)' = "used" /\ Fate(c) = "used"
      BY <1>8, <2>4 DEF Fate
    <3>2. Codes!Tell(c, "paired")
      <4>1. Told(what) = "paired" /\ Told(said[c]) = "nothing"
        BY <1>8, <2>4, <3>1, Tellings
      <4>. QED
        BY <1>8, <2>1, <2>6, <3>1, <4>1 DEF Codes!Tell
    <3>. QED
      BY <3>2 DEF Codes!Next
  <2>5. CASE what \in Sayings \ {"nothing", "paired", "interrupted", "stopped"} /\ device[c] = None /\ Fate(c)' = "void"
    <3>1. Fate(c) # "used" /\ Told(what) = "unpaired"
      BY <2>5, Tellings DEF Fate
    <3>2. Codes!Tell(c, "unpaired")
      <4>1. Told(what) = "unpaired" /\ Told(said[c]) = "nothing"
        BY <1>8, <2>5, <3>1, Tellings
      <4>2. \A d \in Commands : Fate(d)' = IF d = c THEN "void" ELSE Fate(d)
        BY <2>1, <2>5
      <4>3. [d \in Commands |-> Fate(d)]' = [[d \in Commands |-> Fate(d)] EXCEPT ![c] = "void"]
        BY <4>2
      <4>. QED
        BY <1>8, <2>6, <3>1, <4>1, <4>3 DEF Codes!Tell
    <3>. QED
      BY <3>2 DEF Codes!Next
  <2>. QED
    BY <1>8, <2>3, <2>4, <2>5
<1>9. ASSUME NEW c \in Commands, ReadEnd(c) PROVE Codes!Next
  <2>1. /\ said[c] = "nothing" /\ said' = [said EXCEPT ![c] = event[c]]
        /\ UNCHANGED <<cur, pc, device, over, wrong, answer>>
        /\ pc[c] = "done" /\ cur # c
        /\ event[c] \in Outcomes \cup {"refused"}
        /\ device[c] # None <=> event[c] = "paired"
    BY <1>9 DEF ReadEnd, Say, IInv, TypeOK, HandlerInv, ResultInv, managerVars, handlerVars, phoneVars
  <2>2. device[c] = None => Fate(c)' = "void"
    BY <2>1 DEF Fate, IInv, TypeOK
  <2>. QED
    BY <1>8, <2>1, <2>2 DEF Outcomes, Sayings
<1>10. ASSUME NEW c \in Commands, BreakOff(c) \/ Interrupt(c) PROVE Codes!Next
  <2>. DEFINE what == said'[c]
  <2>1. /\ said[c] = "nothing" /\ said' = [said EXCEPT ![c] = what]
        /\ UNCHANGED <<cur, pc, device, over, wrong, answer>>
        /\ c \in shown => what \in {"interrupted", "stopped"}
        /\ c \notin shown => what \in {"refused", "interruptedEarly"}
    BY <1>10 DEF BreakOff, Interrupt, Say, IInv, TypeOK, managerVars, handlerVars, phoneVars
  <2>2. c \notin shown => device[c] = None
    BY DEF IInv, ResultInv
  <2>3. c \notin shown => Fate(c)' = "void"
    BY <2>1, <2>2 DEF Fate
  <2>. QED
    BY <1>8, <2>1, <2>2, <2>3 DEF Sayings, Outcomes
<1>11. ASSUME NEW c \in Commands, TimeIsUp(c) PROVE Codes!Next
  <2>1. over' = over \cup {c} /\ UNCHANGED <<cur, pc, device, wrong, said, answer>>
    BY <1>11 DEF TimeIsUp, managerVars, handlerVars, commandVars, phoneVars
  <2>2. Same
    BY <2>1, FateKept
  <2>3. Codes!Elapse(c)
    BY <2>1, <2>2 DEF Codes!Elapse
  <2>. QED
    BY <2>3 DEF Codes!Next
<1>12. ASSUME NEW p \in Phones, PhoneRefused(p) PROVE Codes!Next
  <2>1. /\ answer[p] = "nothing" /\ answer' = [answer EXCEPT ![p] = "refused"]
        /\ UNCHANGED <<cur, pc, device, over, wrong, said>>
    BY <1>12 DEF PhoneRefused, AnswerPhone, managerVars, handlerVars, commandVars
  <2>. QED
    BY <1>3, <2>1, FateKept
<1>13. ASSUME NEW p \in Phones, RedeemNone(p) PROVE Codes!Next
  <2>1. /\ answer[p] = "nothing" /\ answer' = [answer EXCEPT ![p] = "404"]
        /\ UNCHANGED <<pc, device, over, wrong, said>>
        /\ Over => EndPending("expired")
        /\ ~Over => UNCHANGED cur
    BY <1>13 DEF RedeemNone, AnswerPhone, handlerVars, commandVars
  <2>2. CASE Over
    <3>1. cur # None /\ Void(cur)
      BY <2>1, <2>2, EndedFate DEF Over
    <3>2. Same \/ (\E x \in Commands : Fate(x) = "open" /\ Void(x))
      BY <3>1, PendingFate
    <3>. QED
      BY <1>3, <2>1, <3>2
  <2>3. CASE ~Over
    BY <1>3, <2>1, <2>3, FateKept
  <2>. QED
    BY <2>2, <2>3
<1>14. ASSUME NEW p \in Phones, RedeemWrong(p) PROVE Codes!Next
  <2>1. /\ answer[p] = "nothing" /\ answer' = [answer EXCEPT ![p] = "403"] /\ cur # None
        /\ UNCHANGED <<pc, device, over, said>> /\ wrong' = [wrong EXCEPT ![cur] = @ + 1]
        /\ tries + 1 >= MaxTries => EndPending("voided")
        /\ tries + 1 < MaxTries => UNCHANGED cur
        /\ tries = wrong[cur] /\ wrong[cur] \in 0..(MaxTries - 1)
    BY <1>14 DEF RedeemWrong, Redeemable, AnswerPhone, handlerVars, commandVars, IInv, TypeOK, GuessesAreCounted
  <2>2. \A c \in Commands : Fate(c)' = IF wrong[cur] + 1 = MaxTries /\ c = cur THEN "void" ELSE Fate(c)
    <3>1. CASE wrong[cur] + 1 = MaxTries
      BY <2>1, <3>1, EndedFate
    <3>2. CASE wrong[cur] + 1 # MaxTries
      BY <2>1, <3>2, FateKept
    <3>. QED
      BY <3>1, <3>2
  <2>3. Codes!Guess(cur, p)
    <3>1. Codes!Answer(p, "unpaired")
      <4>1. Got("403") = "unpaired"
        BY Tellings
      <4>2. Codes!Answer(p, Got("403"))
        BY <2>1, AnswerStep, Zenon DEF IInv
      <4>. QED
        BY <4>1, <4>2, Zenon
    <3>2. cur \in Commands /\ Fate(cur) \in {"open", "void"}
      BY <2>1, PendingFate
    <3>. QED
      BY <2>1, <2>2, <3>1, <3>2 DEF Codes!Guess
  <2>. QED
    BY <2>1, <2>3, PendingFate DEF Codes!Next
<1>15. ASSUME NEW p \in Phones, RedeemFails(p) PROVE Codes!Next
  <2>1. /\ answer[p] = "nothing" /\ answer' = [answer EXCEPT ![p] = "500"] /\ cur # None /\ cur \in shown
        /\ UNCHANGED <<pc, device, over, wrong, said>> /\ EndPending("failed")
    BY <1>15 DEF RedeemFails, Redeemable, AnswerPhone, handlerVars, commandVars
  <2>2. Void(cur)
    BY <2>1, EndedFate
  <2>. QED
    BY <1>3, <2>1, <2>2, PendingFate
<1>16. ASSUME NEW p \in Phones, Redeem(p) PROVE Codes!Next
  <2>1. /\ answer[p] = "nothing" /\ answer' = [answer EXCEPT ![p] = "200"]
        /\ cur # None /\ cur \in shown /\ cur \notin over /\ cur' = None
        /\ device' = [device EXCEPT ![cur] = p] /\ UNCHANGED <<pc, over, wrong, said>>
    BY <1>16 DEF Redeem, Redeemable, Over, EndPending, AnswerPhone, handlerVars, commandVars
  <2>2. cur \in Commands /\ Fate(cur) = "open"
    BY <2>1, PendingFate
  <2>3. \A c \in Commands : Fate(c)' = IF c = cur THEN "used" ELSE Fate(c)
    BY <2>1, <2>2 DEF Fate, IInv, TypeOK
  <2>4. wrong[cur] < MaxTries
    BY <2>1, <2>2 DEF IInv, TypeOK, GuessesAreCounted
  <2>5. Codes!Use(cur, p)
    <3>1. Codes!Answer(p, "paired")
      <4>1. Got("200") = "paired"
        BY Tellings
      <4>2. Codes!Answer(p, Got("200"))
        BY <2>1, AnswerStep, Zenon DEF IInv
      <4>. QED
        BY <4>1, <4>2, Zenon
    <3>. QED
      BY <2>1, <2>2, <2>3, <2>4, <3>1 DEF Codes!Use
  <2>. QED
    BY <2>2, <2>5 DEF Codes!Next
<1>17. ASSUME BeginStop \/ CloseAdmin \/ UNCHANGED vars PROVE UNCHANGED Codes!vars
  <2>1. UNCHANGED <<cur, pc, device, over, wrong, said, answer>>
    BY <1>17 DEF BeginStop, CloseAdmin, vars, managerVars, handlerVars, commandVars, phoneVars
  <2>. QED
    BY <1>1, <2>1, FateKept
<1>. QED
  BY <1>4, <1>5, <1>6, <1>7, <1>9, <1>10, <1>11, <1>12, <1>13, <1>14, <1>15, <1>16, <1>17
  DEF Next, HandlerStep, CommandStep

\* A code pairs one phone at most, only while it is pending, in time and not
\* guessed at too often; the phone that is told so holds it, and what a command
\* has said of its code stays so: pairing, with everything that ends it at the
\* same time, is OneTimeCode (Manager.Redeem, endLocked, cmdPair).
THEOREM PairsAsPromised == Spec => IsOneTimeCode
<1>1. Init => Codes!Init
  BY NoneAssumption, Tellings DEF Init, Codes!Init, Fate
<1>2. IInv /\ IInv' /\ [Next]_vars => [Codes!Next]_(Codes!vars)
  BY CodeStep
<1>. QED
  BY <1>1, <1>2, Invariance, PTL DEF Spec, IsOneTimeCode, Codes!Spec

---------------------------------------------------------------------------
(* The limiter that server.handlePair asks and tells of every failure:     *)
(* what it gives up when its table is full.                                *)

\* Trimming adds no entry and drops no running block, and leaves an entry its
\* fields and the end of its block.
LEMMA LimitsTrimmed ==
  ASSUME TableInv
  PROVE  /\ DOMAIN Trimmed \subseteq DOMAIN addrs
         /\ \A a \in DOMAIN addrs : Blocked(a) => a \in DOMAIN Trimmed
         /\ \A a \in DOMAIN Trimmed :
              /\ DOMAIN Trimmed[a] = {"failures", "blockedUntil"}
              /\ Trimmed[a].blockedUntil = addrs[a].blockedUntil
<1>. DEFINE trim == [a \in DOMAIN addrs |-> [addrs[a] EXCEPT !.failures = Recent(@)]]
            kept == {a \in DOMAIN addrs : trim[a].failures # << >> \/ Running(trim[a])}
<1>1. Trimmed = [a \in kept |-> trim[a]]
  BY DEF Trimmed
<1>2. kept \subseteq DOMAIN addrs
  OBVIOUS
<1>3. ASSUME NEW a \in DOMAIN addrs
      PROVE  /\ DOMAIN trim[a] = {"failures", "blockedUntil"}
             /\ trim[a].blockedUntil = addrs[a].blockedUntil
  <2>1. trim[a] = [addrs[a] EXCEPT !.failures = Recent(@)]
    OBVIOUS
  <2>2. DOMAIN addrs[a] = {"failures", "blockedUntil"}
    BY DEF TableInv
  <2>. HIDE DEF trim
  <2>. QED
    BY <2>1, <2>2
<1>4. ASSUME NEW a \in DOMAIN addrs, Blocked(a) PROVE a \in kept
  <2>. HIDE DEF trim
  <2>. QED
    BY <1>3, <1>4 DEF Blocked, Running
<1>. HIDE DEF trim, kept
<1>. QED
  BY <1>1, <1>2, <1>3, <1>4

\* One more failure of an address: the table keeps to its limit, and a running block
\* goes only when every entry runs and none that stays ends sooner.
LEMMA LimitsFail ==
  ASSUME TableInv, NEW a \in Addresses, Fail(a)
  PROVE  /\ TableInv'
         /\ \A b \in DOMAIN addrs \ DOMAIN addrs' : Blocked(b) =>
              \A c \in DOMAIN addrs \cap DOMAIN addrs' :
                Blocked(c) /\ ~(addrs[c].blockedUntil < addrs[b].blockedUntil)
<1>. DEFINE table == IF a \notin DOMAIN addrs /\ Full(addrs) THEN Trimmed ELSE addrs
<1>1. PICK gone \in IF a \in DOMAIN addrs THEN {{}} ELSE MakeRoom(table) :
           addrs' = [b \in (DOMAIN table \ gone) \cup {a} |->
                       IF b # a THEN table[b]
                       ELSE Failed(IF a \in DOMAIN addrs THEN addrs[a] ELSE New)]
  BY DEF Fail
<1>2. /\ MaxAddresses \in Nat \ {0} /\ EvictBatch \in Nat \ {0}
      /\ IsFiniteSet(DOMAIN addrs) /\ Cardinality(DOMAIN addrs) <= MaxAddresses
      /\ Cardinality(DOMAIN addrs) \in Nat
  BY TableAssumption, FS_CardinalityType DEF TableInv
<1>3. /\ DOMAIN table \subseteq DOMAIN addrs
      /\ \A b \in DOMAIN addrs : Blocked(b) => b \in DOMAIN table
      /\ \A b \in DOMAIN table : /\ DOMAIN table[b] = {"failures", "blockedUntil"}
                                 /\ table[b].blockedUntil = addrs[b].blockedUntil
  BY LimitsTrimmed DEF TableInv
<1>. HIDE DEF table
<1>4. DOMAIN addrs' = (DOMAIN table \ gone) \cup {a}
  BY <1>1
<1>5. /\ IsFiniteSet(DOMAIN table) /\ Cardinality(DOMAIN table) \in Nat
      /\ Cardinality(DOMAIN table) <= Cardinality(DOMAIN addrs)
      /\ Cardinality(DOMAIN table) = Cardinality(DOMAIN addrs) => DOMAIN table = DOMAIN addrs
  BY <1>2, <1>3, FS_Subset, FS_CardinalityType
<1>6. \A b \in DOMAIN addrs' : DOMAIN addrs'[b] = {"failures", "blockedUntil"}
  <2>1. ASSUME NEW e PROVE DOMAIN Failed(e) = {"failures", "blockedUntil"}
    BY DEF Failed
  <2>. QED
    BY <1>1, <1>3, <1>4, <2>1
<1>7. CASE gone = {}
  <2>1. CASE a \in DOMAIN addrs
    <3>1. DOMAIN addrs' = DOMAIN addrs
      BY <1>4, <1>7, <2>1 DEF table
    <3>. QED
      BY <1>2, <1>6, <3>1 DEF TableInv
  <2>2. CASE a \notin DOMAIN addrs
    <3>1. ~Full(table)
      <4>1. gone \in MakeRoom(table)
        BY <1>1, <2>2
      <4>2. gone \notin Evictable(table)
        BY <1>2, <1>7, FS_EmptySet DEF Evictable
      <4>. QED
        BY <4>1, <4>2 DEF MakeRoom
    <3>2. Cardinality(DOMAIN table) < MaxAddresses
      BY <1>2, <1>5, <3>1 DEF Full
    <3>3. /\ IsFiniteSet(DOMAIN table \cup {a})
          /\ Cardinality(DOMAIN table \cup {a}) <= MaxAddresses
      <4>1. /\ IsFiniteSet(DOMAIN table \cup {a})
            /\ \/ Cardinality(DOMAIN table \cup {a}) = Cardinality(DOMAIN table)
               \/ Cardinality(DOMAIN table \cup {a}) = Cardinality(DOMAIN table) + 1
        BY <1>5, FS_AddElement
      <4>. QED
        BY <1>2, <1>5, <3>2, <4>1
    <3>4. DOMAIN addrs' = DOMAIN table \cup {a}
      BY <1>4, <1>7
    <3>. QED
      BY <1>3, <1>6, <3>3, <3>4 DEF TableInv
  <2>. QED
    BY <2>1, <2>2
<1>8. CASE gone # {}
  <2>1. a \notin DOMAIN addrs /\ gone \in Evictable(table) /\ Full(table)
    BY <1>1, <1>8 DEF MakeRoom
  <2>2. /\ gone \subseteq DOMAIN table
        /\ \A b \in gone, c \in DOMAIN table \ gone : ~Before(table[c], table[b])
    BY <2>1 DEF Evictable
  <2>3. Cardinality(DOMAIN table) = MaxAddresses /\ DOMAIN table = DOMAIN addrs
    BY <1>2, <1>5, <2>1 DEF Full
  <2>4. /\ IsFiniteSet(DOMAIN table \ gone) /\ Cardinality(DOMAIN table \ gone) \in Nat
        /\ Cardinality(DOMAIN table \ gone) < MaxAddresses
    <3>1. /\ DOMAIN table \ gone # DOMAIN table
          /\ DOMAIN table \ gone \in SUBSET DOMAIN table
      BY <1>8, <2>2
    <3>2. /\ IsFiniteSet(DOMAIN table \ gone)
          /\ Cardinality(DOMAIN table \ gone) <= Cardinality(DOMAIN table)
          /\ Cardinality(DOMAIN table) # Cardinality(DOMAIN table \ gone)
      BY <1>5, <3>1, FS_Subset
    <3>. QED
      BY <1>2, <1>5, <2>3, <3>2, FS_CardinalityType
  <2>5. IsFiniteSet(DOMAIN addrs') /\ Cardinality(DOMAIN addrs') <= MaxAddresses
    <3>. DEFINE rest == DOMAIN table \ gone
    <3>1. /\ IsFiniteSet(rest \cup {a})
          /\ Cardinality(rest \cup {a}) = Cardinality(rest) \/ Cardinality(rest \cup {a}) = Cardinality(rest) + 1
      <4>. HIDE DEF rest
      <4>1. IsFiniteSet(rest)
        BY <2>4 DEF rest
      <4>. QED
        BY <4>1, FS_AddElement
    <3>2. DOMAIN addrs' = rest \cup {a}
      BY <1>4
    <3>3. Cardinality(rest) \in Nat /\ Cardinality(rest) < MaxAddresses
      BY <2>4
    <3>. HIDE DEF rest
    <3>. QED
      BY <1>2, <3>1, <3>2, <3>3
  <2>6. ASSUME NEW b \in DOMAIN addrs \ DOMAIN addrs', Blocked(b),
               NEW c \in DOMAIN addrs \cap DOMAIN addrs'
        PROVE  Blocked(c) /\ ~(addrs[c].blockedUntil < addrs[b].blockedUntil)
    <3>1. /\ b \in gone /\ c \in DOMAIN table \ gone
          /\ table[b].blockedUntil = addrs[b].blockedUntil
          /\ table[c].blockedUntil = addrs[c].blockedUntil
      BY <1>3, <1>4, <2>1, <2>2, <2>3, <2>6
    <3>2. ~Before(table[c], table[b])
      BY <2>2, <3>1
    <3>. QED
      BY <2>3, <2>6, <3>1, <3>2 DEF Before, Running, Blocked
  <2>. QED
    BY <1>6, <2>5, <2>6 DEF TableInv
<1>. QED
  BY <1>7, <1>8

\* BlocksGoLast: the table of the limiter never outgrows its limit, and a running
\* block makes room in it only when nothing else can and none that stays ends
\* sooner, for any addresses, limits, batches, windows and penalties (evictLocked).
THEOREM EvictionIsFair == LimiterSpec => BlocksGoLast
<1>. DEFINE Fair == /\ Cardinality(DOMAIN addrs') <= MaxAddresses
                    /\ \A a \in DOMAIN addrs \ DOMAIN addrs' : Blocked(a) =>
                         \A b \in DOMAIN addrs \cap DOMAIN addrs' :
                           Blocked(b) /\ ~(addrs[b].blockedUntil < addrs[a].blockedUntil)
<1>1. LimiterInit => TableInv
  <2>. SUFFICES ASSUME LimiterInit PROVE TableInv
    OBVIOUS
  <2>1. DOMAIN addrs = {}
    BY DEF LimiterInit
  <2>. QED
    BY <2>1, TableAssumption, FS_EmptySet DEF TableInv
<1>2. TableInv /\ [LimiterNext]_limiterVars => TableInv' /\ [Fair]_limiterVars
  <2>. SUFFICES ASSUME TableInv, [LimiterNext]_limiterVars
                PROVE  TableInv' /\ [Fair]_limiterVars
    OBVIOUS
  <2>1. CASE \E a \in Addresses : Fail(a)
    BY <2>1, LimitsFail DEF TableInv
  <2>2. CASE Tick
    BY <2>2 DEF Tick, TableInv
  <2>3. CASE UNCHANGED limiterVars
    BY <2>3 DEF limiterVars, TableInv
  <2>. QED
    BY <2>1, <2>2, <2>3 DEF LimiterNext
<1>. QED
  BY <1>1, <1>2, PTL DEF LimiterSpec, BlocksGoLast

---------------------------------------------------------------------------
(* Its answers: whoever is blocked deserves it, and nobody else is.        *)

\* Every set of naturals with an element has a least one.
LEMMA LeastOne ==
  ASSUME NEW T, T \subseteq Nat, T # {}
  PROVE  \E x \in T : \A y \in T : x <= y
<1>1. \E x \in T : \A y \in T : ~(<<y, x>> \in OpToRel(<, Nat))
  <2>. DEFINE R == OpToRel(<, Nat)
  <2>1. IsWellFoundedOn(R, Nat)
    BY NatLessThanWellFounded
  <2>. HIDE DEF R
  <2>2. \E x \in T : \A y \in T : ~(<<y, x>> \in R)
    BY <2>1, WFMin
  <2>. QED
    BY <2>2 DEF R
<1>2. \A x, y \in T : <<y, x>> \in OpToRel(<, Nat) <=> y < x
  BY DEF OpToRel
<1>3. \A x, y \in T : ~(y < x) => x <= y
  OBVIOUS
<1>. QED
  BY <1>1, <1>2, <1>3

\* The loop of recent stops, at the first failure in the window.
LEMMA CutFound ==
  ASSUME NEW times \in Seq(Nat), now \in Nat
  PROVE  /\ Cut(times) \in 0..Len(times)
         /\ \A j \in 1..Cut(times) : now - times[j] >= Window
         /\ Cut(times) = Len(times) \/ now - times[Cut(times) + 1] < Window
<1>. DEFINE Stops == {c \in 0..Len(times) : c = Len(times) \/ now - times[c + 1] < Window}
<1>1. Len(times) \in Nat /\ \A j \in 1..Len(times) : times[j] \in Nat
  OBVIOUS
<1>2. Stops \subseteq Nat /\ Len(times) \in Stops
  BY <1>1
<1>3. PICK c \in Stops : \A d \in Stops : c <= d
  BY <1>2, LeastOne
<1>4. \A j \in 1..c : now - times[j] >= Window
  <2>. SUFFICES ASSUME NEW j \in 1..c, now - times[j] < Window PROVE FALSE
    BY <1>1, <1>2, <1>3, WindowAssumption
  <2>1. j - 1 \in Stops
    BY <1>1, <1>3
  <2>. HIDE DEF Stops
  <2>2. c <= j - 1
    BY <1>3, <2>1
  <2>3. c \in Nat /\ j \in 1..c
    BY <1>2
  <2>. QED
    BY <2>2, <2>3
<1>. QED
  BY <1>3, <1>4 DEF Cut

\* recent keeps the failures after the cut, in their order.
LEMMA RecentIs ==
  ASSUME NEW times \in Seq(Nat), now \in Nat
  PROVE  /\ Recent(times) \in Seq(Nat)
         /\ Len(Recent(times)) = Len(times) - Cut(times)
         /\ \A i \in 1..Len(Recent(times)) : Recent(times)[i] = times[Cut(times) + i]
<1>1. Cut(times) \in 0..Len(times) /\ Len(times) \in Nat
  BY CutFound
<1>. DEFINE m == Cut(times) + 1  n == Len(times)
<1>2. /\ m \in 1..(Len(times) + 1) /\ n \in (m - 1)..Len(times)
  BY <1>1
<1>3. /\ SubSeq(times, m, n) \in Seq(Nat)
      /\ Len(SubSeq(times, m, n)) = IF m <= n THEN n - m + 1 ELSE 0
      /\ \A i \in 1..(n - m + 1) : SubSeq(times, m, n)[i] = times[m + i - 1]
  <2>1. m \in Int /\ n \in Int /\ \A i \in m..n : i \in 1..Len(times)
    BY <1>1
  <2>2. \A i \in 1..Len(times) : times[i] \in Nat
    OBVIOUS
  <2>. HIDE DEF m, n
  <2>. QED
    BY ONLY <2>1, <2>2, SubSeqProperties
<1>4. n - m + 1 = Len(times) - Cut(times)
  BY <1>1
<1>5. \A i \in 1..(n - m + 1) : m + i - 1 = Cut(times) + i
  BY <1>1
<1>6. (IF m <= n THEN n - m + 1 ELSE 0) = Len(times) - Cut(times)
  <2>1. m \in Int /\ n \in Int /\ (m <= n \/ n - m + 1 = 0)
    BY <1>1
  <2>. QED
    BY <2>1, <1>4
<1>7. Recent(times) = SubSeq(times, m, n)
  BY DEF Recent
<1>. HIDE DEF m, n
<1>. QED
  BY <1>3, <1>4, <1>5, <1>6, <1>7

\* The newest failures are the last MaxFailures of them, or all.
LEMMA NewestIs ==
  ASSUME NEW times \in Seq(Nat)
  PROVE  /\ Newest(times) \in Seq(Nat)
         /\ Len(Newest(times)) = IF Len(times) < MaxFailures THEN Len(times) ELSE MaxFailures
         /\ \A i \in 1..Len(Newest(times)) :
              Newest(times)[i] = times[Len(times) - Len(Newest(times)) + i]
<1>. DEFINE excess == Len(times) - MaxFailures
<1>1. Len(times) \in Nat /\ MaxFailures \in Nat
  BY PenaltyAssumption
<1>2. CASE excess > 0
  <2>. DEFINE m == excess + 1  n == Len(times)
  <2>1. m \in 1..(Len(times) + 1) /\ n \in (m - 1)..Len(times)
    BY <1>1, <1>2
  <2>2. /\ SubSeq(times, m, n) \in Seq(Nat)
        /\ Len(SubSeq(times, m, n)) = IF m <= n THEN n - m + 1 ELSE 0
        /\ \A i \in 1..(n - m + 1) : SubSeq(times, m, n)[i] = times[m + i - 1]
    <3>1. m \in Int /\ n \in Int /\ \A i \in m..n : i \in 1..Len(times)
      BY <1>1, <1>2
    <3>2. \A i \in 1..Len(times) : times[i] \in Nat
      OBVIOUS
    <3>. HIDE DEF m, n
    <3>. QED
      BY ONLY <3>1, <3>2, SubSeqProperties
  <2>3. n - m + 1 = MaxFailures /\ (IF m <= n THEN n - m + 1 ELSE 0) = MaxFailures
    BY <1>1, <1>2
  <2>4. \A i \in 1..MaxFailures : m + i - 1 = Len(times) - MaxFailures + i
    BY <1>1
  <2>5. Newest(times) = SubSeq(times, m, n)
    BY <1>2 DEF Newest
  <2>6. (IF Len(times) < MaxFailures THEN Len(times) ELSE MaxFailures) = MaxFailures
    BY <1>1, <1>2
  <2>. HIDE DEF m, n, excess
  <2>7. /\ Newest(times) \in Seq(Nat) /\ Len(Newest(times)) = MaxFailures
        /\ \A i \in 1..MaxFailures : Newest(times)[i] = times[m + i - 1]
    BY ONLY <2>2, <2>3, <2>5
  <2>. QED
    BY ONLY <2>4, <2>6, <2>7
<1>3. CASE ~(excess > 0)
  <2>1. Newest(times) = times
    BY <1>3 DEF Newest
  <2>2. (IF Len(times) < MaxFailures THEN Len(times) ELSE MaxFailures) = Len(times)
    BY <1>1, <1>3
  <2>3. \A i \in 1..Len(times) : Len(times) - Len(times) + i = i
    BY <1>1
  <2>. QED
    BY <2>1, <2>2, <2>3
<1>. QED
  BY <1>2, <1>3

\* What is left is in the window, and still stands for all of them.
LEMMA RecentKeeps ==
  ASSUME NEW times, InOrder(times), now \in Nat, NEW failures, KeepsLast(times, failures)
  PROVE  /\ KeepsLast(times, Recent(failures))
         /\ \A i \in 1..Len(Recent(failures)) : now - Recent(failures)[i] < Window
<1>. DEFINE cut == Cut(failures)  rest == Recent(failures)
            dropped == Len(times) - Len(failures)
<1>1. /\ times \in Seq(Nat) /\ failures \in Seq(Nat)
      /\ Len(times) \in Nat /\ Len(failures) \in Nat /\ Len(failures) <= Len(times)
      /\ \A i \in 1..Len(failures) : failures[i] = times[dropped + i]
      /\ dropped = 0 \/ now - times[dropped] >= Window \/ Len(failures) = MaxFailures
  BY DEF InOrder, KeepsLast
<1>2. /\ cut \in 0..Len(failures)
      /\ \A j \in 1..cut : now - failures[j] >= Window
      /\ cut = Len(failures) \/ now - failures[cut + 1] < Window
  BY <1>1, CutFound
<1>3. /\ rest \in Seq(Nat) /\ Len(rest) = Len(failures) - cut
      /\ \A i \in 1..Len(rest) : rest[i] = failures[cut + i]
  BY <1>1, RecentIs
<1>. HIDE DEF cut, rest
<1>4. Len(rest) \in Nat /\ Len(rest) <= Len(times) /\ Len(times) - Len(rest) = dropped + cut
  BY <1>1, <1>2, <1>3
<1>. DEFINE all == Len(times)  some == Len(failures)  few == Len(rest)
<1>5. /\ all \in Nat /\ some \in Nat /\ few \in Nat /\ cut \in Nat /\ dropped \in Nat
      /\ dropped = all - some /\ few = some - cut
  BY <1>1, <1>2, <1>3, <1>4
<1>6. ASSUME NEW i \in 1..few
       PROVE  /\ cut + 1 \in 1..some /\ cut + i \in 1..some
              /\ dropped + (cut + i) = all - few + i
              /\ dropped + (cut + 1) \in 1..all /\ dropped + (cut + i) \in 1..all
              /\ dropped + (cut + 1) <= dropped + (cut + i)
  <2>. HIDE DEF dropped, all, some, few
  <2>. QED
    BY <1>5
<1>7. \A i \in 1..Len(rest) : rest[i] = times[Len(times) - Len(rest) + i]
  <2>. SUFFICES ASSUME NEW i \in 1..Len(rest)
                PROVE  rest[i] = times[Len(times) - Len(rest) + i]
    OBVIOUS
  <2>1. cut + i \in 1..Len(failures)
    BY <1>6
  <2>2. rest[i] = times[dropped + (cut + i)]
    BY <1>1, <1>3, <2>1
  <2>3. dropped + (cut + i) = Len(times) - Len(rest) + i
    BY <1>6
  <2>. QED
    BY <2>2, <2>3
<1>8. \/ Len(times) - Len(rest) = 0 \/ now - times[Len(times) - Len(rest)] >= Window
      \/ Len(rest) = MaxFailures
  <2>1. CASE cut = 0
    BY <1>1, <1>3, <1>4, <2>1
  <2>2. CASE cut # 0
    <3>1. cut \in 1..cut /\ cut \in 1..Len(failures)
      BY <1>1, <1>2, <2>2
    <3>2. now - times[dropped + cut] >= Window
      BY <1>1, <1>2, <3>1
    <3>. QED
      BY <1>4, <3>2
  <2>. QED
    BY <2>1, <2>2
<1>9. ASSUME NEW i \in 1..Len(rest) PROVE now - rest[i] < Window
  <2>1. rest[i] = failures[cut + i] /\ cut + 1 \in 1..Len(failures) /\ cut + i \in 1..Len(failures)
    BY <1>3, <1>6
  <2>2. now - failures[cut + 1] < Window
    BY <1>1, <1>2, <2>1
  <2>3. /\ failures[cut + 1] = times[dropped + (cut + 1)]
        /\ failures[cut + i] = times[dropped + (cut + i)]
    BY <1>1, <2>1
  <2>4. /\ dropped + (cut + 1) \in 1..Len(times) /\ dropped + (cut + i) \in 1..Len(times)
        /\ dropped + (cut + 1) <= dropped + (cut + i)
    BY <1>6
  <2>5. times[dropped + (cut + 1)] <= times[dropped + (cut + i)]
    BY <2>4 DEF InOrder
  <2>6. failures[cut + 1] \in Nat /\ failures[cut + i] \in Nat
    <3>1. \A j \in 1..Len(failures) : failures[j] \in Nat
      BY <1>1
    <3>. QED
      BY <2>1, <3>1
  <2>. QED
    BY <2>1, <2>2, <2>3, <2>5, <2>6, WindowAssumption
<1>10. KeepsLast(times, rest)
  BY <1>3, <1>4, <1>7, <1>8 DEF KeepsLast
<1>. QED
  BY <1>9, <1>10 DEF rest

\* A failure more leaves those before it as they were, and is the last of them.
LEMMA OneMore ==
  ASSUME NEW times, InOrder(times), now \in Nat
  PROVE  /\ InOrder(Append(times, now))
         /\ Len(Append(times, now)) = Len(times) + 1
         /\ Append(times, now)[Len(times) + 1] = now
         /\ \A k \in 1..Len(times) : /\ Append(times, now)[k] = times[k]
                                     /\ Counted(Append(times, now), k) = Counted(times, k)
<1>. DEFINE more == Append(times, now)
<1>1. /\ times \in Seq(Nat) /\ Len(times) \in Nat
      /\ \A k \in 1..Len(times) : times[k] \in Nat /\ times[k] <= now
  BY DEF InOrder
<1>2. /\ more \in Seq(Nat) /\ Len(more) = Len(times) + 1 /\ more[Len(times) + 1] = now
      /\ \A k \in 1..Len(times) : more[k] = times[k]
  BY <1>1, AppendProperties
<1>. HIDE DEF more
<1>3. InOrder(more)
  <2>1. ASSUME NEW k \in 1..Len(more) PROVE more[k] <= now
    BY <1>1, <1>2
  <2>2. ASSUME NEW j \in 1..Len(more), NEW k \in 1..Len(more), j <= k
        PROVE  more[j] <= more[k]
    <3>1. CASE k = Len(times) + 1
      BY <1>2, <2>1, <3>1
    <3>2. CASE k # Len(times) + 1
      <4>1. j \in 1..Len(times) /\ k \in 1..Len(times)
        BY <1>1, <1>2, <2>2, <3>2
      <4>. QED
        BY <1>2, <2>2, <4>1 DEF InOrder
    <3>. QED
      BY <3>1, <3>2
  <2>. QED
    BY <1>2, <2>1, <2>2 DEF InOrder
<1>4. ASSUME NEW k \in 1..Len(times) PROVE Counted(more, k) = Counted(times, k)
  <2>1. \A j \in 1..k : more[j] = times[j]
    BY <1>1, <1>2
  <2>2. {j \in 1..k : more[k] - more[j] < Window} = {j \in 1..k : times[k] - times[j] < Window}
    BY <1>2, <2>1
  <2>. QED
    BY <2>2 DEF Counted
<1>. QED
  BY <1>2, <1>3, <1>4 DEF more

\* Newest has as many failures as count, or else as many as it may have: keeping the
\* newest few and dropping the others change no penalty.
LEMMA CountsAll ==
  ASSUME NEW times, InOrder(times), now \in Nat, NEW failures, KeepsLast(times, failures)
  PROVE  LET kept == Newest(Append(Recent(failures), now))
             count == Counted(Append(times, now), Len(times) + 1)
         IN /\ KeepsLast(Append(times, now), kept)
            /\ count \in 1..(Len(times) + 1)
            /\ Len(kept) = IF count < MaxFailures THEN count ELSE MaxFailures
<1>. DEFINE rest == Recent(failures)  next == Append(rest, now)  kept == Newest(next)
            more == Append(times, now)  all == Len(times)  few == Len(rest)
            In == {j \in 1..(all + 1) : more[all + 1] - more[j] < Window}
            count == Cardinality(In)
<1>1. /\ KeepsLast(times, rest) /\ \A i \in 1..few : now - rest[i] < Window
  BY RecentKeeps
<1>2. /\ times \in Seq(Nat) /\ rest \in Seq(Nat) /\ all \in Nat /\ few \in Nat /\ few <= all
      /\ \A i \in 1..few : rest[i] = times[all - few + i]
      /\ all - few = 0 \/ now - times[all - few] >= Window \/ few = MaxFailures
      /\ MaxFailures \in Nat \ {0} /\ Window \in Nat \ {0}
  BY <1>1, PenaltyAssumption, WindowAssumption DEF InOrder, KeepsLast
<1>3. /\ InOrder(more) /\ Len(more) = all + 1 /\ more[all + 1] = now
      /\ \A k \in 1..all : more[k] = times[k]
  BY OneMore
<1>4. /\ next \in Seq(Nat) /\ Len(next) = few + 1 /\ next[few + 1] = now
      /\ \A i \in 1..few : next[i] = rest[i]
  BY <1>2, AppendProperties
<1>5. /\ kept \in Seq(Nat)
      /\ Len(kept) = IF few + 1 < MaxFailures THEN few + 1 ELSE MaxFailures
      /\ \A i \in 1..Len(kept) : kept[i] = next[few + 1 - Len(kept) + i]
  <2>. HIDE DEF next, few
  <2>1. /\ kept \in Seq(Nat)
        /\ Len(kept) = IF Len(next) < MaxFailures THEN Len(next) ELSE MaxFailures
        /\ \A i \in 1..Len(kept) : kept[i] = next[Len(next) - Len(kept) + i]
    BY <1>4, NewestIs
  <2>. HIDE DEF kept
  <2>. QED
    BY <1>2, <1>4, <2>1
<1>6. Counted(more, all + 1) = count
  BY DEF Counted
<1>. HIDE DEF rest, next, kept, more, all, few
\* What is left counts, and so does the new one.
<1>7. \A i \in 1..(few + 1) : next[i] = more[all - few + i] /\ all - few + i \in In
  <2>. SUFFICES ASSUME NEW i \in 1..(few + 1)
                PROVE  next[i] = more[all - few + i] /\ all - few + i \in In
    OBVIOUS
  <2>1. all - few + i \in 1..(all + 1)
    BY <1>2
  <2>2. CASE i = few + 1
    <3>1. all - few + i = all + 1
      BY <1>2, <2>2
    <3>. QED
      BY <1>2, <1>3, <1>4, <2>1, <2>2, <3>1
  <2>3. CASE i # few + 1
    <3>1. i \in 1..few /\ all - few + i \in 1..all
      BY <1>2, <2>3
    <3>2. next[i] = more[all - few + i]
      BY <1>2, <1>3, <1>4, <3>1
    <3>3. now - more[all - few + i] < Window
      BY <1>1, <1>4, <3>1, <3>2
    <3>. QED
      BY <1>3, <2>1, <3>2, <3>3
  <2>. QED
    BY <2>2, <2>3
<1>8. KeepsLast(more, kept)
  <2>. DEFINE most == Len(kept)
  <2>1. most \in Nat /\ most <= few + 1 /\ most <= all + 1
    <3>1. most = IF few + 1 < MaxFailures THEN few + 1 ELSE MaxFailures
      BY <1>5
    <3>2. all \in Nat /\ few \in Nat /\ few <= all /\ MaxFailures \in Nat
      BY <1>2
    <3>. HIDE DEF most
    <3>. QED
      BY <3>1, <3>2
  <2>2. ASSUME NEW i \in 1..most PROVE kept[i] = more[all + 1 - most + i]
    <3>1. kept[i] = next[few + 1 - most + i]
      BY <1>5, <2>2
    <3>. HIDE DEF most
    <3>2. /\ few + 1 - most + i \in 1..(few + 1)
          /\ all - few + (few + 1 - most + i) = all + 1 - most + i
      BY <1>2, <2>1
    <3>. QED
      BY <1>7, <3>1, <3>2
  <2>3. all + 1 - most = 0 \/ now - more[all + 1 - most] >= Window \/ most = MaxFailures
    <3>1. CASE most = few + 1
      <4>1. all + 1 - most = all - few
        BY <1>2, <3>1
      <4>2. CASE few = MaxFailures
        BY <1>2, <1>5, <3>1, <4>2
      <4>3. CASE all - few # 0
        <5>1. all - few \in 1..all
          BY <1>2, <4>3
        <5>. QED
          BY <1>2, <1>3, <4>1, <4>2, <4>3, <5>1
      <4>. QED
        BY <4>1, <4>3
    <3>2. CASE most # few + 1
      BY <1>2, <1>5, <3>2
    <3>. QED
      BY <3>1, <3>2
  <2>4. /\ more \in Seq(Nat) /\ Len(more) - Len(kept) = all + 1 - most
        /\ Len(kept) <= Len(more)
    <3>1. more \in Seq(Nat)
      BY <1>3 DEF InOrder
    <3>. QED
      BY <1>2, <1>3, <2>1, <3>1
  <2>. HIDE DEF most
  <2>5. \A i \in 1..Len(kept) : kept[i] = more[Len(more) - Len(kept) + i]
    BY <2>2, <2>4 DEF most
  <2>. QED
    BY <1>5, <2>3, <2>4, <2>5 DEF KeepsLast, most
\* The rest does not count, unless there are more than the entry may keep.
<1>9. ASSUME few = MaxFailures
      PROVE  /\ count \in 1..(all + 1)
             /\ Len(kept) = IF count < MaxFailures THEN count ELSE MaxFailures
  <2>. DEFINE some == (all - few + 1)..(all + 1)
  <2>1. some \subseteq In
    <3>. SUFFICES ASSUME NEW j \in some PROVE j \in In
      OBVIOUS
    <3>1. j - (all - few) \in 1..(few + 1) /\ all - few + (j - (all - few)) = j
      BY <1>2
    <3>. QED
      BY <1>7, <3>1
  <2>2. Cardinality(some) = few + 1
    BY <1>2, FS_Interval
  <2>3. /\ In \subseteq 1..(all + 1) /\ IsFiniteSet(1..(all + 1))
        /\ Cardinality(1..(all + 1)) = all + 1
    BY <1>2, FS_Interval
  <2>4. /\ IsFiniteSet(In) /\ count <= all + 1 /\ count \in Nat
    BY <2>3, FS_Subset, FS_CardinalityType
  <2>5. Cardinality(some) <= count
    BY <2>1, <2>4, FS_Subset
  <2>. QED
    BY <1>2, <1>5, <1>9, <2>2, <2>4, <2>5
<1>10. ASSUME few # MaxFailures
       PROVE  /\ count \in 1..(all + 1)
              /\ Len(kept) = IF count < MaxFailures THEN count ELSE MaxFailures
  <2>1. In = (all - few + 1)..(all + 1)
    <3>1. ASSUME NEW j \in In PROVE j \in (all - few + 1)..(all + 1)
      <4>. SUFFICES ASSUME j <= all - few PROVE FALSE
        BY <1>2
      <4>1. /\ j \in 1..all /\ all - few \in 1..all /\ all - few # 0
            /\ now - times[all - few] >= Window
        BY <1>2, <1>10
      <4>2. times[j] <= times[all - few] /\ times[j] \in Nat /\ times[all - few] \in Nat
        <5>1. \A k \in 1..all : times[k] \in Nat
          BY <1>2 DEF all
        <5>. QED
          BY <4>1, <5>1 DEF InOrder, all
      <4>3. now - times[j] < Window
        BY <1>3, <4>1
      <4>. QED
        BY <1>2, <4>1, <4>2, <4>3
    <3>2. ASSUME NEW j \in (all - few + 1)..(all + 1) PROVE j \in In
      <4>1. j - (all - few) \in 1..(few + 1) /\ all - few + (j - (all - few)) = j
        BY <1>2
      <4>. QED
        BY <1>7, <4>1
    <3>. QED
      BY <3>1, <3>2
  <2>2. Cardinality((all - few + 1)..(all + 1)) = few + 1
    BY <1>2, FS_Interval
  <2>3. count = few + 1
    BY <2>1, <2>2
  <2>. QED
    BY <1>2, <1>5, <2>3
<1>. QED
  <2>1. /\ count \in 1..(all + 1)
        /\ Len(kept) = IF count < MaxFailures THEN count ELSE MaxFailures
    BY <1>9, <1>10
  <2>. QED
    BY <1>6, <1>8, <2>1 DEF kept, next, rest, more, all

\* A failure counts no more failures than there have been until it.
LEMMA CountedType ==
  ASSUME NEW times \in Seq(Nat), NEW k \in 1..Len(times)
  PROVE  Counted(times, k) \in 0..k
<1>. DEFINE In == {j \in 1..k : times[k] - times[j] < Window}
<1>1. IsFiniteSet(1..k) /\ Cardinality(1..k) = k /\ k \in Nat
  BY FS_Interval
<1>2. In \in SUBSET (1..k)
  OBVIOUS
<1>. HIDE DEF In
<1>3. Cardinality(In) \in Nat /\ Cardinality(In) <= k
  BY <1>1, <1>2, FS_Subset, FS_CardinalityType
<1>4. Counted(times, k) = Cardinality(In)
  BY DEF Counted, In
<1>. QED
  BY <1>1, <1>3, <1>4

\* What a failure that is one too many is worth.
LEMMA ServedType ==
  ASSUME PenaltiesAgree, NEW times \in Seq(Nat), Len(times) <= MaxCalls,
         NEW k \in 1..Len(times), TooMany(times, k)
  PROVE  ServedAt(times, k) \in Nat
<1>. DEFINE n == Counted(times, k)
<1>1. n \in 0..k /\ n >= Threshold
  BY CountedType DEF TooMany
<1>. HIDE DEF n
<1>2. k <= MaxCalls /\ MaxCalls \in Nat /\ Threshold \in Nat /\ k \in Nat
  BY BoundsAssumption, PenaltyAssumption
<1>3. n \in Threshold..MaxCalls
  BY <1>1, <1>2
<1>4. Worth(n) \in Nat
  BY <1>3 DEF PenaltiesAgree
<1>5. times[k] \in Nat
  OBVIOUS
<1>. QED
  BY <1>4, <1>5 DEF ServedAt, n

\* One failure more: the entry stands for it too.
LEMMA FailureStands ==
  ASSUME PenaltiesAgree, now \in Nat,
         NEW times, InOrder(times), Len(times) + 1 <= MaxCalls,
         NEW entry, StandsFor(entry, times)
  PROVE  StandsFor(Failed(entry), Append(times, now))
<1>. DEFINE more == Append(times, now)  last == Len(times) + 1
            kept == Newest(Append(Recent(entry.failures), now))
            count == Counted(more, last)  served == now + Penalty(Len(kept))
            was == entry.blockedUntil  until == Failed(entry).blockedUntil
<1>1. /\ times \in Seq(Nat) /\ Len(times) \in Nat /\ last \in Nat \ {0} /\ last <= MaxCalls
      /\ MaxCalls \in Nat /\ Threshold \in Nat \ {0}
      /\ MaxFailures \in Nat /\ Threshold <= MaxFailures
  BY BoundsAssumption, PenaltyAssumption DEF InOrder
<1>2. /\ KeepsLast(more, kept)
      /\ count \in 1..last
      /\ Len(kept) = IF count < MaxFailures THEN count ELSE MaxFailures
  BY CountsAll DEF StandsFor
<1>3. /\ InOrder(more) /\ Len(more) = last /\ more[last] = now
      /\ \A k \in 1..Len(times) : more[k] = times[k] /\ Counted(more, k) = Counted(times, k)
  BY OneMore
<1>4. /\ Failed(entry).failures = kept
      /\ until = IF Len(kept) >= Threshold THEN Later(served, was) ELSE was
  BY DEF Failed
<1>5. /\ was \in Nat
      /\ \A k \in 1..Len(times) : TooMany(times, k) =>
           ServedAt(times, k) <= was \/ ServedAt(times, k) <= now
      /\ was > now => \E k \in 1..Len(times) : TooMany(times, k) /\ ServedAt(times, k) = was
  BY DEF StandsFor, EndsLast
<1>. HIDE DEF more, last, kept, count, served, was, until
<1>6. /\ TooMany(more, last) <=> count >= Threshold
      /\ Len(kept) >= Threshold <=> count >= Threshold
  BY <1>1, <1>2 DEF TooMany, count
<1>7. ASSUME count >= Threshold
      PROVE  served \in Nat /\ ServedAt(more, last) = served
  <2>1. count \in Threshold..MaxCalls
    BY <1>1, <1>2, <1>7
  <2>2. Worth(count) \in Nat /\ Worth(count) = Penalty(Len(kept))
    BY <1>2, <2>1 DEF PenaltiesAgree
  <2>. QED
    BY <1>3, <2>2 DEF ServedAt, served, count
<1>8. /\ until \in Nat /\ was <= until
      /\ count >= Threshold => served <= until
      /\ until = was \/ (count >= Threshold /\ until = served)
  <2>1. CASE count >= Threshold
    <3>1. served \in Nat /\ was \in Nat /\ until = Later(served, was)
      BY <1>4, <1>5, <1>6, <1>7, <2>1
    <3>. QED
      BY <2>1, <3>1 DEF Later
  <2>2. CASE ~(count >= Threshold)
    <3>1. until = was /\ was \in Nat
      BY <1>4, <1>5, <1>6, <2>2
    <3>. QED
      BY <2>2, <3>1
  <2>. QED
    BY <2>1, <2>2
<1>9. \A k \in 1..Len(times) : /\ TooMany(more, k) <=> TooMany(times, k)
                               /\ ServedAt(more, k) = ServedAt(times, k)
  BY <1>3 DEF TooMany, ServedAt
<1>10. ASSUME NEW k \in 1..last, TooMany(more, k)
       PROVE  ServedAt(more, k) <= until \/ ServedAt(more, k) <= now
  <2>1. CASE k = last
    BY <1>6, <1>7, <1>8, <1>10, <2>1
  <2>2. CASE k # last
    <3>1. k \in 1..Len(times)
      BY <1>1, <2>2 DEF last
    <3>2. ServedAt(times, k) \in Nat
      <4>1. Len(times) <= MaxCalls
        BY <1>1 DEF last
      <4>. QED
        BY <1>1, <1>9, <1>10, <3>1, <4>1, ServedType
    <3>. QED
      BY <1>5, <1>8, <1>9, <1>10, <3>1, <3>2
  <2>. QED
    BY <2>1, <2>2
<1>11. ASSUME until > now
       PROVE  \E k \in 1..last : TooMany(more, k) /\ ServedAt(more, k) = until
  <2>1. CASE until = was
    <3>1. PICK k \in 1..Len(times) : TooMany(times, k) /\ ServedAt(times, k) = was
      BY <1>5, <1>11, <2>1
    <3>2. k \in 1..last
      BY <1>1 DEF last
    <3>. QED
      BY <1>9, <2>1, <3>1, <3>2
  <2>2. CASE until # was
    BY <1>1, <1>6, <1>7, <1>8, <2>2
  <2>. QED
    BY <2>1, <2>2
<1>12. EndsLast(more, until)
  BY <1>3, <1>8, <1>10, <1>11 DEF EndsLast
<1>. QED
  BY <1>2, <1>4, <1>12 DEF StandsFor, more, until

\* Trimming leaves entries that stand for as much, and an address that loses its entry
\* is like a new one.
LEMMA TrimmedStands ==
  ASSUME PenaltiesAgree, TableInv, now \in Nat, NEW a,
         NEW times, InOrder(times), Len(times) <= MaxCalls, StandsFor(EntryOf(a), times)
  PROVE  StandsFor(IF a \in DOMAIN Trimmed THEN Trimmed[a] ELSE New, times)
<1>. DEFINE trim == [b \in DOMAIN addrs |-> [addrs[b] EXCEPT !.failures = Recent(@)]]
            kept == {b \in DOMAIN addrs : trim[b].failures # << >> \/ Running(trim[b])}
<1>1. Trimmed = [b \in kept |-> trim[b]]
  BY DEF Trimmed
<1>2. CASE a \notin DOMAIN addrs
  <2>1. a \notin DOMAIN Trimmed
    BY <1>1, <1>2
  <2>. QED
    BY <1>2, <2>1 DEF EntryOf
<1>3. CASE a \in DOMAIN addrs
  <2>1. /\ trim[a].failures = Recent(addrs[a].failures)
        /\ trim[a].blockedUntil = addrs[a].blockedUntil
    <3>1. DOMAIN addrs[a] = {"failures", "blockedUntil"}
      BY <1>3 DEF TableInv
    <3>. QED
      BY <1>3, <3>1
  <2>2. /\ KeepsLast(times, trim[a].failures)
        /\ EndsLast(times, trim[a].blockedUntil)
    BY <1>3, <2>1, RecentKeeps DEF EntryOf, StandsFor
  <2>. HIDE DEF trim
  <2>3. CASE a \in kept
    <3>1. a \in DOMAIN Trimmed /\ Trimmed[a] = trim[a]
      BY <1>1, <2>3
    <3>. QED
      BY <2>2, <3>1 DEF StandsFor
  <2>4. CASE a \notin kept
    <3>1. a \notin DOMAIN Trimmed /\ trim[a].failures = << >> /\ ~Running(trim[a])
      BY <1>1, <1>3, <2>4
    <3>2. EndsLast(times, 0)
      <4>1. /\ trim[a].blockedUntil \in Nat /\ ~(trim[a].blockedUntil > now)
            /\ \A k \in 1..Len(times) : TooMany(times, k) =>
                 \/ ServedAt(times, k) <= trim[a].blockedUntil
                 \/ ServedAt(times, k) <= now
        BY <2>2, <3>1 DEF EndsLast, Running
      <4>2. \A k \in 1..Len(times) : TooMany(times, k) => ServedAt(times, k) \in Nat
        BY ServedType DEF InOrder
      <4>3. \A k \in 1..Len(times) : TooMany(times, k) => ServedAt(times, k) <= now
        BY <4>1, <4>2
      <4>. QED
        BY <4>3 DEF EndsLast
    <3>. QED
      BY <2>2, <3>1, <3>2 DEF StandsFor, New
  <2>. QED
    BY <2>3, <2>4
<1>. QED
  BY <1>2, <1>3

\* One failure of an address, with what the table gives up for it.
LEMMA AnswersFail ==
  ASSUME PenaltiesAgree, TableInv, HistoryInv, NEW a \in Addresses, Fail(a)
  PROVE  HistoryInv'
<1>. DEFINE table == IF a \notin DOMAIN addrs /\ Full(addrs) THEN Trimmed ELSE addrs
            EntryIn(b) == IF b \in DOMAIN table THEN table[b] ELSE New
<1>1. PICK gone \in IF a \in DOMAIN addrs THEN {{}} ELSE MakeRoom(table) :
        /\ addrs' = [b \in (DOMAIN table \ gone) \cup {a} |->
                       IF b # a THEN table[b]
                       ELSE Failed(IF a \in DOMAIN addrs THEN addrs[a] ELSE New)]
        /\ history' = [b \in Addresses |->
                         IF b = a THEN Append(history[b], now)
                         ELSE IF b \in gone THEN << >> ELSE history[b]]
  BY DEF Fail
<1>2. /\ now' = now /\ now \in Nat /\ calls' = calls + 1 /\ calls' \in 0..MaxCalls /\ calls \in Nat
      /\ calls + 1 <= MaxCalls /\ MaxCalls \in Nat
  BY BoundsAssumption DEF Fail, HistoryInv
<1>3. ASSUME NEW b \in Addresses
      PROVE  /\ InOrder(history[b]) /\ history[b] \in Seq(Nat) /\ Len(history[b]) \in Nat
             /\ Len(history[b]) <= calls /\ Len(history[b]) + 1 <= MaxCalls
             /\ StandsFor(EntryOf(b), history[b])
  BY <1>2 DEF HistoryInv, InOrder
<1>4. ASSUME NEW b \in Addresses PROVE StandsFor(EntryIn(b), history[b])
  <2>1. CASE table = Trimmed
    <3>1. Len(history[b]) <= MaxCalls
      BY <1>2, <1>3
    <3>. QED
      BY <1>2, <1>3, <2>1, <3>1, TrimmedStands
  <2>2. CASE table = addrs
    BY <1>3, <2>2 DEF EntryOf
  <2>. QED
    BY <2>1, <2>2
<1>5. gone \subseteq DOMAIN table /\ (a \in DOMAIN addrs => gone = {})
  BY <1>1 DEF MakeRoom, Evictable
<1>. HIDE DEF table
<1>6. ASSUME NEW b \in Addresses
      PROVE  /\ InOrder(history'[b]) /\ Len(history'[b]) <= calls + 1
             /\ StandsFor(EntryOf(b)', history'[b])
  <2>1. CASE b = a
    <3>1. EntryOf(b)' = Failed(EntryOf(a)) /\ history'[b] = Append(history[a], now)
      BY <1>1, <2>1 DEF EntryOf
    <3>2. StandsFor(Failed(EntryOf(a)), Append(history[a], now))
      BY <1>2, <1>3, FailureStands
    <3>3. InOrder(Append(history[a], now)) /\ Len(Append(history[a], now)) = Len(history[a]) + 1
      BY <1>2, <1>3, OneMore
    <3>. QED
      BY <1>2, <1>3, <3>1, <3>2, <3>3
  <2>2. CASE b # a /\ b \in gone
    <3>1. b \notin DOMAIN addrs' /\ history'[b] = << >>
      BY <1>1, <2>2
    <3>2. EntryOf(b)' = New
      BY <3>1 DEF EntryOf
    <3>3. << >> \in Seq(Nat) /\ Len(<< >>) = 0
      OBVIOUS
    <3>4. InOrder(<< >>) /\ KeepsLast(<< >>, << >>)
      BY <3>3 DEF InOrder, KeepsLast
    <3>5. EndsLast(<< >>, 0)
      BY <1>2, <3>3 DEF EndsLast
    <3>. QED
      BY <1>2, <3>1, <3>2, <3>3, <3>4, <3>5 DEF StandsFor, New
  <2>3. CASE b # a /\ b \notin gone
    <3>1. /\ history'[b] = history[b]
          /\ b \in DOMAIN addrs' <=> b \in DOMAIN table
          /\ b \in DOMAIN table => addrs'[b] = table[b]
      BY <1>1, <2>3
    <3>2. EntryOf(b)' = EntryIn(b)
      BY <3>1 DEF EntryOf
    <3>. QED
      BY <1>2, <1>3, <1>4, <3>1, <3>2
  <2>. QED
    BY <2>1, <2>2, <2>3
<1>7. DOMAIN history' = Addresses
  BY <1>1
<1>8. ASSUME NEW b \in Addresses
      PROVE  /\ InOrder(history[b])' /\ StandsFor(EntryOf(b), history[b])'
  <2>1. InOrder(history[b])'
    BY <1>2, <1>6 DEF InOrder
  <2>2. StandsFor(EntryOf(b), history[b])'
    BY <1>2, <1>6 DEF StandsFor, KeepsLast, EndsLast, TooMany, ServedAt
  <2>. QED
    BY <2>1, <2>2
<1>. QED
  BY <1>2, <1>6, <1>7, <1>8 DEF HistoryInv

\* Time passes: what counted may count no more, and a block may have ended.
LEMMA AnswersTick == ASSUME PenaltiesAgree, HistoryInv, Tick PROVE HistoryInv'
<1>1. /\ now \in Nat /\ now' = now + 1 /\ UNCHANGED <<addrs, history, calls>>
      /\ Window \in Nat \ {0}
  BY WindowAssumption DEF HistoryInv, Tick
<1>2. ASSUME NEW b \in Addresses
      PROVE  /\ InOrder(history[b])' /\ StandsFor(EntryOf(b), history[b])'
  <2>. DEFINE times == history[b]  entry == EntryOf(b)
  <2>1. InOrder(times) /\ KeepsLast(times, entry.failures) /\ EndsLast(times, entry.blockedUntil)
    BY DEF HistoryInv, StandsFor
  <2>2. times' = times /\ entry' = entry
    BY <1>1 DEF EntryOf
  <2>. HIDE DEF times, entry
  <2>3. InOrder(times)'
    BY <1>1, <2>1, <2>2 DEF InOrder
  <2>4. KeepsLast(times, entry.failures)'
    <3>. DEFINE dropped == Len(times) - Len(entry.failures)
    <3>1. dropped = 0 \/ now - times[dropped] >= Window \/ Len(entry.failures) = MaxFailures
      BY <2>1 DEF KeepsLast
    <3>2. dropped # 0 => times[dropped] \in Nat
      <4>1. dropped \in 0..Len(times) /\ \A k \in 1..Len(times) : times[k] \in Nat
        BY <2>1 DEF InOrder, KeepsLast
      <4>. QED
        BY <4>1
    <3>3. dropped = 0 \/ now + 1 - times[dropped] >= Window \/ Len(entry.failures) = MaxFailures
      BY <1>1, <3>1, <3>2
    <3>4. /\ entry.failures \in Seq(Nat) /\ Len(entry.failures) <= Len(times)
          /\ \A i \in 1..Len(entry.failures) : entry.failures[i] = times[dropped + i]
      BY <2>1 DEF KeepsLast
    <3>5. now' = now + 1 /\ times' = times /\ entry' = entry
      BY <1>1, <2>2
    <3>6. \/ dropped = 0 \/ now' - times[dropped] >= Window
          \/ Len(entry.failures) = MaxFailures
      BY <1>1, <3>2, <3>3, <3>5
    <3>7. /\ (entry.failures)' \in Seq(Nat) /\ Len(entry.failures)' <= Len(times)'
          /\ \A i \in 1..Len(entry.failures)' :
               (entry.failures)'[i] = times'[Len(times)' - Len(entry.failures)' + i]
      BY ONLY <3>4, <3>5
    <3>8. \/ Len(times)' - Len(entry.failures)' = 0
          \/ now' - times'[Len(times)' - Len(entry.failures)'] >= Window
          \/ Len(entry.failures)' = MaxFailures
      BY ONLY <3>6, <3>5
    <3>. QED
      BY <3>7, <3>8 DEF KeepsLast
  <2>5. EndsLast(times, entry.blockedUntil)'
    <3>1. \A k \in 1..Len(times) : TooMany(times, k) => ServedAt(times, k) \in Nat
      <4>1. times \in Seq(Nat) /\ Len(times) \in Nat /\ Len(times) <= MaxCalls
        BY BoundsAssumption DEF HistoryInv, InOrder, times
      <4>. QED
        BY <4>1, ServedType
    <3>2. /\ entry.blockedUntil \in Nat
          /\ \A k \in 1..Len(times) : TooMany(times, k) =>
               \/ ServedAt(times, k) <= entry.blockedUntil
               \/ ServedAt(times, k) <= now + 1
          /\ entry.blockedUntil > now + 1 =>
               \E k \in 1..Len(times) : TooMany(times, k) /\ ServedAt(times, k) = entry.blockedUntil
      BY <1>1, <2>1, <3>1 DEF EndsLast
    <3>3. \A k : /\ TooMany(times, k)' <=> TooMany(times, k)
                 /\ ServedAt(times, k)' = ServedAt(times, k)
      BY <2>2 DEF TooMany, ServedAt, Counted
    <3>. QED
      BY <1>1, <2>2, <3>2, <3>3 DEF EndsLast
  <2>. QED
    BY <2>3, <2>4, <2>5 DEF StandsFor, times, entry
<1>. QED
  BY <1>1, <1>2 DEF HistoryInv

\* BlockedAsDeserved: an address is blocked exactly when its failures deserve it,
\* whatever the limiter has dropped, trimmed or forgotten: for any addresses, window
\* and limits, and any penalties on which the loop and the promise agree.
THEOREM BlocksAreDeserved ==
  ASSUME PenaltiesAgree
  PROVE  LimiterSpec => []BlockedAsDeserved
<1>1. LimiterInit => TableInv /\ HistoryInv
  <2>. SUFFICES ASSUME LimiterInit PROVE TableInv /\ HistoryInv
    OBVIOUS
  <2>1. /\ now = 0 /\ calls = 0 /\ DOMAIN addrs = {} /\ DOMAIN history = Addresses
        /\ \A a \in Addresses : history[a] = << >> /\ EntryOf(a) = New
    BY DEF LimiterInit, EntryOf
  <2>2. << >> \in Seq(Nat) /\ Len(<< >>) = 0
    OBVIOUS
  <2>3. InOrder(<< >>) /\ StandsFor(New, << >>)
    BY <2>1, <2>2 DEF InOrder, StandsFor, KeepsLast, EndsLast, New
  <2>. QED
    BY <2>1, <2>2, <2>3, BoundsAssumption, TableAssumption, FS_EmptySet DEF TableInv, HistoryInv
<1>2. TableInv /\ HistoryInv /\ [LimiterNext]_limiterVars => (TableInv /\ HistoryInv)'
  <2>. SUFFICES ASSUME TableInv, HistoryInv, [LimiterNext]_limiterVars
                PROVE  TableInv' /\ HistoryInv'
    OBVIOUS
  <2>1. CASE \E a \in Addresses : Fail(a)
    BY <2>1, LimitsFail, AnswersFail
  <2>2. CASE Tick
    BY <2>2, AnswersTick DEF Tick, TableInv
  <2>3. CASE UNCHANGED limiterVars
    <3>1. UNCHANGED <<now, addrs, calls, history>>
      BY <2>3 DEF limiterVars
    <3>2. TableInv'
      BY <3>1 DEF TableInv
    <3>3. ASSUME NEW a \in Addresses
          PROVE  InOrder(history[a])' /\ StandsFor(EntryOf(a), history[a])'
      <4>1. InOrder(history[a]) /\ StandsFor(EntryOf(a), history[a])
        BY DEF HistoryInv
      <4>2. EntryOf(a)' = EntryOf(a)
        BY <3>1 DEF EntryOf
      <4>3. InOrder(history[a])'
        BY <3>1, <4>1 DEF InOrder
      <4>4. \A k : /\ TooMany(history[a], k)' <=> TooMany(history[a], k)
                   /\ ServedAt(history[a], k)' = ServedAt(history[a], k)
        BY <3>1 DEF TooMany, ServedAt, Counted
      <4>5. KeepsLast(history[a], EntryOf(a).failures)'
        BY <3>1, <4>1, <4>2 DEF StandsFor, KeepsLast
      <4>6. EndsLast(history[a], EntryOf(a).blockedUntil)'
        BY <3>1, <4>1, <4>2, <4>4 DEF StandsFor, EndsLast
      <4>. QED
        BY <4>3, <4>5, <4>6 DEF StandsFor
    <3>4. HistoryInv'
      BY <3>1, <3>3 DEF HistoryInv
    <3>. QED
      BY <3>2, <3>4
  <2>. QED
    BY <2>1, <2>2, <2>3 DEF LimiterNext
<1>3. TableInv /\ HistoryInv => BlockedAsDeserved
  <2>. SUFFICES ASSUME HistoryInv, NEW a \in Addresses PROVE Blocked(a) <=> Deserved(a)
    BY DEF BlockedAsDeserved
  <2>. DEFINE times == history[a]  until == EntryOf(a).blockedUntil
  <2>1. /\ EndsLast(times, until) /\ times \in Seq(Nat) /\ now \in Nat
        /\ Len(times) \in Nat /\ Len(times) <= MaxCalls
    BY BoundsAssumption DEF HistoryInv, StandsFor, InOrder
  <2>2. Blocked(a) <=> until > now
    BY <2>1 DEF Blocked, Running, EntryOf, New
  <2>3. Deserved(a) <=> \E k \in 1..Len(times) : TooMany(times, k) /\ ServedAt(times, k) > now
    BY DEF Deserved, TooMany, ServedAt
  <2>4. \A k \in 1..Len(times) : TooMany(times, k) => ServedAt(times, k) \in Nat
    BY <2>1, ServedType
  <2>. HIDE DEF times, until
  <2>. QED
    BY <2>1, <2>2, <2>3, <2>4 DEF EndsLast
<1>. QED
  BY <1>1, <1>2, <1>3, PTL DEF LimiterSpec
=============================================================================
