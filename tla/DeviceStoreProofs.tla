-------------------------- MODULE DeviceStoreProofs --------------------------
(* What DeviceStore confirms is kept, for any number of devices and through  *)
(* any failures, crashes and power cuts.                                     *)
EXTENDS DeviceStore, TLAPS

\* The token of an operation has been drawn.
LEMMA OpTokensAreUsed ==
  ASSUME TypeOK, OpInv, ListInv
  PROVE  OpTokens \subseteq used
<1>1. CASE op = "add"
  <2>1. opId \in Listed(byID)
    BY <1>1 DEF TypeOK, OpInv, Listed
  <2>. QED
    BY <1>1, <2>1 DEF ListInv, OpTokens, TokensOf
<1>2. CASE op = "remove"
  BY <1>2 DEF ListInv, OpTokens
<1>3. CASE op \notin {"add", "remove"}
  BY <1>3 DEF OpTokens
<1>. QED
  BY <1>1, <1>2, <1>3

\* Every step keeps every variable in its type.
LEMMA TypeStep == IInv /\ [Next]_vars => TypeOK'
<1>. SUFFICES ASSUME TypeOK, OpInv, ListInv, [Next]_vars
             PROVE  TypeOK'
  BY DEF IInv
<1>1. OpTokens \subseteq used
  BY OpTokensAreUsed
<1>. USE <1>1, AbsentAssumption, LastSeenAssumption, MaxTimeAssumption
  DEF TypeOK, Ops, Times, Device, List, Empty, LongAgo, Listed, TokensOf, OpTokens,
      OpInv, ListInv,
      vars, memVars, fileVars, opVars, ghostVars
<1>2. ASSUME NEW i \in Ids, NEW t \in Tokens, Add(i, t) PROVE TypeOK'
  BY <1>2 DEF Add, Begin
<1>3. ASSUME NEW i \in Ids, Remove(i) PROVE TypeOK'
  BY <1>3 DEF Remove, Begin
<1>4. ASSUME NEW i \in Ids, Authenticate(i) PROVE TypeOK'
  BY <1>4 DEF Authenticate, SeenNow
<1>5. ASSUME NEW i \in Ids, AuthenticateAndSave(i) PROVE TypeOK'
  <2>. HIDE DEF OpInv, ListInv, OpTokens
  <2>1. byID[i] \in Device /\ op' = "seen" /\ opId' = i
    BY <1>5 DEF AuthenticateAndSave, Begin
  <2>2. SeenNow(i) \in List
    BY <2>1 DEF SeenNow
  <2>. QED
    BY <1>5, <2>1, <2>2 DEF AuthenticateAndSave, Begin
<1>6. CASE WriteFails
  BY <1>6 DEF WriteFails, RollBack, Unlock
<1>7. CASE Rename
  BY <1>7 DEF Rename
<1>8. CASE SyncFails
  BY <1>8 DEF SyncFails, RollBack, Unlock
<1>9. CASE Done
  BY <1>9 DEF Done, Succeed, Unlock
<1>10. CASE Crash
  BY <1>10 DEF Crash, Die, Unlock
<1>11. CASE PowerCut
  BY <1>11 DEF PowerCut, Die, Unlock
<1>12. CASE Load
  BY <1>12 DEF Load
<1>13. CASE Tick
  BY <1>13 DEF Tick
<1>14. CASE UNCHANGED vars
  BY <1>14
<1>. QED
  BY <1>2, <1>3, <1>4, <1>5, <1>6, <1>7, <1>8, <1>9, <1>10, <1>11, <1>12, <1>13, <1>14
  DEF Next

\* An operation stays about its device.
LEMMA OpInvStep == IInv /\ TypeOK' /\ [Next]_vars => OpInv'
<1>. SUFFICES ASSUME TypeOK, OpInv, ListInv, TypeOK', [Next]_vars
             PROVE  OpInv'
  BY DEF IInv
<1>. USE AbsentAssumption, LastSeenAssumption, MaxTimeAssumption
  DEF TypeOK, Ops, Times, Device, List, Empty, LongAgo, Listed, TokensOf, OpTokens,
      OpInv, ListInv, Distinct,
      vars, memVars, fileVars, opVars, ghostVars
<1>1. ASSUME NEW i \in Ids, NEW t \in Tokens, Add(i, t) PROVE OpInv'
  BY <1>1 DEF Add, Begin
<1>2. ASSUME NEW i \in Ids, Remove(i) PROVE OpInv'
  BY <1>2 DEF Remove, Begin
<1>3. ASSUME NEW i \in Ids, Authenticate(i) PROVE OpInv'
  BY <1>3 DEF Authenticate, SeenNow
<1>4. ASSUME NEW i \in Ids, AuthenticateAndSave(i) PROVE OpInv'
  BY <1>4 DEF AuthenticateAndSave, SeenNow, Begin
<1>5. CASE WriteFails
  BY <1>5 DEF WriteFails, RollBack, Unlock
<1>6. CASE Rename
  BY <1>6 DEF Rename
<1>7. CASE SyncFails
  BY <1>7 DEF SyncFails, RollBack, Unlock
<1>8. CASE Done
  BY <1>8 DEF Done, Succeed, Unlock
<1>9. CASE Crash
  BY <1>9 DEF Crash, Die, Unlock
<1>10. CASE PowerCut
  BY <1>10 DEF PowerCut, Die, Unlock
<1>11. CASE Load
  BY <1>11 DEF Load
<1>12. CASE Tick
  BY <1>12 DEF Tick
<1>13. CASE UNCHANGED vars
  BY <1>13
<1>. QED
  BY <1>1, <1>2, <1>3, <1>4, <1>5, <1>6, <1>7, <1>8, <1>9, <1>10, <1>11, <1>12, <1>13
  DEF Next

\* Lists keep holding drawn tokens, each once.
LEMMA ListInvStep == IInv /\ TypeOK' /\ [Next]_vars => ListInv'
<1>. SUFFICES ASSUME TypeOK, OpInv, ListInv, TypeOK', [Next]_vars
             PROVE  ListInv'
  BY DEF IInv
<1>. USE AbsentAssumption, LastSeenAssumption, MaxTimeAssumption
  DEF TypeOK, Ops, Times, Device, List, Empty, LongAgo, Listed, TokensOf, OpTokens,
      OpInv, ListInv, Distinct,
      vars, memVars, fileVars, opVars, ghostVars
<1>1. ASSUME NEW i \in Ids, NEW t \in Tokens, Add(i, t) PROVE ListInv'
  BY <1>1 DEF Add, Begin
<1>2. ASSUME NEW i \in Ids, Remove(i) PROVE ListInv'
  BY <1>2 DEF Remove, Begin
<1>3. ASSUME NEW i \in Ids, Authenticate(i) PROVE ListInv'
  BY <1>3 DEF Authenticate, SeenNow
<1>4. ASSUME NEW i \in Ids, AuthenticateAndSave(i) PROVE ListInv'
  BY <1>4 DEF AuthenticateAndSave, SeenNow, Begin
<1>5. CASE WriteFails
  BY <1>5 DEF WriteFails, RollBack, Unlock
<1>6. CASE Rename
  BY <1>6 DEF Rename
<1>7. CASE SyncFails
  BY <1>7 DEF SyncFails, RollBack, Unlock
<1>8. CASE Done
  BY <1>8 DEF Done, Succeed, Unlock
<1>9. CASE Crash
  BY <1>9 DEF Crash, Die, Unlock
<1>10. CASE PowerCut
  BY <1>10 DEF PowerCut, Die, Unlock
<1>11. CASE Load
  BY <1>11 DEF Load
<1>12. CASE Tick
  BY <1>12 DEF Tick
<1>13. CASE UNCHANGED vars
  BY <1>13
<1>. QED
  BY <1>1, <1>2, <1>3, <1>4, <1>5, <1>6, <1>7, <1>8, <1>9, <1>10, <1>11, <1>12, <1>13
  DEF Next

\* Lists stay as the callers were answered.
LEMMA KeptInvStep == SyncsFolders /\ IInv /\ TypeOK' /\ [Next]_vars => KeptInv'
<1>. SUFFICES ASSUME TypeOK, OpInv, ListInv, KeptInv, SyncsFolders, TypeOK', [Next]_vars
             PROVE  KeptInv'
  BY DEF IInv
<1>. USE AbsentAssumption, LastSeenAssumption, MaxTimeAssumption
  DEF TypeOK, Ops, Times, Device, List, Empty, LongAgo, Listed, TokensOf, OpTokens,
      OpInv, ListInv, KeptInv, Distinct, AsAnswered,
      vars, memVars, fileVars, opVars, ghostVars
<1>1. ASSUME NEW i \in Ids, NEW t \in Tokens, Add(i, t) PROVE KeptInv'
  BY <1>1 DEF Add, Begin
<1>2. ASSUME NEW i \in Ids, Remove(i) PROVE KeptInv'
  BY <1>2 DEF Remove, Begin
<1>3. ASSUME NEW i \in Ids, Authenticate(i) PROVE KeptInv'
  BY <1>3 DEF Authenticate, SeenNow
<1>4. ASSUME NEW i \in Ids, AuthenticateAndSave(i) PROVE KeptInv'
  BY <1>4 DEF AuthenticateAndSave, SeenNow, Begin
<1>5. CASE WriteFails
  BY <1>5 DEF WriteFails, RollBack, Unlock
<1>6. CASE Rename
  BY <1>6 DEF Rename
<1>7. CASE SyncFails
  BY <1>7 DEF SyncFails, RollBack, Unlock
<1>8. CASE Done
  BY <1>8 DEF Done, Succeed, Unlock
<1>9. CASE Crash
  BY <1>9 DEF Crash, Die, Unlock
<1>10. CASE PowerCut
  BY <1>10 DEF PowerCut, Die, Unlock
<1>11. CASE Load
  BY <1>11 DEF Load
<1>12. CASE Tick
  BY <1>12 DEF Tick
<1>13. CASE UNCHANGED vars
  BY <1>13
<1>. QED
  BY <1>1, <1>2, <1>3, <1>4, <1>5, <1>6, <1>7, <1>8, <1>9, <1>10, <1>11, <1>12, <1>13
  DEF Next

\* The file stays as far behind as Authenticate lets it and no further.
LEMMA FileInvStep == IInv /\ TypeOK' /\ [Next]_vars => FileInv'
<1>. SUFFICES ASSUME TypeOK, OpInv, FileInv, TypeOK', [Next]_vars
             PROVE  FileInv'
  BY DEF IInv
<1>. USE AbsentAssumption, LastSeenAssumption, MaxTimeAssumption
  DEF TypeOK, Ops, Times, Device, List, Empty, LongAgo, Listed,
      OpInv, FileInv, Settled,
      vars, memVars, fileVars, opVars, ghostVars
<1>1. ASSUME NEW i \in Ids, NEW t \in Tokens, Add(i, t) PROVE FileInv'
  BY <1>1 DEF Add, Begin
<1>2. ASSUME NEW i \in Ids, Remove(i) PROVE FileInv'
  BY <1>2 DEF Remove, Begin
<1>3. ASSUME NEW i \in Ids, Authenticate(i) PROVE FileInv'
  BY <1>3 DEF Authenticate, SeenNow, WriteDue
<1>4. ASSUME NEW i \in Ids, AuthenticateAndSave(i) PROVE FileInv'
  BY <1>4 DEF AuthenticateAndSave, SeenNow, Begin
<1>5. CASE WriteFails
  BY <1>5 DEF WriteFails, RollBack, Unlock
<1>6. CASE Rename
  BY <1>6 DEF Rename
<1>7. CASE SyncFails
  BY <1>7 DEF SyncFails, RollBack, Unlock
<1>8. CASE Done
  BY <1>8 DEF Done, Succeed, Unlock
<1>9. CASE Crash
  BY <1>9 DEF Crash, Die, Unlock
<1>10. CASE PowerCut
  BY <1>10 DEF PowerCut, Die, Unlock
<1>11. CASE Load
  BY <1>11 DEF Load
<1>12. CASE Tick
  BY <1>12 DEF Tick
<1>13. CASE UNCHANGED vars
  BY <1>13
<1>. QED
  BY <1>1, <1>2, <1>3, <1>4, <1>5, <1>6, <1>7, <1>8, <1>9, <1>10, <1>11, <1>12, <1>13
  DEF Next

\* The inductive invariant holds in every state.
THEOREM Invariance == Spec => []IInv
<1>1. Init => IInv
  <2>. SUFFICES ASSUME Init PROVE IInv
    OBVIOUS
  <2>1. Listed(Empty) = {} /\ TokensOf(Empty) = {} /\ Distinct(Empty)
    BY DEF Listed, TokensOf, Distinct, Empty
  <2>2. TypeOK
    <3>1. Empty \in List
      BY DEF Empty, List
    <3>2. persisted \in [Ids -> Times \cup {LongAgo}]
      BY DEF Init
    <3>3. now \in Times
      BY MaxTimeAssumption DEF Init, Times
    <3>. QED
      BY <3>1, <3>2, <3>3 DEF Init, TypeOK, Ops
  <2>3. OpInv
    BY DEF Init, OpInv
  <2>4. FileInv
    BY DEF Init, FileInv, Settled, Empty
  <2>5. ListInv /\ KeptInv
    BY <2>1 DEF Init, ListInv, KeptInv, AsAnswered
  <2>. QED
    BY <2>2, <2>3, <2>4, <2>5 DEF IInv
<1>2. IInv /\ [Next]_vars => IInv'
  BY TypeStep, OpInvStep, ListInvStep, FileInvStep, KeptInvStep DEF IInv
<1>. QED
  BY <1>1, <1>2, PTL DEF Spec

\* The variables keep their types; above all the file is one that a power cut
\* could leave.
THEOREM TypeCorrect == Spec => []TypeOK
<1>1. IInv => TypeOK
  BY DEF IInv
<1>. QED
  BY <1>1, Invariance, PTL

\* What the callers of Add and Remove were told is true in memory, in the file
\* and after a power cut, where folders can be synced.
THEOREM ConfirmedIsKept == Spec => []AnswersAreKept
<1>1. IInv => AnswersAreKept
  <2>. SUFFICES ASSUME IInv, SyncsFolders PROVE KeptInv => /\ running => AsAnswered(byID)
                                                       /\ \A list \in survivors : AsAnswered(list)
    BY DEF IInv, AnswersAreKept
  <2>. QED
    BY DEF KeptInv, AsAnswered
<1>. QED
  BY <1>1, Invariance, PTL

\* After a write that succeeded the file lists who is paired, and no last-seen
\* time in it is older than the interval of Authenticate.
THEOREM FileIsCurrent == Spec => []FileKeepsUp
<1>1. IInv => FileKeepsUp
  BY DEF IInv, TypeOK, FileInv, Settled, FileKeepsUp, Listed, OpInv
<1>. QED
  BY <1>1, Invariance, PTL
=============================================================================
