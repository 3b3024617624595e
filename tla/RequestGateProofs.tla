------------------------ MODULE RequestGateProofs -------------------------
(* What a read-only device can make the daemon do, and whom the read deadline *)
(* can hit, for any number of requests on a connection.                       *)
EXTENDS RequestGate, TLAPS

\* The fields of a request that the handlers decide on.
LEMMA RequestFields ==
  ASSUME NEW r \in Requests
  PROVE  /\ r.cred \in {"none", "readonly", "full"} /\ r.route \in Routes
         /\ r.body \in {"none", "length", "chunked"}
         /\ r.get \in BOOLEAN /\ r.plain \in BOOLEAN /\ r.origin \in BOOLEAN
         /\ r.large \in BOOLEAN /\ r.upgrade \in BOOLEAN
         /\ ~r.plain => r.route = "read"
BY DEF Requests, Shapes

\* dropUpgrade leaves a request that differs in nothing else.
LEMMA PlainIsRequest ==
  ASSUME NEW r \in Requests
  PROVE  /\ Plain(r) \in Requests /\ ~Plain(r).upgrade
         /\ Plain(r).cred = r.cred /\ Plain(r).route = r.route /\ Plain(r).get = r.get
         /\ Plain(r).plain = r.plain /\ Plain(r).origin = r.origin
         /\ Plain(r).body = r.body /\ Plain(r).large = r.large
<1>1. Plain(r) \in Shapes
  BY DEF Requests, Shapes, Plain
<1>2. /\ ~Plain(r).upgrade
      /\ Plain(r).cred = r.cred /\ Plain(r).route = r.route /\ Plain(r).get = r.get
      /\ Plain(r).plain = r.plain /\ Plain(r).origin = r.origin
      /\ Plain(r).body = r.body /\ Plain(r).large = r.large
  BY DEF Requests, Shapes, Plain
<1>. QED
  BY <1>1, <1>2 DEF Requests

\* A step of a terminal keeps its variables in their types, makes no terminal
\* where there was none, ends no context and brings nobody back.
LEMMA BridgeStep ==
  ASSUME BridgeTypeOK, Exec \/ ClientGoes \/ DaemonGoes
  PROVE  /\ BridgeTypeOK'
         /\ main = "off" => main' = "off"
         /\ ctxEnded' = ctxEnded
         /\ clientGone => clientGone'
<1>. USE DEF BridgeTypeOK, MainPlaces, peerVars, MainAt, CopierAt
<1>. DEFINE Kept == /\ BridgeTypeOK'
                    /\ main = "off" => main' = "off"
                    /\ ctxEnded' = ctxEnded
                    /\ clientGone => clientGone'
<1>1. CASE Check \/ Dial
  BY <1>1 DEF Check, Dial
<1>2. CASE Answered \/ AskFails \/ AskEnded \/ RefuseExec
  BY <1>2 DEF Answered, AskFails, AskEnded, RefuseExec
<1>3. CASE Watch \/ AfterWs \/ AfterConn
  BY <1>3 DEF Watch, AfterWs, AfterConn
<1>4. CASE ReadWs \/ WriteConn \/ WriteConnFails
  BY <1>4 DEF ReadWs, WriteConn, WriteConnFails
<1>5. CASE CloseConn \/ WaitCopier \/ Leave
  BY <1>5 DEF CloseConn, WaitCopier, Leave
<1>6. CASE ReadConn \/ WriteWs \/ WriteWsFails \/ CloseWs
  BY <1>6 DEF ReadConn, WriteWs, WriteWsFails, CloseWs
<1>7. CASE ClientGoes \/ DaemonGoes
  BY <1>7 DEF ClientGoes, DaemonGoes
<1>8. \/ Check \/ Dial \/ Answered \/ AskFails \/ AskEnded \/ RefuseExec
      \/ Watch \/ AfterWs \/ AfterConn \/ ReadWs \/ WriteConn \/ WriteConnFails
      \/ CloseConn \/ WaitCopier \/ Leave \/ ReadConn \/ WriteWs \/ WriteWsFails
      \/ CloseWs \/ ClientGoes \/ DaemonGoes
  BY Zenon DEF Exec, Own, AskFailsNow, ReadWsFails, ReadConnFails
<1>. HIDE DEF Kept
<1>9. Kept
  BY <1>1, <1>2, <1>3, <1>4, <1>5, <1>6, <1>7, <1>8, Zenon DEF Kept
<1>. QED
  BY <1>9 DEF Kept

\* Every step keeps every variable in its type.
LEMMA TypeStep ==
  ASSUME IInv, [Next]_vars
  PROVE  TypeOK'
<1>. USE MaxRequestsAssumption DEF IInv, TypeOK, BridgeTypeOK, MainPlaces, Places, bridgeVars, peerVars, gateVars
<1>1. ASSUME NEW r \in Requests, Arrive(r) PROVE TypeOK'
  <2>1. count' \in 0..MaxRequests
    BY <1>1 DEF Arrive
  <2>2. UNCHANGED <<bridgeVars, daemon>> /\ req' \in Requests /\ at' = "readDeadline"
    BY <1>1 DEF Arrive, Pass
  <2>3. body' \in {"none", "coming"} /\ deadline' = "off"
    BY <1>1 DEF Arrive
  <2>4. capped' = FALSE /\ revoked' = FALSE
    BY <1>1 DEF Arrive
  <2>5. BridgeTypeOK'
    BY <2>2
  <2>6. at' \in Places /\ body' \in {"none", "coming", "here", "cut"}
    BY <2>2, <2>3
  <2>7. daemon' \subseteq Requests \cup {[cred |-> c] : c \in {"none", "readonly", "full"}}
    BY <2>2
  <2>. QED
    BY <2>1, <2>2, <2>3, <2>4, <2>5, <2>6, <2>7
<1>2. CASE ReadDeadline
  BY <1>2 DEF ReadDeadline, Pass, Answer
<1>3. CASE RejectBrowsers
  BY <1>3 DEF RejectBrowsers, Pass, Answer
<1>4. CASE Mux
  BY <1>4 DEF Mux, Pass, Answer
<1>5. CASE HandlePair
  BY <1>5 DEF HandlePair, Pass, Answer
<1>6. CASE Require
  BY <1>6 DEF Require, Pass, Answer
<1>7. CASE LiftReadDeadline
  BY <1>7 DEF LiftReadDeadline, Pass, Answer
<1>8. CASE FullOnly
  BY <1>8 DEF FullOnly, Pass, Answer
<1>9. CASE RoleGate
  <2>1. req' \in Requests
    BY <1>9, PlainIsRequest DEF RoleGate
  <2>. QED
    BY <1>9, <2>1 DEF RoleGate, Pass, Answer
<1>10. CASE LimitBody
  BY <1>10 DEF LimitBody, Pass, Answer
<1>11. CASE ExecEnds
  BY <1>11 DEF ExecEnds, Pass, Answer
<1>12. CASE Finish
  <2>1. at' \in {"idle", "closed"} /\ ctxEnded' \in BOOLEAN
    BY <1>12 DEF Finish
  <2>. QED
    BY <1>12, <2>1 DEF Finish
<1>13. CASE Proxy
  BY <1>13 DEF Proxy, Pass, Answer
<1>14. CASE Upgraded
  <2>1. [cred |-> req.cred] \in {[cred |-> c] : c \in {"none", "readonly", "full"}}
    BY RequestFields
  <2>. QED
    BY <1>14, <2>1 DEF Upgraded, Pass
<1>15. CASE TunnelEnds
  BY <1>15 DEF TunnelEnds, Pass, Answer
<1>16. CASE BodyComes
  BY <1>16 DEF BodyComes, Pass, Answer
<1>17. CASE BodyCut
  BY <1>17 DEF BodyCut, Pass, Answer
<1>18. CASE DeadlinePasses
  BY <1>18 DEF DeadlinePasses, Pass, Answer
<1>19. CASE PendingReadFails
  BY <1>19 DEF PendingReadFails, Pass, Answer, Handling
<1>20. CASE ClientLeaves
  BY <1>20 DEF ClientLeaves, Pass, Answer
<1>21. CASE Revoke
  BY <1>21 DEF Revoke, Pass, Answer
<1>22. CASE (Exec \/ ClientGoes \/ DaemonGoes) /\ UNCHANGED gateVars
  BY <1>22, BridgeStep DEF gateVars
<1>23. CASE UNCHANGED vars
  BY <1>23 DEF vars
<1>. QED
  BY <1>1, <1>2, <1>3, <1>4, <1>5, <1>6, <1>7, <1>8, <1>9, <1>10, <1>11, <1>12, <1>13,
     <1>14, <1>15, <1>16, <1>17, <1>18, <1>19, <1>20, <1>21, <1>22, <1>23 DEF Next,
     Handler

\* The role gate lets a read-only device pass with a listed read only, stripped
\* of its upgrade, and nothing else adds to what the daemon hears.
LEMMA DaemonStep ==
  ASSUME IInv, [Next]_vars
  PROVE  (DaemonHearsOnly /\ PassedInv)'
<1>. USE MaxRequestsAssumption DEF IInv, TypeOK, DaemonHearsOnly, PassedInv, Past, bridgeVars, peerVars, gateVars
<1>1. ASSUME NEW r \in Requests, Arrive(r) PROVE (DaemonHearsOnly /\ PassedInv)'
  BY <1>1 DEF Arrive, Pass
<1>2. CASE ReadDeadline
  BY <1>2 DEF ReadDeadline, Pass, Answer
<1>3. CASE RejectBrowsers
  BY <1>3 DEF RejectBrowsers, Pass, Answer
<1>4. CASE Mux
  BY <1>4 DEF Mux, Pass, Answer
<1>5. CASE HandlePair
  BY <1>5 DEF HandlePair, Pass, Answer
<1>6. CASE Require
  BY <1>6 DEF Require, Pass, Answer
<1>7. CASE LiftReadDeadline
  BY <1>7 DEF LiftReadDeadline, Pass, Answer
<1>8. CASE FullOnly
  BY <1>8 DEF FullOnly, Pass, Answer
<1>9. CASE RoleGate
  <2>1. CASE req.cred = "full"
    BY <1>9, <2>1 DEF RoleGate, Pass
  <2>2. CASE req.cred # "full" /\ AllowedReadOnly(req)
    <3>1. req' = Plain(req) /\ OnlyReads(Plain(req))
      BY <1>9, <2>2, PlainIsRequest DEF RoleGate, AllowedReadOnly, OnlyReads, Meanings
    <3>. QED
      BY <1>9, <2>2, <3>1, PlainIsRequest DEF RoleGate, Pass
  <2>3. CASE req.cred # "full" /\ ~AllowedReadOnly(req)
    BY <1>9, <2>3 DEF RoleGate, Answer, Pass
  <2>. QED
    BY <2>1, <2>2, <2>3
<1>10. CASE LimitBody
  BY <1>10 DEF LimitBody, Pass, Answer
<1>11. CASE ExecEnds
  BY <1>11 DEF ExecEnds, Pass, Answer
<1>12. CASE Finish
  BY <1>12 DEF Finish, Pass, Answer
<1>13. CASE Proxy
  BY <1>13 DEF Proxy, Pass, Answer
<1>14. CASE Upgraded
  <2>1. req.cred = "full"
    BY <1>14 DEF Upgraded, Pass, OnlyReads
  <2>2. /\ daemon' = daemon \cup {[cred |-> req.cred]}
        /\ at' = "tunnel" /\ req' = req /\ main' = main /\ at = "proxy"
    BY <1>14 DEF Upgraded, Pass
  <2>. QED
    BY <2>1, <2>2
<1>15. CASE TunnelEnds
  BY <1>15 DEF TunnelEnds, Pass, Answer
<1>16. CASE BodyComes
  BY <1>16 DEF BodyComes, Pass, Answer
<1>17. CASE BodyCut
  BY <1>17 DEF BodyCut, Pass, Answer
<1>18. CASE DeadlinePasses
  BY <1>18 DEF DeadlinePasses, Pass, Answer
<1>19. CASE PendingReadFails
  BY <1>19 DEF PendingReadFails, Pass, Answer, Handling
<1>20. CASE ClientLeaves
  BY <1>20 DEF ClientLeaves, Pass, Answer
<1>21. CASE Revoke
  BY <1>21 DEF Revoke, Pass, Answer
<1>22. CASE (Exec \/ ClientGoes \/ DaemonGoes) /\ UNCHANGED gateVars
  BY <1>22, BridgeStep DEF gateVars
<1>23. CASE UNCHANGED vars
  BY <1>23 DEF vars
<1>. QED
  BY <1>1, <1>2, <1>3, <1>4, <1>5, <1>6, <1>7, <1>8, <1>9, <1>10, <1>11, <1>12, <1>13,
     <1>14, <1>15, <1>16, <1>17, <1>18, <1>19, <1>20, <1>21, <1>22, <1>23 DEF Next,
     Handler

\* From the lift on no deadline is set; ahead of it no read is under way.
LEMMA TimedStep ==
  ASSUME IInv, [Next]_vars
  PROVE  (OnlyStrangersAreTimed /\ TimedInv)'
<1>. USE MaxRequestsAssumption DEF IInv, TypeOK, OnlyStrangersAreTimed, PassedInv, TimedInv, Early, Past, bridgeVars, peerVars, gateVars
<1>1. ASSUME NEW r \in Requests, Arrive(r) PROVE (OnlyStrangersAreTimed /\ TimedInv)'
  BY <1>1 DEF Arrive, Pass
<1>2. CASE ReadDeadline
  BY <1>2 DEF ReadDeadline, Pass, Answer, Known
<1>3. CASE RejectBrowsers
  BY <1>3 DEF RejectBrowsers, Pass, Answer, Known
<1>4. CASE Mux
  BY <1>4 DEF Mux, Pass, Answer, Known
<1>5. CASE HandlePair
  BY <1>5 DEF HandlePair, Pass, Answer
<1>6. CASE Require
  BY <1>6 DEF Require, Pass, Answer, Known
<1>7. CASE LiftReadDeadline
  BY <1>7 DEF LiftReadDeadline, Pass, Answer
<1>8. CASE FullOnly
  BY <1>8 DEF FullOnly, Pass, Answer
<1>9. CASE RoleGate
  <2>1. Known(req') => Known(req)
    BY <1>9, PlainIsRequest DEF RoleGate, Known
  <2>2. req'.large = req.large /\ req'.route = req.route
    BY <1>9, PlainIsRequest DEF RoleGate
  <2>. QED
    BY <1>9, <2>1, <2>2 DEF RoleGate, Pass, Answer
<1>10. CASE LimitBody
  BY <1>10 DEF LimitBody, Pass, Answer
<1>11. CASE ExecEnds
  BY <1>11 DEF ExecEnds, Pass, Answer
<1>12. CASE Finish
  BY <1>12 DEF Finish, Pass, Answer
<1>13. CASE Proxy
  BY <1>13 DEF Proxy, Pass, Answer
<1>14. CASE Upgraded
  BY <1>14 DEF Upgraded, Pass, Answer
<1>15. CASE TunnelEnds
  BY <1>15 DEF TunnelEnds, Pass, Answer
<1>16. CASE BodyComes
  BY <1>16 DEF BodyComes, Pass, Answer
<1>17. CASE BodyCut
  BY <1>17 DEF BodyCut, Pass, Answer
<1>18. CASE DeadlinePasses
  BY <1>18 DEF DeadlinePasses, Pass, Answer
<1>19. CASE PendingReadFails
  BY <1>19 DEF PendingReadFails, Pass, Answer, Handling
<1>20. CASE ClientLeaves
  BY <1>20 DEF ClientLeaves, Pass, Answer
<1>21. CASE Revoke
  BY <1>21 DEF Revoke, Pass, Answer
<1>22. CASE (Exec \/ ClientGoes \/ DaemonGoes) /\ UNCHANGED gateVars
  BY <1>22, BridgeStep DEF gateVars
<1>23. CASE UNCHANGED vars
  BY <1>23 DEF vars
<1>. QED
  BY <1>1, <1>2, <1>3, <1>4, <1>5, <1>6, <1>7, <1>8, <1>9, <1>10, <1>11, <1>12, <1>13,
     <1>14, <1>15, <1>16, <1>17, <1>18, <1>19, <1>20, <1>21, <1>22, <1>23 DEF Next,
     Handler

\* The inductive invariant holds in every state of a connection, whatever its
\* requests are and how its peers behave.
THEOREM Invariance == Spec => []IInv
<1>1. Init => IInv
  <2>. SUFFICES ASSUME Init PROVE IInv
    OBVIOUS
  <2>1. Nothing \in Requests
    BY DEF Nothing, Requests, Shapes, Routes
  <2>2. TypeOK
    <3>1. BridgeTypeOK
      BY DEF Init, BridgeInit, BridgeTypeOK, MainPlaces
    <3>2. at \in Places /\ req \in Requests
      BY <2>1 DEF Init, Places
    <3>3. capped \in BOOLEAN /\ revoked \in BOOLEAN
      BY DEF Init
    <3>4. count \in 0..MaxRequests
      BY MaxRequestsAssumption DEF Init
    <3>. QED
      BY <3>1, <3>2, <3>3, <3>4 DEF Init, TypeOK
  <2>3. DaemonHearsOnly /\ OnlyStrangersAreTimed
    BY DEF Init, BridgeInit, DaemonHearsOnly, OnlyStrangersAreTimed
  <2>4. PassedInv /\ TimedInv
    BY DEF Init, BridgeInit, PassedInv, TimedInv, Past
  <2>. QED
    BY <2>2, <2>3, <2>4 DEF IInv
<1>2. IInv /\ [Next]_vars => IInv'
  BY TypeStep, DaemonStep, TimedStep DEF IInv
<1>. QED
  BY <1>1, <1>2, PTL DEF Spec

\* A read-only device makes the daemon hear the listed reads and nothing else,
\* and a caller without a credential makes it hear nothing (roleGate,
\* dropUpgrade, fullOnly, Require).
THEOREM ReadersOnlyRead == Spec => []DaemonHearsOnly
<1>1. IInv => DaemonHearsOnly
  BY DEF IInv
<1>. QED
  BY <1>1, Invariance, PTL

\* The read deadline cuts off no body and ends no request of a caller with a
\* credential (readDeadline, liftReadDeadline).
THEOREM NobodyKnownIsTimed == Spec => []OnlyStrangersAreTimed
<1>1. IInv => OnlyStrangersAreTimed
  BY DEF IInv
<1>. QED
  BY <1>1, Invariance, PTL
=============================================================================
