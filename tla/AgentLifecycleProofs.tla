----------------------- MODULE AgentLifecycleProofs -----------------------
(* What AgentLifecycle promises, for any number of agents on one folder.     *)
EXTENDS AgentLifecycle, TLAPS

\* Every step keeps every variable in its type.
LEMMA TypeStep ==
  ASSUME TypeOK, Locked, Opened, Identified, [Next]_vars
  PROVE  TypeOK'
<1>. USE NobodyAssumption, NoCertAssumption, MaxCertsAssumption, MaxWritesAssumption DEF
    TypeOK, Locked, Identified, At, Go, folderVars, keyVars, crtVars, fileVars,
    identityVars, listVars, OwnsSock, HasLock, Places, Serving, Opening, Writing,
    Syncing
<1>1. ASSUME NEW p \in Agents, Start(p) PROVE TypeOK'
  BY <1>1 DEF Start
<1>2. ASSUME NEW p \in Agents, Opens(p) PROVE TypeOK'
  <2>1. CASE Mkdir(p)
    BY <1>2, <2>1 DEF Opens, Mkdir
  <2>2. CASE Stat(p)
    BY <1>2, <2>2 DEF Opens, Stat, Refuse, Opened
  <2>3. CASE LookFirst(p)
    BY <1>2, <2>3 DEF Opens, LookFirst, Passes, Refuse
  <2>4. CASE CloseFolder(p)
    BY <1>2, <2>4 DEF Opens, CloseFolder
  <2>5. CASE LookAgain(p)
    BY <1>2, <2>5 DEF Opens, LookAgain, Refuse
  <2>6. CASE Chmod(p)
    BY <1>2, <2>6 DEF Opens, Chmod
  <2>7. CASE Probe(p)
    BY <1>2, <2>7 DEF Opens, Probe
  <2>8. CASE Unprobe(p)
    <3>1. /\ pc' = [pc EXCEPT ![p] = "lock"] /\ scrap' \in {scrap, TRUE}
          /\ UNCHANGED <<saw, mode, strange, fileVars, identityVars, listVars, lock, pinned>>
      BY <1>2, <2>8 DEF Opens, Unprobe
    <3>2. scrap' \in BOOLEAN
      BY <3>1
    <3>. HIDE DEF Locked, Identified
    <3>. QED
      BY <3>1, <3>2
  <2>9. CASE OpenFails(p)
    BY <1>2, <2>9 DEF Opens, OpenFails, Refuse
  <2>. QED
    BY <1>2, <2>1, <2>2, <2>3, <2>4, <2>5, <2>6, <2>7, <2>8, <2>9 DEF Opens, Open
<1>3. ASSUME NEW p \in Agents, Listens(p) PROVE TypeOK'
  <2>1. CASE Lock(p)
    BY <1>3, <2>1 DEF Listens, Lock, Refuse
  <2>2. CASE LockFails(p)
    <3>1. /\ pc' = [pc EXCEPT ![p] = "off"] /\ saw' = [saw EXCEPT ![p] = "new"]
          /\ lockFile' \in {lockFile, TRUE}
          /\ UNCHANGED <<folderVars, sock, keyVars, crtVars, list, lock, identityVars, listVars, pinned>>
      BY <1>3, <2>2 DEF Listens, LockFails, Refuse
    <3>2. lockFile' \in BOOLEAN
      BY <3>1
    <3>. HIDE DEF Locked, Identified
    <3>. QED
      BY <3>1, <3>2
  <2>3. CASE RemoveStale(p)
    BY <1>3, <2>3 DEF Listens, RemoveStale
  <2>4. CASE Bind(p)
    BY <1>3, <2>4 DEF Listens, Bind
  <2>5. CASE ChmodSock(p)
    BY <1>3, <2>5 DEF Listens, ChmodSock
  <2>6. CASE ListenFails(p)
    BY <1>3, <2>6 DEF Listens, ListenFails
  <2>. QED
    BY <1>3, <2>1, <2>2, <2>3, <2>4, <2>5, <2>6 DEF Listens, Listen
<1>4. ASSUME NEW p \in Agents, LoadDevices(p) PROVE TypeOK'
  BY <1>4 DEF LoadDevices
<1>5. ASSUME NEW p \in Agents, Loads(p) PROVE TypeOK'
  <2>1. CASE ReadIdentity(p)
    <3>1. CASE NoIdentity(p)
      BY <1>5, <2>1, <3>1 DEF Loads, ReadIdentity, NoIdentity
    <3>2. CASE KeepsKey(p)
      BY <1>5, <2>1, <3>2 DEF Loads, ReadIdentity, KeepsKey, Certs
    <3>3. CASE KeepsBoth(p)
      BY <1>5, <2>1, <3>3 DEF Loads, ReadIdentity, KeepsBoth
    <3>4. CASE DoNotMatch(p)
      BY <1>5, <2>1, <3>4 DEF Loads, ReadIdentity, DoNotMatch
    <3>. QED
      BY <2>1, <3>1, <3>2, <3>3, <3>4 DEF ReadIdentity
  <2>2. CASE WriteKey(p)
    BY <1>5, <2>2 DEF Loads, WriteKey, RenameKey
  <2>3. CASE SyncKey(p)
    BY <1>5, <2>3 DEF Loads, SyncKey, SyncDir
  <2>4. CASE WriteCrt(p)
    BY <1>5, <2>4 DEF Loads, WriteCrt, RenameCrt, Certs
  <2>5. CASE SyncCrt(p)
    BY <1>5, <2>5 DEF Loads, SyncCrt, SyncDir
  <2>6. CASE IdentityFails(p)
    <3>1. /\ pc' = [pc EXCEPT ![p] = "closeSock"]
          /\ scrap' \in {scrap, TRUE} /\ torn' = (torn \/ pc[p] = "syncKey")
          /\ UNCHANGED <<saw, mode, strange, lockFile, sock, key, keyKept, crtVars, list,
                         identityVars, listVars, lock, pinned>>
      BY <1>5, <2>6 DEF Loads, IdentityFails
    <3>2. scrap' \in BOOLEAN /\ torn' \in BOOLEAN
      BY <3>1
    <3>. HIDE DEF Locked, Identified
    <3>. QED
      BY <3>1, <3>2
  <2>. QED
    BY <1>5, <2>1, <2>2, <2>3, <2>4, <2>5, <2>6 DEF Loads, LoadOrCreate
<1>6. ASSUME NEW p \in Agents, ListenTcp(p) PROVE TypeOK'
  BY <1>6 DEF ListenTcp, Presented
<1>7. ASSUME NEW p \in Agents, ServeFails(p) PROVE TypeOK'
  BY <1>7 DEF ServeFails
<1>8. ASSUME NEW p \in Agents, Stop(p) PROVE TypeOK'
  BY <1>8 DEF Stop
<1>9. ASSUME NEW p \in Agents, ServersClosed(p) PROVE TypeOK'
  BY <1>9 DEF ServersClosed
<1>10. ASSUME NEW p \in Agents, Closes(p) PROVE TypeOK'
  <2>1. CASE CloseSock(p)
    BY <1>10, <2>1 DEF Closes, CloseSock
  <2>2. CASE CloseLock(p)
    BY <1>10, <2>2 DEF Closes, CloseLock
  <2>. QED
    BY <1>10, <2>1, <2>2 DEF Closes, CloseListener
<1>11. ASSUME NEW p \in Agents, Exit(p) PROVE TypeOK'
  BY <1>11 DEF Exit, Forget
<1>12. ASSUME NEW p \in Agents, WriteBegins(p) PROVE TypeOK'
  BY <1>12 DEF WriteBegins
<1>13. ASSUME NEW p \in Agents, WriteRenames(p) PROVE TypeOK'
  BY <1>13 DEF WriteRenames, SyncDir
<1>14. ASSUME NEW p \in Agents, WriteFails(p) PROVE TypeOK'
  <2>1. scrap' \in BOOLEAN
    BY <1>14 DEF WriteFails
  <2>2. busy' \in [Agents -> 0..MaxWrites]
    BY <1>14 DEF WriteFails
  <2>. QED
    BY <1>14, <2>1, <2>2 DEF WriteFails
<1>15. ASSUME NEW p \in Agents, Crash(p) PROVE TypeOK'
  BY <1>15 DEF Crash, Forget
<1>16. CASE PowerCut
  <2>1. list' \in 0..MaxWrites
    BY <1>16 DEF PowerCut
  <2>2. /\ key' \in Keys \cup {None} /\ keyKept' \subseteq Keys \cup {None}
        /\ crt' \in Certs \cup {None} /\ crtKept' \subseteq Certs \cup {None}
    BY <1>16 DEF PowerCut
  <2>3. /\ sock' \in Agents \cup {None} /\ lock' \in Agents \cup {None}
        /\ torn' \in BOOLEAN /\ pinned' \subseteq Keys
    BY <1>16 DEF PowerCut
  <2>4. scrap' \in BOOLEAN
    BY <1>16 DEF PowerCut, Forget
  <2>. QED
    BY <1>16, <2>1, <2>2, <2>3, <2>4 DEF PowerCut, Forget
<1>17. CASE Planted
  BY <1>17 DEF Planted, Plant
<1>18. CASE TimePasses
  BY <1>18 DEF TimePasses, Age
<1>19. CASE UNCHANGED vars
  BY <1>19 DEF vars
<1>. QED
  BY <1>1, <1>2, <1>3, <1>4, <1>5, <1>6, <1>7, <1>8, <1>9, <1>10, <1>11, <1>12, <1>13,
      <1>14, <1>15, <1>16, <1>17, <1>18, <1>19 DEF Next

\* Only lockFile, CloseLock and the end of a process move an agent in or out
\* of the places that have the lock, and they move the lock with it.
LEMMA LockedStep ==
  ASSUME TypeOK, Locked, [Next]_vars
  PROVE  Locked'
<1>. USE NobodyAssumption, NoCertAssumption DEF TypeOK, Locked, At, Go, folderVars,
    keyVars, crtVars, fileVars, identityVars, listVars, OwnsSock, HasLock, Places,
    Serving, Opening, Writing, Syncing
<1>1. ASSUME NEW p \in Agents, Start(p) PROVE Locked'
  BY <1>1 DEF Start
<1>2. ASSUME NEW p \in Agents, Opens(p) PROVE Locked'
  <2>1. CASE Mkdir(p)
    BY <1>2, <2>1 DEF Opens, Mkdir
  <2>2. CASE Stat(p)
    BY <1>2, <2>2 DEF Opens, Stat, Refuse
  <2>3. CASE LookFirst(p)
    BY <1>2, <2>3 DEF Opens, LookFirst, Passes, Refuse
  <2>4. CASE CloseFolder(p)
    BY <1>2, <2>4 DEF Opens, CloseFolder
  <2>5. CASE LookAgain(p)
    BY <1>2, <2>5 DEF Opens, LookAgain, Refuse
  <2>6. CASE Chmod(p)
    BY <1>2, <2>6 DEF Opens, Chmod
  <2>7. CASE Probe(p)
    BY <1>2, <2>7 DEF Opens, Probe
  <2>8. CASE Unprobe(p)
    BY <1>2, <2>8 DEF Opens, Unprobe
  <2>9. CASE OpenFails(p)
    BY <1>2, <2>9 DEF Opens, OpenFails, Refuse
  <2>. QED
    BY <1>2, <2>1, <2>2, <2>3, <2>4, <2>5, <2>6, <2>7, <2>8, <2>9 DEF Opens, Open
<1>3. ASSUME NEW p \in Agents, Listens(p) PROVE Locked'
  <2>1. CASE Lock(p)
    BY <1>3, <2>1 DEF Listens, Lock, Refuse
  <2>2. CASE LockFails(p)
    BY <1>3, <2>2 DEF Listens, LockFails, Refuse
  <2>3. CASE RemoveStale(p)
    BY <1>3, <2>3 DEF Listens, RemoveStale
  <2>4. CASE Bind(p)
    BY <1>3, <2>4 DEF Listens, Bind
  <2>5. CASE ChmodSock(p)
    BY <1>3, <2>5 DEF Listens, ChmodSock
  <2>6. CASE ListenFails(p)
    BY <1>3, <2>6 DEF Listens, ListenFails
  <2>. QED
    BY <1>3, <2>1, <2>2, <2>3, <2>4, <2>5, <2>6 DEF Listens, Listen
<1>4. ASSUME NEW p \in Agents, LoadDevices(p) PROVE Locked'
  BY <1>4 DEF LoadDevices
<1>5. ASSUME NEW p \in Agents, Loads(p) PROVE Locked'
  <2>1. CASE ReadIdentity(p)
    <3>1. CASE NoIdentity(p)
      BY <1>5, <2>1, <3>1 DEF Loads, ReadIdentity, NoIdentity
    <3>2. CASE KeepsKey(p)
      BY <1>5, <2>1, <3>2 DEF Loads, ReadIdentity, KeepsKey
    <3>3. CASE KeepsBoth(p)
      BY <1>5, <2>1, <3>3 DEF Loads, ReadIdentity, KeepsBoth
    <3>4. CASE DoNotMatch(p)
      BY <1>5, <2>1, <3>4 DEF Loads, ReadIdentity, DoNotMatch
    <3>. QED
      BY <2>1, <3>1, <3>2, <3>3, <3>4 DEF ReadIdentity
  <2>2. CASE WriteKey(p)
    BY <1>5, <2>2 DEF Loads, WriteKey, RenameKey
  <2>3. CASE SyncKey(p)
    BY <1>5, <2>3 DEF Loads, SyncKey, SyncDir
  <2>4. CASE WriteCrt(p)
    BY <1>5, <2>4 DEF Loads, WriteCrt, RenameCrt
  <2>5. CASE SyncCrt(p)
    BY <1>5, <2>5 DEF Loads, SyncCrt, SyncDir
  <2>6. CASE IdentityFails(p)
    BY <1>5, <2>6 DEF Loads, IdentityFails
  <2>. QED
    BY <1>5, <2>1, <2>2, <2>3, <2>4, <2>5, <2>6 DEF Loads, LoadOrCreate
<1>6. ASSUME NEW p \in Agents, ListenTcp(p) PROVE Locked'
  BY <1>6 DEF ListenTcp
<1>7. ASSUME NEW p \in Agents, ServeFails(p) PROVE Locked'
  BY <1>7 DEF ServeFails
<1>8. ASSUME NEW p \in Agents, Stop(p) PROVE Locked'
  BY <1>8 DEF Stop
<1>9. ASSUME NEW p \in Agents, ServersClosed(p) PROVE Locked'
  BY <1>9 DEF ServersClosed
<1>10. ASSUME NEW p \in Agents, Closes(p) PROVE Locked'
  BY <1>10 DEF Closes, CloseListener, CloseSock, CloseLock
<1>11. ASSUME NEW p \in Agents, Exit(p) PROVE Locked'
  BY <1>11 DEF Exit, Forget
<1>12. ASSUME NEW p \in Agents, WriteBegins(p) PROVE Locked'
  BY <1>12 DEF WriteBegins
<1>13. ASSUME NEW p \in Agents, WriteRenames(p) PROVE Locked'
  BY <1>13 DEF WriteRenames, SyncDir
<1>14. ASSUME NEW p \in Agents, WriteFails(p) PROVE Locked'
  BY <1>14 DEF WriteFails
<1>15. ASSUME NEW p \in Agents, Crash(p) PROVE Locked'
  BY <1>15 DEF Crash, Forget
<1>16. CASE PowerCut
  BY <1>16 DEF PowerCut, Forget
<1>17. CASE Planted
  BY <1>17 DEF Planted, Plant
<1>18. CASE TimePasses
  BY <1>18 DEF TimePasses, Age
<1>19. CASE UNCHANGED vars
  BY <1>19 DEF vars
<1>. QED
  BY <1>1, <1>2, <1>3, <1>4, <1>5, <1>6, <1>7, <1>8, <1>9, <1>10, <1>11, <1>12, <1>13,
      <1>14, <1>15, <1>16, <1>17, <1>18, <1>19 DEF Next

\* Whoever makes or removes the socket has the lock, so it is nobody else's.
LEMMA OwnedStep ==
  ASSUME TypeOK, Locked, Owned, [Next]_vars
  PROVE  Owned'
<1>. USE NobodyAssumption, NoCertAssumption DEF TypeOK, Locked, Owned, At, Go,
    folderVars, keyVars, crtVars, fileVars, identityVars, listVars, OwnsSock, HasLock,
    Places, Serving, Opening, Writing, Syncing
<1>1. ASSUME NEW p \in Agents, Start(p) PROVE Owned'
  BY <1>1 DEF Start
<1>2. ASSUME NEW p \in Agents, Opens(p) PROVE Owned'
  <2>1. CASE Mkdir(p)
    BY <1>2, <2>1 DEF Opens, Mkdir
  <2>2. CASE Stat(p)
    BY <1>2, <2>2 DEF Opens, Stat, Refuse
  <2>3. CASE LookFirst(p)
    BY <1>2, <2>3 DEF Opens, LookFirst, Passes, Refuse
  <2>4. CASE CloseFolder(p)
    BY <1>2, <2>4 DEF Opens, CloseFolder
  <2>5. CASE LookAgain(p)
    BY <1>2, <2>5 DEF Opens, LookAgain, Refuse
  <2>6. CASE Chmod(p)
    BY <1>2, <2>6 DEF Opens, Chmod
  <2>7. CASE Probe(p)
    BY <1>2, <2>7 DEF Opens, Probe
  <2>8. CASE Unprobe(p)
    BY <1>2, <2>8 DEF Opens, Unprobe
  <2>9. CASE OpenFails(p)
    BY <1>2, <2>9 DEF Opens, OpenFails, Refuse
  <2>. QED
    BY <1>2, <2>1, <2>2, <2>3, <2>4, <2>5, <2>6, <2>7, <2>8, <2>9 DEF Opens, Open
<1>3. ASSUME NEW p \in Agents, Listens(p) PROVE Owned'
  <2>1. CASE Lock(p)
    BY <1>3, <2>1 DEF Listens, Lock, Refuse
  <2>2. CASE LockFails(p)
    BY <1>3, <2>2 DEF Listens, LockFails, Refuse
  <2>3. CASE RemoveStale(p)
    BY <1>3, <2>3 DEF Listens, RemoveStale
  <2>4. CASE Bind(p)
    BY <1>3, <2>4 DEF Listens, Bind
  <2>5. CASE ChmodSock(p)
    BY <1>3, <2>5 DEF Listens, ChmodSock
  <2>6. CASE ListenFails(p)
    BY <1>3, <2>6 DEF Listens, ListenFails
  <2>. QED
    BY <1>3, <2>1, <2>2, <2>3, <2>4, <2>5, <2>6 DEF Listens, Listen
<1>4. ASSUME NEW p \in Agents, LoadDevices(p) PROVE Owned'
  BY <1>4 DEF LoadDevices
<1>5. ASSUME NEW p \in Agents, Loads(p) PROVE Owned'
  <2>1. CASE ReadIdentity(p)
    <3>1. CASE NoIdentity(p)
      BY <1>5, <2>1, <3>1 DEF Loads, ReadIdentity, NoIdentity
    <3>2. CASE KeepsKey(p)
      BY <1>5, <2>1, <3>2 DEF Loads, ReadIdentity, KeepsKey
    <3>3. CASE KeepsBoth(p)
      BY <1>5, <2>1, <3>3 DEF Loads, ReadIdentity, KeepsBoth
    <3>4. CASE DoNotMatch(p)
      BY <1>5, <2>1, <3>4 DEF Loads, ReadIdentity, DoNotMatch
    <3>. QED
      BY <2>1, <3>1, <3>2, <3>3, <3>4 DEF ReadIdentity
  <2>2. CASE WriteKey(p)
    BY <1>5, <2>2 DEF Loads, WriteKey, RenameKey
  <2>3. CASE SyncKey(p)
    BY <1>5, <2>3 DEF Loads, SyncKey, SyncDir
  <2>4. CASE WriteCrt(p)
    BY <1>5, <2>4 DEF Loads, WriteCrt, RenameCrt
  <2>5. CASE SyncCrt(p)
    BY <1>5, <2>5 DEF Loads, SyncCrt, SyncDir
  <2>6. CASE IdentityFails(p)
    BY <1>5, <2>6 DEF Loads, IdentityFails
  <2>. QED
    BY <1>5, <2>1, <2>2, <2>3, <2>4, <2>5, <2>6 DEF Loads, LoadOrCreate
<1>6. ASSUME NEW p \in Agents, ListenTcp(p) PROVE Owned'
  BY <1>6 DEF ListenTcp
<1>7. ASSUME NEW p \in Agents, ServeFails(p) PROVE Owned'
  BY <1>7 DEF ServeFails
<1>8. ASSUME NEW p \in Agents, Stop(p) PROVE Owned'
  BY <1>8 DEF Stop
<1>9. ASSUME NEW p \in Agents, ServersClosed(p) PROVE Owned'
  BY <1>9 DEF ServersClosed
<1>10. ASSUME NEW p \in Agents, Closes(p) PROVE Owned'
  BY <1>10 DEF Closes, CloseListener, CloseSock, CloseLock
<1>11. ASSUME NEW p \in Agents, Exit(p) PROVE Owned'
  BY <1>11 DEF Exit, Forget
<1>12. ASSUME NEW p \in Agents, WriteBegins(p) PROVE Owned'
  BY <1>12 DEF WriteBegins
<1>13. ASSUME NEW p \in Agents, WriteRenames(p) PROVE Owned'
  BY <1>13 DEF WriteRenames, SyncDir
<1>14. ASSUME NEW p \in Agents, WriteFails(p) PROVE Owned'
  BY <1>14 DEF WriteFails
<1>15. ASSUME NEW p \in Agents, Crash(p) PROVE Owned'
  BY <1>15 DEF Crash, Forget
<1>16. CASE PowerCut
  BY <1>16 DEF PowerCut, Forget
<1>17. CASE Planted
  BY <1>17 DEF Planted, Plant
<1>18. CASE TimePasses
  BY <1>18 DEF TimePasses, Age
<1>19. CASE UNCHANGED vars
  BY <1>19 DEF vars
<1>. QED
  BY <1>1, <1>2, <1>3, <1>4, <1>5, <1>6, <1>7, <1>8, <1>9, <1>10, <1>11, <1>12, <1>13,
      <1>14, <1>15, <1>16, <1>17, <1>18, <1>19 DEF Next

\* A folder others can write to is made private before its second look, and
\* what that look passes stays as it is.
LEMMA OpenedStep ==
  ASSUME TypeOK, Opened, [Next]_vars
  PROVE  Opened'
<1>. USE NobodyAssumption, NoCertAssumption DEF TypeOK, Opened, At, Go, folderVars,
    keyVars, crtVars, fileVars, identityVars, listVars, OwnsSock, HasLock, Places,
    Serving, Opening, Writing, Syncing
<1>1. ASSUME NEW p \in Agents, Start(p) PROVE Opened'
  BY <1>1 DEF Start
<1>2. ASSUME NEW p \in Agents, Opens(p) PROVE Opened'
  <2>1. CASE Mkdir(p)
    BY <1>2, <2>1 DEF Opens, Mkdir
  <2>2. CASE Stat(p)
    BY <1>2, <2>2 DEF Opens, Stat, Refuse
  <2>3. CASE LookFirst(p)
    BY <1>2, <2>3 DEF Opens, LookFirst, Passes, Refuse, Empty
  <2>4. CASE CloseFolder(p)
    BY <1>2, <2>4 DEF Opens, CloseFolder
  <2>5. CASE LookAgain(p)
    BY <1>2, <2>5 DEF Opens, LookAgain, Refuse, Empty
  <2>6. CASE Chmod(p)
    BY <1>2, <2>6 DEF Opens, Chmod
  <2>7. CASE Probe(p)
    BY <1>2, <2>7 DEF Opens, Probe
  <2>8. CASE Unprobe(p)
    BY <1>2, <2>8 DEF Opens, Unprobe
  <2>9. CASE OpenFails(p)
    BY <1>2, <2>9 DEF Opens, OpenFails, Refuse
  <2>. QED
    BY <1>2, <2>1, <2>2, <2>3, <2>4, <2>5, <2>6, <2>7, <2>8, <2>9 DEF Opens, Open
<1>3. ASSUME NEW p \in Agents, Listens(p) PROVE Opened'
  <2>1. CASE Lock(p)
    BY <1>3, <2>1 DEF Listens, Lock, Refuse
  <2>2. CASE LockFails(p)
    BY <1>3, <2>2 DEF Listens, LockFails, Refuse
  <2>3. CASE RemoveStale(p)
    BY <1>3, <2>3 DEF Listens, RemoveStale
  <2>4. CASE Bind(p)
    BY <1>3, <2>4 DEF Listens, Bind
  <2>5. CASE ChmodSock(p)
    BY <1>3, <2>5 DEF Listens, ChmodSock
  <2>6. CASE ListenFails(p)
    BY <1>3, <2>6 DEF Listens, ListenFails
  <2>. QED
    BY <1>3, <2>1, <2>2, <2>3, <2>4, <2>5, <2>6 DEF Listens, Listen
<1>4. ASSUME NEW p \in Agents, LoadDevices(p) PROVE Opened'
  BY <1>4 DEF LoadDevices
<1>5. ASSUME NEW p \in Agents, Loads(p) PROVE Opened'
  <2>1. CASE ReadIdentity(p)
    <3>1. CASE NoIdentity(p)
      BY <1>5, <2>1, <3>1 DEF Loads, ReadIdentity, NoIdentity
    <3>2. CASE KeepsKey(p)
      BY <1>5, <2>1, <3>2 DEF Loads, ReadIdentity, KeepsKey
    <3>3. CASE KeepsBoth(p)
      BY <1>5, <2>1, <3>3 DEF Loads, ReadIdentity, KeepsBoth
    <3>4. CASE DoNotMatch(p)
      BY <1>5, <2>1, <3>4 DEF Loads, ReadIdentity, DoNotMatch
    <3>. QED
      BY <2>1, <3>1, <3>2, <3>3, <3>4 DEF ReadIdentity
  <2>2. CASE WriteKey(p)
    BY <1>5, <2>2 DEF Loads, WriteKey, RenameKey
  <2>3. CASE SyncKey(p)
    BY <1>5, <2>3 DEF Loads, SyncKey, SyncDir
  <2>4. CASE WriteCrt(p)
    BY <1>5, <2>4 DEF Loads, WriteCrt, RenameCrt
  <2>5. CASE SyncCrt(p)
    BY <1>5, <2>5 DEF Loads, SyncCrt, SyncDir
  <2>6. CASE IdentityFails(p)
    BY <1>5, <2>6 DEF Loads, IdentityFails
  <2>. QED
    BY <1>5, <2>1, <2>2, <2>3, <2>4, <2>5, <2>6 DEF Loads, LoadOrCreate
<1>6. ASSUME NEW p \in Agents, ListenTcp(p) PROVE Opened'
  BY <1>6 DEF ListenTcp
<1>7. ASSUME NEW p \in Agents, ServeFails(p) PROVE Opened'
  BY <1>7 DEF ServeFails
<1>8. ASSUME NEW p \in Agents, Stop(p) PROVE Opened'
  BY <1>8 DEF Stop
<1>9. ASSUME NEW p \in Agents, ServersClosed(p) PROVE Opened'
  BY <1>9 DEF ServersClosed
<1>10. ASSUME NEW p \in Agents, Closes(p) PROVE Opened'
  BY <1>10 DEF Closes, CloseListener, CloseSock, CloseLock
<1>11. ASSUME NEW p \in Agents, Exit(p) PROVE Opened'
  BY <1>11 DEF Exit, Forget
<1>12. ASSUME NEW p \in Agents, WriteBegins(p) PROVE Opened'
  BY <1>12 DEF WriteBegins
<1>13. ASSUME NEW p \in Agents, WriteRenames(p) PROVE Opened'
  BY <1>13 DEF WriteRenames, SyncDir
<1>14. ASSUME NEW p \in Agents, WriteFails(p) PROVE Opened'
  BY <1>14 DEF WriteFails
<1>15. ASSUME NEW p \in Agents, Crash(p) PROVE Opened'
  BY <1>15 DEF Crash, Forget
<1>16. CASE PowerCut
  BY <1>16 DEF PowerCut, Forget
<1>17. CASE Planted
  BY <1>17 DEF Planted, Plant
<1>18. CASE TimePasses
  BY <1>18 DEF TimePasses, Age
<1>19. CASE UNCHANGED vars
  BY <1>19 DEF vars
<1>. QED
  BY <1>1, <1>2, <1>3, <1>4, <1>5, <1>6, <1>7, <1>8, <1>9, <1>10, <1>11, <1>12, <1>13,
      <1>14, <1>15, <1>16, <1>17, <1>18, <1>19 DEF Next

\* The two files change in the hands of the lock holder only.
LEMMA IdentifiedStep ==
  ASSUME TypeOK, Locked, Identified, [Next]_vars
  PROVE  Identified'
<1>. USE NobodyAssumption, NoCertAssumption, MaxCertsAssumption DEF TypeOK, Locked,
    Identified, At, Go, folderVars, keyVars, crtVars, fileVars, identityVars, listVars,
    OwnsSock, HasLock, Places, Serving, Opening, Writing, Syncing
<1>1. ASSUME NEW p \in Agents, Start(p) PROVE Identified'
  BY <1>1 DEF Start
<1>2. ASSUME NEW p \in Agents, Opens(p) PROVE Identified'
  <2>1. CASE Mkdir(p)
    BY <1>2, <2>1 DEF Opens, Mkdir
  <2>2. CASE Stat(p)
    BY <1>2, <2>2 DEF Opens, Stat, Refuse
  <2>3. CASE LookFirst(p)
    BY <1>2, <2>3 DEF Opens, LookFirst, Passes, Refuse
  <2>4. CASE CloseFolder(p)
    BY <1>2, <2>4 DEF Opens, CloseFolder
  <2>5. CASE LookAgain(p)
    BY <1>2, <2>5 DEF Opens, LookAgain, Refuse
  <2>6. CASE Chmod(p)
    BY <1>2, <2>6 DEF Opens, Chmod
  <2>7. CASE Probe(p)
    BY <1>2, <2>7 DEF Opens, Probe
  <2>8. CASE Unprobe(p)
    BY <1>2, <2>8 DEF Opens, Unprobe
  <2>9. CASE OpenFails(p)
    BY <1>2, <2>9 DEF Opens, OpenFails, Refuse
  <2>. QED
    BY <1>2, <2>1, <2>2, <2>3, <2>4, <2>5, <2>6, <2>7, <2>8, <2>9 DEF Opens, Open
<1>3. ASSUME NEW p \in Agents, Listens(p) PROVE Identified'
  <2>1. CASE Lock(p)
    BY <1>3, <2>1 DEF Listens, Lock, Refuse
  <2>2. CASE LockFails(p)
    BY <1>3, <2>2 DEF Listens, LockFails, Refuse
  <2>3. CASE RemoveStale(p)
    BY <1>3, <2>3 DEF Listens, RemoveStale
  <2>4. CASE Bind(p)
    BY <1>3, <2>4 DEF Listens, Bind
  <2>5. CASE ChmodSock(p)
    BY <1>3, <2>5 DEF Listens, ChmodSock
  <2>6. CASE ListenFails(p)
    BY <1>3, <2>6 DEF Listens, ListenFails
  <2>. QED
    BY <1>3, <2>1, <2>2, <2>3, <2>4, <2>5, <2>6 DEF Listens, Listen
<1>4. ASSUME NEW p \in Agents, LoadDevices(p) PROVE Identified'
  BY <1>4 DEF LoadDevices
<1>5. ASSUME NEW p \in Agents, Loads(p) PROVE Identified'
  <2>1. CASE ReadIdentity(p)
    <3>1. CASE NoIdentity(p)
      BY <1>5, <2>1, <3>1 DEF Loads, ReadIdentity, NoIdentity
    <3>2. CASE KeepsKey(p)
      BY <1>5, <2>1, <3>2 DEF Loads, ReadIdentity, KeepsKey
    <3>3. CASE KeepsBoth(p)
      BY <1>5, <2>1, <3>3 DEF Loads, ReadIdentity, KeepsBoth
    <3>4. CASE DoNotMatch(p)
      BY <1>5, <2>1, <3>4 DEF Loads, ReadIdentity, DoNotMatch
    <3>. QED
      BY <2>1, <3>1, <3>2, <3>3, <3>4 DEF ReadIdentity
  <2>2. CASE WriteKey(p)
    BY <1>5, <2>2 DEF Loads, WriteKey, RenameKey
  <2>3. CASE SyncKey(p)
    BY <1>5, <2>3 DEF Loads, SyncKey, SyncDir
  <2>4. CASE WriteCrt(p)
    BY <1>5, <2>4 DEF Loads, WriteCrt, RenameCrt, Certs
  <2>5. CASE SyncCrt(p)
    BY <1>5, <2>5 DEF Loads, SyncCrt, SyncDir
  <2>6. CASE IdentityFails(p)
    BY <1>5, <2>6 DEF Loads, IdentityFails
  <2>. QED
    BY <1>5, <2>1, <2>2, <2>3, <2>4, <2>5, <2>6 DEF Loads, LoadOrCreate
<1>6. ASSUME NEW p \in Agents, ListenTcp(p) PROVE Identified'
  BY <1>6 DEF ListenTcp
<1>7. ASSUME NEW p \in Agents, ServeFails(p) PROVE Identified'
  BY <1>7 DEF ServeFails
<1>8. ASSUME NEW p \in Agents, Stop(p) PROVE Identified'
  BY <1>8 DEF Stop
<1>9. ASSUME NEW p \in Agents, ServersClosed(p) PROVE Identified'
  BY <1>9 DEF ServersClosed
<1>10. ASSUME NEW p \in Agents, Closes(p) PROVE Identified'
  BY <1>10 DEF Closes, CloseListener, CloseSock, CloseLock
<1>11. ASSUME NEW p \in Agents, Exit(p) PROVE Identified'
  BY <1>11 DEF Exit, Forget
<1>12. ASSUME NEW p \in Agents, WriteBegins(p) PROVE Identified'
  BY <1>12 DEF WriteBegins
<1>13. ASSUME NEW p \in Agents, WriteRenames(p) PROVE Identified'
  BY <1>13 DEF WriteRenames, SyncDir
<1>14. ASSUME NEW p \in Agents, WriteFails(p) PROVE Identified'
  BY <1>14 DEF WriteFails
<1>15. ASSUME NEW p \in Agents, Crash(p) PROVE Identified'
  BY <1>15 DEF Crash, Forget
<1>16. CASE PowerCut
  BY <1>16 DEF PowerCut, Forget
<1>17. CASE Planted
  BY <1>17 DEF Planted, Plant
<1>18. CASE TimePasses
  BY <1>18 DEF TimePasses, Age
<1>19. CASE UNCHANGED vars
  BY <1>19 DEF vars
<1>. QED
  BY <1>1, <1>2, <1>3, <1>4, <1>5, <1>6, <1>7, <1>8, <1>9, <1>10, <1>11, <1>12, <1>13,
      <1>14, <1>15, <1>16, <1>17, <1>18, <1>19 DEF Next

\* The key is at risk from its rename to the next sync of the folder.
LEMMA PinnedStep ==
  ASSUME TypeOK, Locked, Identified, Pinned, [Next]_vars
  PROVE  Pinned'
<1>. USE NobodyAssumption, NoCertAssumption DEF TypeOK, Locked, Identified, Pinned, At,
    Go, folderVars, keyVars, crtVars, fileVars, identityVars, listVars, OwnsSock,
    HasLock, Places, Serving, Opening, Writing, Syncing
<1>1. ASSUME NEW p \in Agents, Start(p) PROVE Pinned'
  BY <1>1 DEF Start
<1>2. ASSUME NEW p \in Agents, Opens(p) PROVE Pinned'
  <2>1. CASE Mkdir(p)
    BY <1>2, <2>1 DEF Opens, Mkdir
  <2>2. CASE Stat(p)
    BY <1>2, <2>2 DEF Opens, Stat, Refuse
  <2>3. CASE LookFirst(p)
    BY <1>2, <2>3 DEF Opens, LookFirst, Passes, Refuse
  <2>4. CASE CloseFolder(p)
    BY <1>2, <2>4 DEF Opens, CloseFolder
  <2>5. CASE LookAgain(p)
    BY <1>2, <2>5 DEF Opens, LookAgain, Refuse
  <2>6. CASE Chmod(p)
    BY <1>2, <2>6 DEF Opens, Chmod
  <2>7. CASE Probe(p)
    BY <1>2, <2>7 DEF Opens, Probe
  <2>8. CASE Unprobe(p)
    BY <1>2, <2>8 DEF Opens, Unprobe
  <2>9. CASE OpenFails(p)
    BY <1>2, <2>9 DEF Opens, OpenFails, Refuse
  <2>. QED
    BY <1>2, <2>1, <2>2, <2>3, <2>4, <2>5, <2>6, <2>7, <2>8, <2>9 DEF Opens, Open
<1>3. ASSUME NEW p \in Agents, Listens(p) PROVE Pinned'
  <2>1. CASE Lock(p)
    BY <1>3, <2>1 DEF Listens, Lock, Refuse
  <2>2. CASE LockFails(p)
    BY <1>3, <2>2 DEF Listens, LockFails, Refuse
  <2>3. CASE RemoveStale(p)
    BY <1>3, <2>3 DEF Listens, RemoveStale
  <2>4. CASE Bind(p)
    BY <1>3, <2>4 DEF Listens, Bind
  <2>5. CASE ChmodSock(p)
    BY <1>3, <2>5 DEF Listens, ChmodSock
  <2>6. CASE ListenFails(p)
    BY <1>3, <2>6 DEF Listens, ListenFails
  <2>. QED
    BY <1>3, <2>1, <2>2, <2>3, <2>4, <2>5, <2>6 DEF Listens, Listen
<1>4. ASSUME NEW p \in Agents, LoadDevices(p) PROVE Pinned'
  BY <1>4 DEF LoadDevices
<1>5. ASSUME NEW p \in Agents, Loads(p) PROVE Pinned'
  <2>1. CASE ReadIdentity(p)
    <3>1. CASE NoIdentity(p)
      BY <1>5, <2>1, <3>1 DEF Loads, ReadIdentity, NoIdentity
    <3>2. CASE KeepsKey(p)
      BY <1>5, <2>1, <3>2 DEF Loads, ReadIdentity, KeepsKey
    <3>3. CASE KeepsBoth(p)
      BY <1>5, <2>1, <3>3 DEF Loads, ReadIdentity, KeepsBoth
    <3>4. CASE DoNotMatch(p)
      BY <1>5, <2>1, <3>4 DEF Loads, ReadIdentity, DoNotMatch
    <3>. QED
      BY <2>1, <3>1, <3>2, <3>3, <3>4 DEF ReadIdentity
  <2>2. CASE WriteKey(p)
    BY <1>5, <2>2 DEF Loads, WriteKey, RenameKey
  <2>3. CASE SyncKey(p)
    BY <1>5, <2>3 DEF Loads, SyncKey, SyncDir
  <2>4. CASE WriteCrt(p)
    BY <1>5, <2>4 DEF Loads, WriteCrt, RenameCrt
  <2>5. CASE SyncCrt(p)
    BY <1>5, <2>5 DEF Loads, SyncCrt, SyncDir
  <2>6. CASE IdentityFails(p)
    BY <1>5, <2>6 DEF Loads, IdentityFails
  <2>. QED
    BY <1>5, <2>1, <2>2, <2>3, <2>4, <2>5, <2>6 DEF Loads, LoadOrCreate
<1>6. ASSUME NEW p \in Agents, ListenTcp(p) PROVE Pinned'
  BY <1>6 DEF ListenTcp, Presented
<1>7. ASSUME NEW p \in Agents, ServeFails(p) PROVE Pinned'
  BY <1>7 DEF ServeFails
<1>8. ASSUME NEW p \in Agents, Stop(p) PROVE Pinned'
  BY <1>8 DEF Stop
<1>9. ASSUME NEW p \in Agents, ServersClosed(p) PROVE Pinned'
  BY <1>9 DEF ServersClosed
<1>10. ASSUME NEW p \in Agents, Closes(p) PROVE Pinned'
  BY <1>10 DEF Closes, CloseListener, CloseSock, CloseLock
<1>11. ASSUME NEW p \in Agents, Exit(p) PROVE Pinned'
  BY <1>11 DEF Exit, Forget
<1>12. ASSUME NEW p \in Agents, WriteBegins(p) PROVE Pinned'
  BY <1>12 DEF WriteBegins
<1>13. ASSUME NEW p \in Agents, WriteRenames(p) PROVE Pinned'
  BY <1>13 DEF WriteRenames, SyncDir
<1>14. ASSUME NEW p \in Agents, WriteFails(p) PROVE Pinned'
  BY <1>14 DEF WriteFails
<1>15. ASSUME NEW p \in Agents, Crash(p) PROVE Pinned'
  BY <1>15 DEF Crash, Forget
<1>16. CASE PowerCut
  <2>1. \A p \in Agents : pc'[p] = "off"
    BY <1>16 DEF PowerCut, Forget
  <2>2. keyKept' = {key'}
    BY <1>16 DEF PowerCut
  <2>3. SyncsFolders /\ pinned' # {} => key' # None /\ pinned' = {key'}
    <3>. SUFFICES ASSUME SyncsFolders, pinned' # {} PROVE key' # None /\ pinned' =
        {key'}
      OBVIOUS
    <3>1. ~torn /\ pinned' = pinned
      BY <1>16 DEF PowerCut
    <3>2. keyKept = {key}
      BY <3>1
    <3>. QED
      BY <1>16, <3>1, <3>2 DEF PowerCut
  <2>. QED
    BY <2>1, <2>2, <2>3
<1>17. CASE Planted
  BY <1>17 DEF Planted, Plant
<1>18. CASE TimePasses
  BY <1>18 DEF TimePasses, Age
<1>19. CASE UNCHANGED vars
  BY <1>19 DEF vars
<1>. QED
  BY <1>1, <1>2, <1>3, <1>4, <1>5, <1>6, <1>7, <1>8, <1>9, <1>10, <1>11, <1>12, <1>13,
      <1>14, <1>15, <1>16, <1>17, <1>18, <1>19 DEF Next

\* An agent that has read the list holds the lock, and only handlers write the
\* list: one that makes the difference runs without the lock.
LEMMA MisledStep ==
  ASSUME TypeOK, Locked, [Next]_vars, NEW o \in Agents, Misled(o)'
  PROVE  Misled(o) \/ \E q \in Agents \ {o} : LateWrite(q)
<1>. USE NobodyAssumption, NoCertAssumption DEF TypeOK, Misled, HasRead, At, Go,
    folderVars, keyVars, crtVars, fileVars, identityVars, listVars, OwnsSock, HasLock,
    Places, Serving, Opening, Writing, Syncing
<1>1. ASSUME NEW p \in Agents, Start(p) PROVE Misled(o)
  BY <1>1 DEF Start
<1>2. ASSUME NEW p \in Agents, Opens(p) PROVE Misled(o)
  <2>1. CASE Mkdir(p)
    BY <1>2, <2>1 DEF Opens, Mkdir
  <2>2. CASE Stat(p)
    BY <1>2, <2>2 DEF Opens, Stat, Refuse
  <2>3. CASE LookFirst(p)
    BY <1>2, <2>3 DEF Opens, LookFirst, Passes, Refuse
  <2>4. CASE CloseFolder(p)
    BY <1>2, <2>4 DEF Opens, CloseFolder
  <2>5. CASE LookAgain(p)
    BY <1>2, <2>5 DEF Opens, LookAgain, Refuse
  <2>6. CASE Chmod(p)
    BY <1>2, <2>6 DEF Opens, Chmod
  <2>7. CASE Probe(p)
    BY <1>2, <2>7 DEF Opens, Probe
  <2>8. CASE Unprobe(p)
    BY <1>2, <2>8 DEF Opens, Unprobe
  <2>9. CASE OpenFails(p)
    BY <1>2, <2>9 DEF Opens, OpenFails, Refuse
  <2>. QED
    BY <1>2, <2>1, <2>2, <2>3, <2>4, <2>5, <2>6, <2>7, <2>8, <2>9 DEF Opens, Open
<1>3. ASSUME NEW p \in Agents, Listens(p) PROVE Misled(o)
  <2>1. CASE Lock(p)
    BY <1>3, <2>1 DEF Listens, Lock, Refuse
  <2>2. CASE LockFails(p)
    BY <1>3, <2>2 DEF Listens, LockFails, Refuse
  <2>3. CASE RemoveStale(p)
    BY <1>3, <2>3 DEF Listens, RemoveStale
  <2>4. CASE Bind(p)
    BY <1>3, <2>4 DEF Listens, Bind
  <2>5. CASE ChmodSock(p)
    BY <1>3, <2>5 DEF Listens, ChmodSock
  <2>6. CASE ListenFails(p)
    BY <1>3, <2>6 DEF Listens, ListenFails
  <2>. QED
    BY <1>3, <2>1, <2>2, <2>3, <2>4, <2>5, <2>6 DEF Listens, Listen
<1>4. ASSUME NEW p \in Agents, LoadDevices(p) PROVE Misled(o)
  BY <1>4 DEF LoadDevices
<1>5. ASSUME NEW p \in Agents, Loads(p) PROVE Misled(o)
  <2>1. CASE ReadIdentity(p)
    <3>1. CASE NoIdentity(p)
      BY <1>5, <2>1, <3>1 DEF Loads, ReadIdentity, NoIdentity
    <3>2. CASE KeepsKey(p)
      BY <1>5, <2>1, <3>2 DEF Loads, ReadIdentity, KeepsKey
    <3>3. CASE KeepsBoth(p)
      BY <1>5, <2>1, <3>3 DEF Loads, ReadIdentity, KeepsBoth
    <3>4. CASE DoNotMatch(p)
      BY <1>5, <2>1, <3>4 DEF Loads, ReadIdentity, DoNotMatch
    <3>. QED
      BY <2>1, <3>1, <3>2, <3>3, <3>4 DEF ReadIdentity
  <2>2. CASE WriteKey(p)
    BY <1>5, <2>2 DEF Loads, WriteKey, RenameKey
  <2>3. CASE SyncKey(p)
    BY <1>5, <2>3 DEF Loads, SyncKey, SyncDir
  <2>4. CASE WriteCrt(p)
    BY <1>5, <2>4 DEF Loads, WriteCrt, RenameCrt
  <2>5. CASE SyncCrt(p)
    BY <1>5, <2>5 DEF Loads, SyncCrt, SyncDir
  <2>6. CASE IdentityFails(p)
    BY <1>5, <2>6 DEF Loads, IdentityFails
  <2>. QED
    BY <1>5, <2>1, <2>2, <2>3, <2>4, <2>5, <2>6 DEF Loads, LoadOrCreate
<1>6. ASSUME NEW p \in Agents, ListenTcp(p) PROVE Misled(o)
  BY <1>6 DEF ListenTcp
<1>7. ASSUME NEW p \in Agents, ServeFails(p) PROVE Misled(o)
  BY <1>7 DEF ServeFails
<1>8. ASSUME NEW p \in Agents, Stop(p) PROVE Misled(o)
  BY <1>8 DEF Stop
<1>9. ASSUME NEW p \in Agents, ServersClosed(p) PROVE Misled(o)
  BY <1>9 DEF ServersClosed
<1>10. ASSUME NEW p \in Agents, Closes(p) PROVE Misled(o)
  BY <1>10 DEF Closes, CloseListener, CloseSock, CloseLock
<1>11. ASSUME NEW p \in Agents, Exit(p) PROVE Misled(o)
  BY <1>11 DEF Exit, Forget
<1>12. ASSUME NEW p \in Agents, WriteBegins(p) PROVE Misled(o)
  BY <1>12 DEF WriteBegins
<1>13. ASSUME NEW p \in Agents, WriteRenames(p) PROVE Misled(o) \/ (p # o /\ LateWrite(p))
  <2>1. UNCHANGED <<pc, lock>> /\ known' = [known EXCEPT ![p] = @ \cup {list'}]
    BY <1>13 DEF WriteRenames
  <2>2. p # o
    BY <2>1
  <2>3. CASE pc[p] \in HasLock
    <3>1. lock = p /\ lock = o
      BY <2>1, <2>3 DEF Locked
    <3>. QED
      BY <2>2, <3>1
  <2>4. CASE pc[p] \notin HasLock
    BY <1>13, <2>2, <2>4 DEF LateWrite
  <2>. QED
    BY <2>3, <2>4
<1>14. ASSUME NEW p \in Agents, WriteFails(p) PROVE Misled(o)
  BY <1>14 DEF WriteFails
<1>15. ASSUME NEW p \in Agents, Crash(p) PROVE Misled(o)
  BY <1>15 DEF Crash, Forget
<1>16. CASE PowerCut
  BY <1>16 DEF PowerCut, Forget
<1>17. CASE Planted
  BY <1>17 DEF Planted, Plant
<1>18. CASE TimePasses
  BY <1>18 DEF TimePasses, Age
<1>19. CASE UNCHANGED vars
  BY <1>19 DEF vars
<1>. QED
  BY <1>1, <1>2, <1>3, <1>4, <1>5, <1>6, <1>7, <1>8, <1>9, <1>10, <1>11, <1>12, <1>13,
      <1>14, <1>15, <1>16, <1>17, <1>18, <1>19 DEF Next

\* The invariant holds in every state.
THEOREM Invariance == Spec => []IInv
<1>1. Init => IInv
  <2>. SUFFICES ASSUME Init PROVE IInv
    OBVIOUS
  <2>. USE NobodyAssumption DEF Init
  <2>1. TypeOK
    <3>1. 0 \in 0..MaxWrites /\ 0 \in 0..MaxCerts
      BY MaxCertsAssumption, MaxWritesAssumption
    <3>2. /\ pc \in [Agents -> Places]
          /\ saw \in [Agents -> {"new", "private", "shared"}]
          /\ hand \in [Agents -> Keys \cup {None}]
          /\ cert \in [Agents -> Certs \cup {None}]
      BY DEF Places
    <3>3. /\ busy \in [Agents -> 0..MaxWrites]
          /\ known \in [Agents -> SUBSET (0..MaxWrites)]
      BY <3>1
    <3>. QED
      BY <3>1, <3>2, <3>3 DEF TypeOK
  <2>2. Locked /\ Owned /\ Opened
    BY DEF Locked, Owned, Opened, HasLock, OwnsSock, Writing, Syncing
  <2>3. Identified /\ Pinned
    BY DEF Identified, Pinned, Serving, Writing, Syncing
  <2>. QED
    BY <2>1, <2>2, <2>3 DEF IInv
<1>2. IInv /\ [Next]_vars => IInv'
  BY TypeStep, LockedStep, OwnedStep, OpenedStep, IdentifiedStep, PinnedStep DEF IInv
<1>. QED
  BY <1>1, <1>2, PTL DEF Spec

\* The command line of an agent that serves reaches that agent, whatever other
\* agents do on the folder (admin.Listen and the Close of its listener).
THEOREM SocketsAreOwn == Spec => []SocketIsMine
<1>1. IInv => SocketIsMine
  BY DEF IInv, Owned, SocketIsMine, OwnsSock, Serving
<1>. QED
  BY <1>1, Invariance, PTL

\* Where folders can be synced, all agents that ever serve a folder serve one
\* key, through crashes, power cuts and renewals (tlsid.LoadOrCreate).
THEOREM FingerprintIsKept == Spec => []FingerprintKept
<1>1. IInv => FingerprintKept
  BY DEF IInv, Identified, Pinned, FingerprintKept, Presented
<1>. QED
  BY <1>1, Invariance, PTL

\* What an agent presents is what its health check finds in the folder.
THEOREM StoredIsServed == Spec => []ServedIsStored
<1>1. IInv => ServedIsStored
  BY DEF IInv, Identified, ServedIsStored, Presented, TrustedLocally
<1>. QED
  BY <1>1, Invariance, PTL

\* An agent takes no folder with something in it that state.Open is to refuse.
THEOREM FoldersAreOwn == Spec => []TakenIsOwn
<1>1. IInv => TakenIsOwn
  BY DEF IInv, Opened, TakenIsOwn
<1>. QED
  BY <1>1, Invariance, PTL

\* The list in the folder of an agent that has read it is one it has read or
\* written until a handler whose own agent gave up the lock writes, and nothing
\* else takes it from the agent: other agents, crashes and power cuts included
\* (serve, which loads the list under the lock and closes the admin socket last).
THEOREM ListsAreLostToLateWrites == Spec => OnlyLateWritesMislead
<1>1. IInv /\ [Next]_vars =>
        \A p \in Agents : Misled(p)' => Misled(p) \/ \E q \in Agents \ {p} : LateWrite(q)
  BY MisledStep DEF IInv
<1>. QED
  BY <1>1, Invariance, PTL DEF Spec, OnlyLateWritesMislead
=============================================================================
