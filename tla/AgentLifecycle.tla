--------------------------- MODULE AgentLifecycle ---------------------------
(* serve, from its start to the end of the process: state.Open, then        *)
(* admin.Listen, and only then the device list and the certificate, for the *)
(* lock on the folder keeps a second agent off them; then the listener and  *)
(* the two servers, and the way out in the order serve takes it. Agents are *)
(* started, told to stop and started again, and any of them can die, or the *)
(* power fail, at every point.                                              *)
(*                                                                          *)
(* What is abstracted: the device list is a version number, and a write of  *)
(* it one step that comes some time after the handler began (DeviceStore    *)
(* has its steps and its failures); requests are in AgentAccess, pairings   *)
(* in Pairing. The agent serves TLS (not INSECURE_HTTP).                    *)
EXTENDS AdminSocket, TlsIdentity

CONSTANTS
  MaxWrites    \* bound of the writes of the device list

ASSUME MaxWritesAssumption == MaxWrites \in Nat

VARIABLES
  busy,     \* the version of the list an agent's handler is about to put in place, or 0
  begun,    \* how many writes ever began
  known,    \* the versions of the list an agent has read or written (ghost)
  pinned    \* the keys agents have served under, which phones pin (ghost; see PowerCut)

listVars == <<busy, begun, known>>
vars == <<pc, saw, folderVars, fileVars, lock, identityVars, listVars, pinned>>

\* The places of an agent that has the lock, and of one that owns the socket.
OwnsSock == {"chmodSock", "load", "readId", "tcp", "serve", "drain"} \cup Writing \cup Syncing
HasLock == OwnsSock \cup {"removeStale", "bind", "closeSock", "closeLock"}
Places == {"off", "lock", "exit"} \cup Opening \cup HasLock
Serving == {"serve", "drain"}

TypeOK ==
  /\ pc \in [Agents -> Places]
  /\ saw \in [Agents -> {"new", "private", "shared"}]
  /\ mode \in {"none", "private", "shared", "foreign"}
  /\ strange \in {"none", "own", "other"}
  /\ scrap \in BOOLEAN /\ lockFile \in BOOLEAN
  /\ sock \in Agents \cup {None} /\ lock \in Agents \cup {None}
  /\ key \in Keys \cup {None} /\ keyKept \subseteq Keys \cup {None} /\ torn \in BOOLEAN
  /\ crt \in Certs \cup {None} /\ crtKept \subseteq Certs \cup {None}
  /\ hand \in [Agents -> Keys \cup {None}]
  /\ cert \in [Agents -> Certs \cup {None}]
  /\ drawn \subseteq Keys
  /\ issued \in 0..MaxCerts /\ aged \in 0..MaxCerts
  /\ list \in 0..MaxWrites /\ begun \in 0..MaxWrites
  /\ busy \in [Agents -> 0..MaxWrites]
  /\ known \in [Agents -> SUBSET (0..MaxWrites)]
  /\ pinned \subseteq Keys

\* A folder as an operator may have prepared it; what others could write to
\* can hold something already, and so can one that was made private since.
Init ==
  /\ pc = [p \in Agents |-> "off"]
  /\ saw = [p \in Agents |-> "new"]
  /\ mode \in {"none", "private", "shared", "foreign"}
  /\ strange \in {"none", "own", "other"}
  /\ mode = "none" => strange = "none"
  /\ scrap = FALSE /\ lockFile = FALSE
  /\ sock = None /\ lock = None
  /\ key = None /\ keyKept = {None} /\ torn = FALSE
  /\ crt = None /\ crtKept = {None}
  /\ hand = [p \in Agents |-> None]
  /\ cert = [p \in Agents |-> None]
  /\ drawn = {} /\ issued = 0 /\ aged = 0
  /\ list = 0 /\ begun = 0
  /\ busy = [p \in Agents |-> 0]
  /\ known = [p \in Agents |-> {}]
  /\ pinned = {}

-----------------------------------------------------------------------------
(* serve, beside what the other modules do of it.                           *)

Start(p) ==
  /\ At(p, "off")
  /\ Go(p, "mkdir")
  /\ UNCHANGED <<saw, folderVars, fileVars, lock, identityVars, listVars, pinned>>

LoadDevices(p) ==
  /\ At(p, "load")
  /\ known' = [known EXCEPT ![p] = {list}]
  /\ Go(p, "readId")
  /\ UNCHANGED <<saw, folderVars, fileVars, lock, identityVars, busy, begun, pinned>>

\* net.Listen and the two servers; the fingerprint is what phones are given.
ListenTcp(p) ==
  /\ At(p, "tcp")
  /\ pinned' = pinned \cup {Presented(p).key}
  /\ Go(p, "serve")
  /\ UNCHANGED <<saw, folderVars, fileVars, lock, identityVars, listVars>>

\* The list, the handler or the port: serve returns, and its deferred Close
\* gives the socket and the folder up.
ServeFails(p) ==
  /\ pc[p] \in {"load", "tcp"}
  /\ Go(p, "closeSock")
  /\ UNCHANGED <<saw, folderVars, fileVars, lock, identityVars, listVars, pinned>>

\* Mutant: the admin socket is closed, and with it the lock, before the servers.
StopGivesLockFirst(p) ==
  /\ At(p, "serve")
  /\ lock' = None
  /\ Go(p, "drain")
  /\ UNCHANGED <<saw, folderVars, fileVars, identityVars, listVars, pinned>>

\* The agent is told to stop, or a server fails.
Stop(p) ==
  /\ At(p, "serve")
  /\ Go(p, "drain")
  /\ UNCHANGED <<saw, folderVars, fileVars, lock, identityVars, listVars, pinned>>

\* Shutdown within the grace, CloseAll, srv.Close, and adminSrv.Close on the
\* connections it knows. None of them waits for a handler that goes on.
ServersClosed(p) ==
  /\ At(p, "drain")
  /\ Go(p, "closeSock")
  /\ UNCHANGED <<saw, folderVars, fileVars, lock, identityVars, listVars, pinned>>

\* A handler has a new list to store; Devices lets one write at a time.
WriteBegins(p) ==
  /\ pc[p] \in Serving
  /\ busy[p] = 0
  /\ begun < MaxWrites
  /\ begun' = begun + 1
  /\ busy' = [busy EXCEPT ![p] = begun']
  /\ UNCHANGED <<pc, saw, folderVars, fileVars, lock, identityVars, known, pinned>>

\* Its rename and the sync after it, wherever serve has got to by now.
WriteRenames(p) ==
  /\ busy[p] # 0
  /\ list' = busy[p] /\ SyncDir
  /\ known' = [known EXCEPT ![p] = @ \cup {busy[p]}]
  /\ busy' = [busy EXCEPT ![p] = 0]
  /\ UNCHANGED <<pc, saw, folderVars, lockFile, sock, key, crt, lock, identityVars, begun, pinned>>

WriteFails(p) ==
  /\ busy[p] # 0
  /\ busy' = [busy EXCEPT ![p] = 0]
  /\ scrap' \in {scrap, TRUE}
  /\ UNCHANGED <<pc, saw, mode, strange, fileVars, lock, identityVars, begun, known, pinned>>

\* What a process leaves in memory when it is gone: nothing. A file it was
\* making stays where it is.
Forget(ps) ==
  /\ pc' = [p \in Agents |-> IF p \in ps THEN "off" ELSE pc[p]]
  /\ saw' = [p \in Agents |-> IF p \in ps THEN "new" ELSE saw[p]]
  /\ hand' = [p \in Agents |-> IF p \in ps THEN None ELSE hand[p]]
  /\ cert' = [p \in Agents |-> IF p \in ps THEN None ELSE cert[p]]
  /\ busy' = [p \in Agents |-> IF p \in ps THEN 0 ELSE busy[p]]
  /\ known' = [p \in Agents |-> IF p \in ps THEN {} ELSE known[p]]
  /\ scrap' = (scrap \/ \E p \in ps : busy[p] # 0 \/ pc[p] \in Writing \cup {"unprobe"})
  /\ UNCHANGED <<mode, strange, lockFile, drawn, issued, aged, begun>>

Exit(p) ==
  /\ At(p, "exit")
  /\ Forget({p})
  /\ UNCHANGED <<sock, keyVars, crtVars, list, lock, pinned>>

\* The process dies: the kernel drops its lock, and its socket stays.
Crash(p) ==
  /\ ~At(p, "off")
  /\ Forget({p})
  /\ lock' = IF lock = p THEN None ELSE lock
  /\ torn' = (torn \/ At(p, "syncKey"))
  /\ UNCHANGED <<sock, key, keyKept, crtVars, list, pinned>>

\* The power fails: a rename that no sync of the folder followed may be undone.
\* With a key at risk in this way it may take the identity with it, and phones
\* have to be paired again; this is the one case FingerprintKept leaves out.
PowerCut ==
  /\ \E p \in Agents : ~At(p, "off")
  /\ Forget(Agents)
  /\ lock' = None
  /\ sock' \in {sock, None}
  /\ key' \in keyKept /\ keyKept' = {key'}
  /\ crt' \in crtKept /\ crtKept' = {crt'}
  /\ list' \in 0..list
  /\ torn' = FALSE
  /\ pinned' = IF torn THEN {} ELSE pinned

-----------------------------------------------------------------------------
Opens(p)    == Open(p) /\ UNCHANGED <<lock, identityVars, listVars, pinned>>
Listens(p)  == Listen(p) /\ UNCHANGED <<identityVars, listVars, pinned>>
Loads(p)    == LoadOrCreate(p) /\ UNCHANGED <<lock, listVars, pinned>>
Closes(p)   == CloseListener(p) /\ UNCHANGED <<identityVars, listVars, pinned>>
Planted     == Plant /\ UNCHANGED <<lock, identityVars, listVars, pinned>>
TimePasses  == Age /\ UNCHANGED <<lock, listVars, pinned>>

Next ==
  \/ \E p \in Agents :
       \/ Start(p) \/ Opens(p) \/ Listens(p) \/ LoadDevices(p) \/ Loads(p) \/ ListenTcp(p)
       \/ ServeFails(p) \/ Stop(p) \/ ServersClosed(p) \/ Closes(p) \/ Exit(p)
       \/ WriteBegins(p) \/ WriteRenames(p) \/ WriteFails(p)
       \/ Crash(p)
  \/ PowerCut \/ Planted \/ TimePasses

Spec == Init /\ [][Next]_vars

-----------------------------------------------------------------------------
(* Properties.                                                              *)

\* The socket in the folder of an agent that serves is that agent's own, so
\* the command line reaches it: no other agent that starts on the folder, is
\* refused, fails, stops or dies removes or replaces it (admin.Listen, Close).
SocketIsMine == \A p \in Agents : pc[p] \in Serving => sock = p

\* Phones pin a key. Whatever dies between the write of the key and that of
\* the certificate, and however often certificates are renewed, every agent
\* that serves this folder serves the one key any agent ever served
\* (tlsid.LoadOrCreate; on a file system that syncs folders).
FingerprintKept == SyncsFolders =>
  \A p \in Agents : pc[p] \in Serving => pinned = {Presented(p).key}

\* The certificate an agent presents is the one in its folder, which is the
\* only one its health check trusts (LoadOrCreate against LocalClientConfig).
ServedIsStored == \A p \in Agents : pc[p] \in Serving => Presented(p) = TrustedLocally

\* An agent that found the folder writable for others has it to itself: what
\* others put there before it was closed, between the two looks included, it
\* has refused. And no agent takes a folder with a file in it that is not an
\* agent's, whatever its mode (state.Open).
TakenIsOwn ==
  \A p \in Agents : pc[p] \in HasLock \cup {"lock"} =>
    IF saw[p] = "shared" THEN strange = "none" ELSE strange # "other"

\* The list in the folder of an agent that serves is one it has read or
\* written: nobody else writes there while it holds the lock (serve, the
\* comment on the end of it).
ListIsMine == \A p \in Agents : pc[p] \in Serving => list \in known[p]

\* An agent has read a list that is not the one in its folder any more.
HasRead == {"readId", "tcp"} \cup Writing \cup Syncing \cup Serving
Misled(p) == pc[p] \in HasRead /\ list \notin known[p]

\* The write of a handler that its own agent did not wait for.
LateWrite(p) == WriteRenames(p) /\ pc[p] \notin HasLock

\* What takes the list from an agent that has read it is such a write, of
\* another agent, and nothing else: no agent that is starting, serving, failing
\* or closing, no crash and no power cut (serve: the lock before the list, and
\* the admin socket last).
OnlyLateWritesMislead ==
  [][\A p \in Agents : Misled(p)' =>
       Misled(p) \/ \E q \in Agents \ {p} : LateWrite(q)]_vars

-----------------------------------------------------------------------------
(* The inductive invariant behind them.                                     *)

\* The agents between their Lock and their CloseLock hold the lock: one at most.
Locked == \A p \in Agents : lock = p <=> pc[p] \in HasLock

Owned == \A p \in Agents : pc[p] \in OwnsSock => sock = p

\* A folder that is private stays so, and others put nothing into it.
Opened ==
  /\ mode = "none" => strange = "none"
  /\ \A p \in Agents :
       /\ pc[p] \in {"off", "mkdir", "stat"} => saw[p] = "new"
       /\ pc[p] \in {"close", "lookAgain"} => saw[p] = "shared"
       /\ saw[p] = "private" => mode = "private"
       /\ pc[p] = "stat" => mode # "none"
       /\ pc[p] = "look" => saw[p] # "new"
       /\ pc[p] = "lookAgain" => mode = "private"
       /\ pc[p] \in {"chmod", "probe", "unprobe", "lock"} \cup HasLock =>
            /\ mode = "private"
            /\ IF saw[p] = "shared" THEN strange = "none" ELSE strange # "other"

\* What the agent that holds the lock knows of the identity in the folder.
Identified ==
  \A p \in Agents :
    /\ pc[p] = "writeKey" => key = None /\ crt = None /\ hand[p] # None
    /\ pc[p] = "syncKey" => key # None /\ key = hand[p] /\ crt = None
    /\ pc[p] = "writeCrt" => key # None /\ key = hand[p]
    /\ pc[p] \in {"syncCrt", "tcp"} \cup Serving =>
         key # None /\ crt # None /\ crt = cert[p] /\ crt.key = key

\* The key phones have pinned is the one in the folder, and no power cut can
\* take it but between its rename and the next sync.
Pinned == SyncsFolders =>
  /\ pinned # {} => key # None /\ pinned = {key}
  /\ keyKept = {key} \/ torn \/ \E p \in Agents : pc[p] = "syncKey"
  /\ \A p \in Agents : pc[p] = "syncKey" => pinned = {}
  /\ \A p \in Agents : pc[p] \in Serving => pinned = {key}

IInv == TypeOK /\ Locked /\ Owned /\ Opened /\ Identified /\ Pinned
=============================================================================
