------------------------------ MODULE StateDir ------------------------------
(* The state folder as agents that are started on it find and leave it:     *)
(* state.Open, and the files an agent keeps there. Any number of agents may *)
(* be started on one folder, each a process of its own; pc says where each  *)
(* of them stands, and this module takes it from "mkdir" to "lock".         *)
(* AdminSocket and TlsIdentity go on from there; AgentLifecycle is the whole.*)
EXTENDS Integers, FiniteSets

CONSTANTS
  Agents,        \* the processes that are started on the folder
  None,          \* no agent, no key, no certificate
  Keys,          \* the keys an agent can generate
  MaxCerts,      \* bound of the certificates that are ever issued
  SyncsFolders   \* whether the file system can sync a folder (syncDir)

ASSUME NobodyAssumption == None \notin Agents /\ None \notin Keys
ASSUME MaxCertsAssumption == MaxCerts \in Nat \ {0}
ASSUME SyncsAssumption == SyncsFolders \in BOOLEAN

\* A certificate: the key it is for, and which one it is of those ever issued.
Certs == [key : Keys, no : 1..MaxCerts]
ASSUME NoCertAssumption == None \notin Certs

VARIABLES
  pc,         \* where each agent stands
  saw,        \* what an agent's Mkdir or Stat said of the folder: new, private or shared
  mode,       \* the folder: none, private, shared (others can write) or foreign (not ours, no folder)
  strange,    \* what no agent put there: nothing, an entry under an own name, or another
  scrap,      \* whether a probe or a temporary file was left behind
  lockFile,   \* whether agent.lock is there
  sock,       \* whose socket admin.sock is, or None
  key,        \* tls.key
  crt,        \* tls.crt
  keyKept,    \* what a power cut could leave of tls.key
  crtKept,    \* what a power cut could leave of tls.crt
  torn,       \* whether an agent ended between the rename of the key and its sync, with no sync since (ghost)
  list        \* devices.json: its version, 0 while there is none

folderVars == <<mode, strange, scrap>>
keyVars    == <<key, keyKept, torn>>
crtVars    == <<crt, crtKept>>
fileVars   == <<lockFile, sock, keyVars, crtVars, list>>

Opening == {"mkdir", "stat", "look", "close", "lookAgain", "chmod", "probe", "unprobe"}

At(p, where) == pc[p] = where
Go(p, where) == pc' = [pc EXCEPT ![p] = where]

\* The process ends: with an error, or because it is through.
Refuse(p) == /\ Go(p, "off")
             /\ saw' = [saw EXCEPT ![p] = "new"]

\* What checkExisting and checkStillEmpty call empty.
Empty == /\ strange = "none"
         /\ ~scrap /\ \A q \in Agents : ~At(q, "unprobe")
         /\ ~lockFile /\ sock = None /\ key = None /\ crt = None /\ list = 0

\* Mkdir says whether the folder is new.
Mkdir(p) ==
  /\ At(p, "mkdir")
  /\ \/ mode = "none" /\ mode' = "private" /\ Go(p, "chmod")
     \/ mode # "none" /\ mode' = mode /\ Go(p, "stat")
  /\ UNCHANGED <<saw, strange, scrap, fileVars>>

\* Stat, whose answer the checks after it go by, and the owner.
Stat(p) ==
  /\ At(p, "stat")
  /\ \/ mode = "foreign" /\ Refuse(p)
     \/ /\ mode # "foreign"
        /\ saw' = [saw EXCEPT ![p] = mode]
        /\ Go(p, "look")
  /\ UNCHANGED <<folderVars, fileVars>>

\* checkExisting's ReadDir: a shared folder must be empty, a private one may
\* hold what bears an own name.
Passes(p) == IF saw[p] = "shared" THEN Empty ELSE strange # "other"

LookFirst(p) ==
  /\ At(p, "look")
  /\ \/ ~Passes(p) /\ Refuse(p)
     \/ /\ Passes(p)
        /\ Go(p, IF saw[p] = "shared" THEN "close" ELSE "chmod")
        /\ saw' = saw
  /\ UNCHANGED <<folderVars, fileVars>>

\* A shared folder is made private before it is looked at again.
CloseFolder(p) ==
  /\ At(p, "close")
  /\ mode' = "private"
  /\ Go(p, "lookAgain")
  /\ UNCHANGED <<saw, strange, scrap, fileVars>>

\* Variant: a shared folder is closed and not looked at again.
LookAgainSkipped(p) ==
  /\ At(p, "lookAgain")
  /\ Go(p, "chmod")
  /\ UNCHANGED <<saw, folderVars, fileVars>>

LookAgain(p) ==
  /\ At(p, "lookAgain")
  /\ \/ ~Empty /\ Refuse(p)
     \/ Empty /\ Go(p, "chmod") /\ saw' = saw
  /\ UNCHANGED <<folderVars, fileVars>>

Chmod(p) ==
  /\ At(p, "chmod")
  /\ mode' = "private"
  /\ Go(p, "probe")
  /\ UNCHANGED <<saw, strange, scrap, fileVars>>

\* probe makes a file and removes it; whether the removal works is not looked at.
Probe(p) ==
  /\ At(p, "probe")
  /\ Go(p, "unprobe")
  /\ UNCHANGED <<saw, folderVars, fileVars>>

Unprobe(p) ==
  /\ At(p, "unprobe")
  /\ scrap' \in {scrap, TRUE}
  /\ Go(p, "lock")
  /\ UNCHANGED <<saw, mode, strange, fileVars>>

\* A system call of Open fails; nothing is held yet, and the agent ends.
OpenFails(p) ==
  /\ pc[p] \in Opening \ {"unprobe"}
  /\ Refuse(p)
  /\ UNCHANGED <<folderVars, fileVars>>

Open(p) == \/ Mkdir(p) \/ Stat(p) \/ LookFirst(p) \/ CloseFolder(p)
           \/ LookAgain(p) \/ Chmod(p) \/ Probe(p) \/ Unprobe(p) \/ OpenFails(p)

\* Somebody else puts an entry into a folder that others can write to.
Plant ==
  /\ mode = "shared"
  /\ strange' \in {"own", "other"}
  /\ UNCHANGED <<pc, saw, mode, scrap, fileVars>>

-----------------------------------------------------------------------------
(* Dir.WriteFile for tls.key and tls.crt: the rename puts the new file in   *)
(* place and makes it one of those a power cut could leave; the sync of the *)
(* folder after it settles that for every file renamed in it.               *)

RenameKey(k) == key' = k /\ keyKept' = keyKept \cup {k} /\ torn' = torn
RenameCrt(c) == crt' = c /\ crtKept' = crtKept \cup {c}

\* syncDir; a file system that cannot sync a folder says so, and is left alone.
SyncDir == /\ keyKept' = IF SyncsFolders THEN {key} ELSE keyKept
           /\ crtKept' = IF SyncsFolders THEN {crt} ELSE crtKept
           /\ torn' = (torn /\ ~SyncsFolders)

=============================================================================
