---------------------------- MODULE DeviceStore ----------------------------
(* The list of paired devices: in memory (state.Devices), in devices.json, *)
(* and on the disk. Every operation holds the mutex of Devices while it    *)
(* changes the list and Dir.WriteFile replaces the file, so operations do  *)
(* not interleave with each other. A write can fail before or after the    *)
(* rename, and the process can die, or the power fail, at every point.     *)
EXTENDS Integers, FiniteSets

CONSTANTS
  Ids,            \* the random ids of devices; one can come up again after a removal
  Tokens,         \* the random tokens; each comes up once
  Absent,         \* what a list holds for an id no device has
  LastSeenEvery,  \* lastSeenEvery, in ticks of the clock
  MaxTime,        \* bound of the clock
  SyncsFolders    \* whether the file system can sync a folder (syncDir)

ASSUME LastSeenAssumption == LastSeenEvery \in Nat \ {0}
ASSUME MaxTimeAssumption == MaxTime \in Nat
ASSUME SyncsAssumption == SyncsFolders \in BOOLEAN

Times == 0..MaxTime

\* The last-seen time of an id persisted does not have: the zero time, long ago.
LongAgo == -LastSeenEvery

Device == [token : Tokens, seen : Times]
ASSUME AbsentAssumption == Absent \notin Device \cup Ids

\* A list of devices, by id, with the time each was last seen.
List == [Ids -> Device \cup {Absent}]
Empty == [i \in Ids |-> Absent]
Listed(list) == {i \in Ids : list[i] # Absent}
TokensOf(list) == {list[i].token : i \in Listed(list)}

VARIABLES
  running,     \* whether the agent runs
  byID,        \* Devices.byID
  persisted,   \* Devices.persisted: last-seen times known to be in the file
  file,        \* devices.json as a reader finds it; a missing file is an empty list
  survivors,   \* the versions of the file a power cut could leave behind
  op,          \* the operation that holds the mutex
  opId,        \* the id it is about
  before,      \* what byID held for that id before
  renamed,     \* whether WriteFile is past its rename
  now,         \* the clock
  used,        \* tokens that have been drawn (ghost: none comes up twice)
  handed,      \* tokens Add has returned (ghost)
  removed,     \* tokens whose removal was answered without an error (ghost)
  unsure,      \* tokens of an Add or a Remove that failed, or died, past the rename (ghost)
  failing      \* whether the last write failed (ghost)

memVars   == <<running, byID, persisted>>
fileVars  == <<file, survivors>>
opVars    == <<op, opId, before, renamed>>
ghostVars == <<used, handed, removed, unsure, failing>>
vars == <<memVars, fileVars, opVars, now, ghostVars>>

Ops == {"none", "add", "remove", "seen"}

\* One type invariant for all of the state.
TypeOK ==
  /\ running \in BOOLEAN
  /\ byID \in List
  /\ persisted \in [Ids -> Times \cup {LongAgo}]
  /\ file \in List
  /\ survivors \subseteq List
  /\ file \in survivors
  /\ op \in Ops
  /\ opId \in Ids \cup {Absent}
  /\ (op = "none") <=> (opId = Absent)
  /\ before \in Device \cup {Absent}
  /\ renamed \in BOOLEAN
  /\ now \in Times
  /\ used \subseteq Tokens
  /\ handed \subseteq used
  /\ removed \subseteq used
  /\ unsure \subseteq used
  /\ failing \in BOOLEAN

\* The agent starts for the first time: there is no file.
Init ==
  /\ running = TRUE
  /\ byID = Empty
  /\ persisted = [i \in Ids |-> LongAgo]
  /\ file = Empty /\ survivors = {Empty}
  /\ op = "none" /\ opId = Absent /\ before = Absent /\ renamed = FALSE
  /\ now = 0
  /\ used = {} /\ handed = {} /\ removed = {} /\ unsure = {} /\ failing = FALSE

---------------------------------------------------------------------------
(* The operations, up to the write.                                        *)

Begin(what, i, list) ==
  /\ running /\ op = "none"
  /\ byID' = list
  /\ op' = what /\ opId' = i /\ before' = byID[i] /\ renamed' = FALSE
  /\ UNCHANGED <<running, persisted, fileVars, now, handed, removed, unsure, failing>>

\* Add draws an id that no device has, and a token.
Add(i, t) ==
  /\ byID[i] = Absent /\ t \notin used
  /\ used' = used \cup {t}
  /\ Begin("add", i, [byID EXCEPT ![i] = [token |-> t, seen |-> now]])

\* Remove takes the device out of the list before it saves.
Remove(i) ==
  /\ byID[i] # Absent
  /\ Begin("remove", i, [byID EXCEPT ![i] = Absent])
  /\ UNCHANGED used

SeenNow(i) == [byID EXCEPT ![i].seen = now]

\* Mutant: the write is due one tick late.
WriteDueLate(i) == now - persisted[i] > LastSeenEvery

WriteDue(i) == now - persisted[i] >= LastSeenEvery

\* Authenticate, when the last-seen time need not be written yet.
Authenticate(i) ==
  /\ running /\ op = "none"
  /\ byID[i] # Absent /\ ~WriteDue(i)
  /\ byID' = SeenNow(i)
  /\ UNCHANGED <<running, persisted, fileVars, opVars, now, ghostVars>>

\* Authenticate, when it is time to write it.
AuthenticateAndSave(i) ==
  /\ byID[i] # Absent /\ WriteDue(i)
  /\ Begin("seen", i, SeenNow(i))
  /\ UNCHANGED used

---------------------------------------------------------------------------
(* saveLocked and Dir.WriteFile.                                           *)

\* The operation is over.
Unlock ==
  /\ op' = "none" /\ opId' = Absent /\ before' = Absent /\ renamed' = FALSE

\* What each operation does about a write that failed: Add and Remove undo
\* their change, and a last-seen time is best effort.
RollBack ==
  /\ byID' = IF op = "seen" THEN byID ELSE [byID EXCEPT ![opId] = before]
  /\ Unlock
  /\ failing' = TRUE
  /\ UNCHANGED <<running, persisted>>

\* The token an Add or a Remove is about.
OpTokens ==
  CASE op = "add" -> {byID[opId].token}
    [] op = "remove" -> {before.token}
    [] OTHER -> {}

\* The temporary file cannot be made, written, synced, closed or renamed: it
\* is removed and the old file stays.
WriteFails ==
  /\ op # "none" /\ ~renamed
  /\ RollBack
  /\ UNCHANGED <<fileVars, now, used, handed, removed, unsure>>

\* The rename: from now on every reader finds the new list, and a power cut
\* can leave either.
Rename ==
  /\ op # "none" /\ ~renamed
  /\ renamed' = TRUE
  /\ file' = byID
  /\ survivors' = survivors \cup {byID}
  /\ UNCHANGED <<memVars, op, opId, before, now, ghostVars>>

\* syncDir fails: "replaced, but not known to be durable".
SyncFails ==
  /\ op # "none" /\ renamed
  /\ RollBack
  /\ unsure' = unsure \cup OpTokens
  /\ UNCHANGED <<fileVars, now, used, handed, removed>>

\* saveLocked notes what is in the file now; Remove forgets the id. The
\* operation returns without an error.
Succeed ==
  /\ persisted' = [i \in Ids |-> IF i \in Listed(byID) THEN byID[i].seen
                                 ELSE IF op = "remove" /\ i = opId THEN LongAgo ELSE persisted[i]]
  /\ handed' = IF op = "add" THEN handed \cup OpTokens ELSE handed
  /\ removed' = IF op = "remove" THEN removed \cup OpTokens ELSE removed
  /\ unsure' = unsure \ removed'
  /\ Unlock
  /\ failing' = FALSE
  /\ UNCHANGED <<running, byID, file, now, used>>

\* Mutant: the folder is not synced.
DoneUnsynced ==
  /\ op # "none" /\ renamed
  /\ Succeed
  /\ UNCHANGED survivors

\* syncDir succeeds, or the file system cannot sync a folder and is left alone.
Done ==
  /\ op # "none" /\ renamed
  /\ survivors' = IF SyncsFolders THEN {file} ELSE survivors
  /\ Succeed

---------------------------------------------------------------------------
(* The process and the machine.                                            *)

\* The process dies. Its memory is gone; what it renamed stays.
Die ==
  /\ running' = FALSE
  /\ unsure' = IF renamed THEN unsure \cup OpTokens ELSE unsure
  /\ Unlock
  /\ byID' = Empty
  /\ persisted' = [i \in Ids |-> LongAgo]
  /\ UNCHANGED <<now, used, handed, removed, failing>>

Crash == running /\ Die /\ UNCHANGED fileVars

\* The power fails, while the agent runs or not: the file is one of those
\* that could survive.
PowerCut ==
  /\ Die
  /\ file' \in survivors
  /\ survivors' = {file'}

\* LoadDevices.
Load ==
  /\ ~running
  /\ running' = TRUE
  /\ byID' = file
  /\ persisted' = [i \in Ids |-> IF file[i] = Absent THEN LongAgo ELSE file[i].seen]
  /\ failing' = FALSE
  /\ UNCHANGED <<fileVars, opVars, now, used, handed, removed, unsure>>

Tick ==
  /\ now < MaxTime
  /\ now' = now + 1
  /\ UNCHANGED <<memVars, fileVars, opVars, ghostVars>>

Next ==
  \/ \E i \in Ids :
       \/ \E t \in Tokens : Add(i, t)
       \/ Remove(i) \/ Authenticate(i) \/ AuthenticateAndSave(i)
  \/ WriteFails \/ Rename \/ SyncFails \/ Done
  \/ Crash \/ PowerCut \/ Load \/ Tick

Spec == Init /\ [][Next]_vars

---------------------------------------------------------------------------
(* What the operations promise.                                            *)

\* A list agrees with what the callers of Add and Remove were told, for every
\* token whose operations are over and did not fail past the rename (Remove:
\* "whether the file on disk still lists it is not known").
AsAnswered(list) ==
  \A t \in used \ (unsure \cup OpTokens) :
    t \in TokensOf(list) <=> t \in handed \ removed

\* A device whose pairing was confirmed stays paired, and one whose removal was
\* confirmed stays removed: in the running agent, in the file, and in whatever
\* a power cut leaves, however many writes fail before and after.
AnswersAreKept ==
  SyncsFolders =>
    /\ running => AsAnswered(byID)
    /\ \A list \in survivors : AsAnswered(list)

\* As long as writes succeed the file lists the devices that are paired, and
\* their last-seen times there are less than lastSeenEvery behind.
FileKeepsUp ==
  running /\ op = "none" /\ ~failing =>
    \A i \in Ids :
      /\ i \in Listed(byID) <=> i \in Listed(file)
      /\ i \in Listed(byID) => /\ byID[i].token = file[i].token
                               /\ byID[i].seen - file[i].seen < LastSeenEvery

---------------------------------------------------------------------------
(* The inductive invariant.                                                *)

\* No two devices share a token.
Distinct(list) ==
  \A i, j \in Listed(list) : list[i].token = list[j].token => i = j

\* An operation is about a device as it is in memory, or was before it.
OpInv ==
  /\ renamed => op # "none" /\ file = byID
  /\ op # "none" => running
  /\ op = "add" => /\ byID[opId] # Absent /\ before = Absent
                   /\ byID[opId].token \notin handed \cup removed \cup unsure
  /\ op = "remove" => /\ byID[opId] = Absent /\ before # Absent
                      /\ before.token \notin TokensOf(byID)

\* Every list holds tokens that were drawn, each at most once.
ListInv ==
  /\ \A list \in survivors \cup {byID} : Distinct(list) /\ TokensOf(list) \subseteq used
  /\ op = "remove" => before.token \in used
  /\ ~running => byID = Empty

\* Until the rename the lists on the disk are right about the token of the
\* operation, too: it may still be undone.
KeptInv ==
  /\ running => AsAnswered(byID)
  /\ \A list \in survivors : \A t \in used \ (unsure \cup IF renamed THEN OpTokens ELSE {}) :
       t \in TokensOf(list) <=> t \in handed \ removed
  /\ op = "remove" => before.token \in (handed \cup unsure) \ removed
  /\ removed \cap unsure = {}

\* What the list held for an id before the operation that is still to write it.
Settled(i) == IF op # "none" /\ ~renamed /\ i = opId THEN before ELSE byID[i]

\* The file keeps up with what is settled, and persisted with the file.
FileInv ==
  running /\ ~failing =>
    \A i \in Ids :
      /\ Settled(i) = Absent <=> file[i] = Absent
      /\ file[i] # Absent => /\ Settled(i).token = file[i].token
                             /\ Settled(i).seen - file[i].seen < LastSeenEvery
                             /\ ~renamed => persisted[i] = file[i].seen

IInv == TypeOK /\ OpInv /\ ListInv /\ FileInv /\ (SyncsFolders => KeptInv)
=============================================================================
