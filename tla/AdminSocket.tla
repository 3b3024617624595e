---------------------------- MODULE AdminSocket ----------------------------
(* admin.Listen and the Close of the listener it returns: the lock on the   *)
(* state folder and the socket the command line talks to, each step of both *)
(* a system call that agents on the same folder interleave.                 *)
EXTENDS StateDir

VARIABLE lock   \* the agent that holds the lock on agent.lock, or None

\* lockFile: the file is made if it is not there; a lock another holds is an
\* error, and the agent ends.
Lock(p) ==
  /\ At(p, "lock")
  /\ lockFile' = TRUE
  /\ \/ lock = None /\ lock' = p /\ Go(p, "removeStale") /\ saw' = saw
     \/ lock # None /\ lock' = lock /\ Refuse(p)
  /\ UNCHANGED <<folderVars, sock, keyVars, crtVars, list>>

\* checkSocketPath or lockFile fails.
LockFails(p) ==
  /\ At(p, "lock")
  /\ lockFile' \in {lockFile, TRUE}
  /\ Refuse(p)
  /\ UNCHANGED <<folderVars, sock, keyVars, crtVars, list, lock>>

\* listenLocked: what is at the path goes, whoever made it.
RemoveStale(p) ==
  /\ At(p, "removeStale")
  /\ sock' = None
  /\ Go(p, "bind")
  /\ UNCHANGED <<saw, folderVars, lockFile, keyVars, crtVars, list, lock>>

\* net.Listen refuses a path at which there is something.
Bind(p) ==
  /\ At(p, "bind")
  /\ sock = None
  /\ sock' = p
  /\ Go(p, "chmodSock")
  /\ UNCHANGED <<saw, folderVars, lockFile, keyVars, crtVars, list, lock>>

ChmodSock(p) ==
  /\ At(p, "chmodSock")
  /\ Go(p, "load")
  /\ UNCHANGED <<saw, folderVars, fileVars, lock>>

\* Listen gives up: the socket is closed if there is one, then the lock.
ListenFails(p) ==
  /\ \/ pc[p] \in {"removeStale", "bind"} /\ Go(p, "closeLock")
     \/ At(p, "chmodSock") /\ Go(p, "closeSock")
  /\ UNCHANGED <<saw, folderVars, fileVars, lock>>

\* lockedListener.Close: the socket first. Closing it removes whatever is at its path.
CloseSock(p) ==
  /\ At(p, "closeSock")
  /\ sock' = None
  /\ Go(p, "closeLock")
  /\ UNCHANGED <<saw, folderVars, lockFile, keyVars, crtVars, list, lock>>

CloseLock(p) ==
  /\ At(p, "closeLock")
  /\ lock' = None
  /\ Go(p, "exit")
  /\ UNCHANGED <<saw, folderVars, fileVars>>

Listen(p) == Lock(p) \/ LockFails(p) \/ RemoveStale(p) \/ Bind(p) \/ ChmodSock(p) \/ ListenFails(p)

\* Variant: the lock is given up before the socket is removed.
CloseLockFirst(p) ==
  \/ /\ At(p, "closeSock")
     /\ lock' = None
     /\ Go(p, "closeLock")
     /\ UNCHANGED <<saw, folderVars, fileVars>>
  \/ /\ At(p, "closeLock")
     /\ sock' = None
     /\ Go(p, "exit")
     /\ UNCHANGED <<saw, folderVars, lockFile, keyVars, crtVars, list, lock>>

CloseListener(p) == CloseSock(p) \/ CloseLock(p)

=============================================================================
