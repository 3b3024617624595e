----------------------------- MODULE ExecBridge -----------------------------
(* The terminal of internal/exec: the handler that takes over a request's   *)
(* connection, starts the exec at the daemon and copies both ways, with its *)
(* two copy loops, the function that runs when the request's context ends,  *)
(* and the two peers, each of which may stop reading, stop writing or go.   *)
(* Bytes are not told apart: a copy is a read that got something, then the  *)
(* write of it.                                                             *)
EXTENDS Integers

VARIABLES
  main,        \* the handler: where it stands
  copier,      \* the goroutine of bridge
  ws,          \* the WebSocket: none, open or closed on this side
  conn,        \* the connection to the daemon, the same
  after,       \* the function of context.AfterFunc: off, armed, half done, done
  ctxEnded,    \* the request's context has ended
  clientGone,  \* the phone has closed its side, or is lost
  daemonGone   \* the daemon has

bridgeVars == <<main, copier, ws, conn, after, ctxEnded, clientGone, daemonGone>>
peerVars   == <<ctxEnded, clientGone, daemonGone>>

MainPlaces == {"off", "check", "dial", "ask", "refuse", "watch", "read", "write",
               "close", "wait", "leave", "over"}

BridgeTypeOK ==
  /\ main \in MainPlaces
  /\ copier \in {"off", "read", "write", "close", "done"}
  /\ ws \in {"none", "open", "closed"} /\ conn \in {"none", "open", "closed"}
  /\ after \in {"off", "armed", "half", "done"}
  /\ ctxEnded \in BOOLEAN /\ clientGone \in BOOLEAN /\ daemonGone \in BOOLEAN

BridgeInit ==
  /\ main = "off" /\ copier = "off"
  /\ ws = "none" /\ conn = "none" /\ after = "off"
  /\ ctxEnded = FALSE /\ clientGone = FALSE /\ daemonGone = FALSE

\* When a read or a write on either connection fails.
WsFails   == ws = "closed" \/ clientGone
ConnFails == conn = "closed" \/ daemonGone

MainAt(from, to) == main = from /\ main' = to
CopierAt(from, to) == copier = from /\ copier' = to

-----------------------------------------------------------------------------
(* NewHandler and startExecHijack.                                          *)

\* A request that is none for a WebSocket, or names no exec, is answered.
Check ==
  /\ main = "check"
  /\ \/ main' = "over" /\ ws' = ws
     \/ main' = "dial" /\ ws' = "open"
  /\ UNCHANGED <<copier, conn, after, peerVars>>

\* The dial fails when the daemon is not there or the context ends.
Dial ==
  /\ main = "dial"
  /\ \/ main' = "ask" /\ conn' = "open" /\ ~daemonGone
     \/ main' = "refuse" /\ conn' = conn
  /\ UNCHANGED <<copier, ws, after, peerVars>>

\* The daemon answers, or answers something else, or the connection fails. A
\* daemon that says nothing keeps the handler here, until the context ends.
Answered ==
  /\ MainAt("ask", "watch")
  /\ ~ConnFails
  /\ UNCHANGED <<copier, ws, conn, after, peerVars>>

AskFails ==
  /\ MainAt("ask", "refuse")
  /\ conn' = "closed"
  /\ UNCHANGED <<copier, ws, after, peerVars>>

AskEnded ==
  /\ main = "ask" /\ ctxEnded /\ conn = "open"
  /\ conn' = "closed"
  /\ UNCHANGED <<main, copier, ws, after, peerVars>>

\* The close message has a second to go out; the deferred Close follows.
RefuseExec ==
  /\ MainAt("refuse", "over")
  /\ ws' = "closed"
  /\ UNCHANGED <<copier, conn, after, peerVars>>

\* AfterFunc for the bridge, and the copier is started.
Watch ==
  /\ MainAt("watch", "read")
  /\ after' = "armed"
  /\ copier' = "read"
  /\ UNCHANGED <<ws, conn, peerVars>>

\* The function the end of the context runs: first one side, then the other.
AfterWs ==
  /\ after = "armed" /\ ctxEnded
  /\ after' = "half"
  /\ ws' = "closed"
  /\ UNCHANGED <<main, copier, conn, peerVars>>

AfterConn ==
  /\ after = "half"
  /\ after' = "done"
  /\ conn' = "closed"
  /\ UNCHANGED <<main, copier, ws, peerVars>>

-----------------------------------------------------------------------------
(* bridge.                                                                  *)

\* Stdin: a message of the client goes to the daemon.
ReadWs ==
  /\ main = "read"
  /\ \/ main' = "write" /\ ws = "open" /\ ~clientGone
     \/ main' = "close" /\ WsFails
  /\ UNCHANGED <<copier, ws, conn, after, peerVars>>

\* The write goes on while the daemon takes it, and waits while it does not.
WriteConn ==
  /\ MainAt("write", "read")
  /\ ~ConnFails
  /\ UNCHANGED <<copier, ws, conn, after, peerVars>>

WriteConnFails ==
  /\ MainAt("write", "close")
  /\ ConnFails
  /\ UNCHANGED <<copier, ws, conn, after, peerVars>>

\* Variant: the loop ends and leaves the connection to the deferred Close.
CloseConnLater ==
  /\ MainAt("close", "wait")
  /\ UNCHANGED <<copier, ws, conn, after, peerVars>>

CloseConn ==
  /\ MainAt("close", "wait")
  /\ conn' = "closed"
  /\ UNCHANGED <<copier, ws, after, peerVars>>

WaitCopier ==
  /\ MainAt("wait", "leave")
  /\ copier = "done"
  /\ UNCHANGED <<copier, ws, conn, after, peerVars>>

\* The deferred calls: stop, which does not take back a function that has
\* begun, and the two Closes.
Leave ==
  /\ MainAt("leave", "over")
  /\ after' = IF after = "armed" THEN "off" ELSE after
  /\ conn' = "closed" /\ ws' = "closed"
  /\ UNCHANGED <<copier, peerVars>>

\* Stdout: what the daemon says goes to the client.
ReadConn ==
  /\ copier = "read"
  /\ \/ copier' = "write" /\ conn = "open" /\ ~daemonGone
     \/ copier' = "close" /\ ConnFails
  /\ UNCHANGED <<main, ws, conn, after, peerVars>>

WriteWs ==
  /\ CopierAt("write", "read")
  /\ ~WsFails
  /\ UNCHANGED <<main, ws, conn, after, peerVars>>

WriteWsFails ==
  /\ CopierAt("write", "close")
  /\ WsFails
  /\ UNCHANGED <<main, ws, conn, after, peerVars>>

CloseWs ==
  /\ CopierAt("close", "done")
  /\ ws' = "closed"
  /\ UNCHANGED <<main, conn, after, peerVars>>

-----------------------------------------------------------------------------
(* The peers and the registry of open requests.                             *)

ClientGoes ==
  /\ main \notin {"off", "over"} /\ ws = "open" /\ ~clientGone
  /\ clientGone' = TRUE
  /\ UNCHANGED <<main, copier, ws, conn, after, ctxEnded, daemonGone>>

DaemonGoes ==
  /\ conn = "open" /\ ~daemonGone
  /\ daemonGone' = TRUE
  /\ UNCHANGED <<main, copier, ws, conn, after, ctxEnded, clientGone>>

\* What the program does by itself: a read that has nothing to read, a write
\* nobody takes and a daemon's answer are the peers' to end.
ReadWsFails   == ReadWs /\ WsFails
ReadConnFails == ReadConn /\ ConnFails
AskFailsNow   == AskFails /\ ConnFails

Own ==
  \/ Check \/ Dial \/ AskFailsNow \/ AskEnded \/ RefuseExec \/ Watch \/ AfterWs \/ AfterConn
  \/ ReadWsFails \/ WriteConnFails \/ CloseConn \/ WaitCopier \/ Leave
  \/ ReadConnFails \/ WriteWsFails \/ CloseWs

Exec == Own \/ Answered \/ AskFails \/ ReadWs \/ WriteConn \/ ReadConn \/ WriteWs

\* The handler is through, and it has left nothing open and nothing running.
Torn == main \in {"off", "over"} /\ ws # "open" /\ conn # "open" /\ copier \in {"off", "done"}
=============================================================================
