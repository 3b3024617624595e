---------------------------- MODULE RequestGate ----------------------------
(* The way of a request through the agent's handlers (server.New): the read *)
(* deadline, the refusal of browsers, the routes, authentication, the lift  *)
(* of the deadline, what a read-only device may do, the cap on the body,    *)
(* and then the proxy or the terminal. One connection with requests one     *)
(* after another; what net/http does with deadlines, bodies and a client    *)
(* that goes away is modelled with it. Who a credential belongs to, and how *)
(* a request ends when its device is removed, is in AgentAccess.            *)
EXTENDS ExecBridge

CONSTANT MaxRequests   \* bound of the requests on the connection
ASSUME MaxRequestsAssumption == MaxRequests \in Nat \ {0}

Routes == {"healthz", "pair", "whoami", "other", "exec", "read", "change", "upload"}

\* other is the rest of /agent/; read is a path that is on the list of package
\* policy as it is written, change and upload are not, and upload has no cap on
\* its body.
Shapes ==
  [route   : Routes,
   get     : BOOLEAN,                       \* the method is GET or HEAD
   plain   : BOOLEAN,                       \* no escape, dot segment, empty segment or backslash
   cred    : {"none", "readonly", "full"},  \* what its credential is worth
   origin  : BOOLEAN,                       \* an Origin header
   body    : {"none", "length", "chunked"}, \* how the body is announced
   large   : BOOLEAN,                       \* the body is larger than maxBody
   upgrade : BOOLEAN]                       \* asks for another protocol

\* Only requests that get as far as the proxy differ in the last two, and only
\* those on the list in what they ask of it.
Requests ==
  {r \in Shapes : /\ r.large => r.body # "none"
                  /\ ~(r.get /\ r.plain) => r.route = "read" /\ ~(r.large \/ r.origin)
                  /\ r.large \/ r.upgrade => r.route \in {"read", "change", "upload"} /\ ~r.origin}

Nothing == [route |-> "healthz", get |-> TRUE, plain |-> TRUE, cred |-> "none", origin |-> FALSE,
            body |-> "none", large |-> FALSE, upgrade |-> FALSE]

VARIABLES
  at,        \* the handler the request has got to
  req,       \* the request, as the handlers have left it
  body,      \* its body: none, coming, here, or cut off
  deadline,  \* the read deadline of the connection: off, set or passed
  capped,    \* whether limitBody has put its reader around the body
  daemon,    \* what the daemon was sent: requests, and bytes nobody looks at (ghost)
  revoked,   \* the registry has ended the request
  count      \* how many requests there were

gateVars == <<at, req, body, deadline, capped, daemon, revoked, count>>
vars == <<bridgeVars, gateVars>>

Places == {"idle", "readDeadline", "rejectBrowsers", "mux", "handlePair", "require",
           "lift", "fullOnly", "roleGate", "limitBody", "proxy", "tunnel", "exec",
           "finish", "closed"}

TypeOK ==
  /\ BridgeTypeOK
  /\ at \in Places /\ req \in Requests
  /\ body \in {"none", "coming", "here", "cut"}
  /\ deadline \in {"off", "set", "passed"}
  /\ capped \in BOOLEAN /\ revoked \in BOOLEAN
  /\ daemon \subseteq Requests \cup {[cred |-> c] : c \in {"none", "readonly", "full"}}
  /\ count \in 0..MaxRequests

Init ==
  /\ BridgeInit
  /\ at = "idle" /\ req = Nothing /\ body = "none" /\ deadline = "off"
  /\ capped = FALSE /\ daemon = {} /\ revoked = FALSE /\ count = 0

\* The handler at "from" passes the request on, or answers it.
Pass(from, to) == at = from /\ at' = to
Answer(from) == Pass(from, "finish")

\* A handler of the chain runs: it is in no terminal and net/http is not at work.
Handling == at \notin {"idle", "finish", "closed", "exec", "tunnel"}

-----------------------------------------------------------------------------
(* The handlers.                                                            *)

\* net/http reads the headers, under a limit of its own, and clears the
\* deadline of the request before.
Arrive(r) ==
  /\ Pass("idle", "readDeadline")
  /\ ~clientGone
  /\ count < MaxRequests /\ count' = count + 1
  /\ req' = r
  /\ body' = IF r.body = "none" THEN "none" ELSE "coming"
  /\ deadline' = "off" /\ capped' = FALSE /\ revoked' = FALSE
  /\ UNCHANGED <<bridgeVars, daemon>>

\* Variants: the deadline also for a request without a body, and only for a
\* body whose length is announced.
ReadDeadlineAlways ==
  /\ Pass("readDeadline", "rejectBrowsers")
  /\ deadline' = "set"
  /\ UNCHANGED <<bridgeVars, req, body, capped, daemon, revoked, count>>

ReadDeadlineByLength ==
  /\ Pass("readDeadline", "rejectBrowsers")
  /\ deadline' = IF req.body = "length" THEN "set" ELSE deadline
  /\ UNCHANGED <<bridgeVars, req, body, capped, daemon, revoked, count>>

\* readDeadline: for every request that announces a body, of whatever length.
ReadDeadline ==
  /\ Pass("readDeadline", "rejectBrowsers")
  /\ deadline' = IF req.body # "none" THEN "set" ELSE deadline
  /\ UNCHANGED <<bridgeVars, req, body, capped, daemon, revoked, count>>

RejectBrowsers ==
  /\ IF req.origin THEN Answer("rejectBrowsers") ELSE Pass("rejectBrowsers", "mux")
  /\ UNCHANGED <<bridgeVars, req, body, deadline, capped, daemon, revoked, count>>

\* ServeMux redirects a path with dot segments or empty ones itself.
Mux ==
  /\ \/ Pass("mux", CASE req.route \in {"healthz", "other"} -> "finish"
                      [] req.route = "pair" -> "handlePair"
                      [] OTHER -> "require")
     \/ ~req.plain /\ Answer("mux")
  /\ UNCHANGED <<bridgeVars, req, body, deadline, capped, daemon, revoked, count>>

\* handlePair reads what the phone sends and answers.
HandlePair ==
  /\ Answer("handlePair")
  /\ body # "coming"
  /\ UNCHANGED <<bridgeVars, req, body, deadline, capped, daemon, revoked, count>>

\* Require, however long it takes: an answer, or the caller's role.
Require ==
  /\ IF req.cred = "none" THEN Answer("require") ELSE Pass("require", "lift")
  /\ UNCHANGED <<bridgeVars, req, body, deadline, capped, daemon, revoked, count>>

LiftReadDeadline ==
  /\ Pass("lift", CASE req.route = "whoami" -> "finish"
                    [] req.route = "exec" -> "fullOnly"
                    [] OTHER -> "roleGate")
  /\ deadline' = "off"
  /\ UNCHANGED <<bridgeVars, req, body, capped, daemon, revoked, count>>

\* The exec handler takes over from here (ExecBridge).
FullOnly ==
  /\ \/ req.cred # "full" /\ Answer("fullOnly") /\ main' = main
     \/ req.cred = "full" /\ Pass("fullOnly", "exec") /\ main' = "check"
  /\ UNCHANGED <<copier, ws, conn, after, peerVars, req, body, deadline, capped, daemon, revoked, count>>

\* dropUpgrade.
Plain(r) == [r EXCEPT !.upgrade = FALSE]

\* What a server further down might read differently is on no list.
AllowedReadOnly(r) == r.get /\ r.plain /\ r.route = "read"

\* Variant: a listed read is passed on as it is.
RoleGateAsItIs ==
  /\ IF req.cred = "full" \/ AllowedReadOnly(req) THEN Pass("roleGate", "limitBody") ELSE Answer("roleGate")
  /\ UNCHANGED <<bridgeVars, req, body, deadline, capped, daemon, revoked, count>>

RoleGate ==
  /\ \/ req.cred = "full" /\ Pass("roleGate", "limitBody") /\ req' = req
     \/ req.cred # "full" /\ AllowedReadOnly(req) /\ Pass("roleGate", "limitBody") /\ req' = Plain(req)
     \/ req.cred # "full" /\ ~AllowedReadOnly(req) /\ Answer("roleGate") /\ req' = req
  /\ UNCHANGED <<bridgeVars, body, deadline, capped, daemon, revoked, count>>

LimitBody ==
  /\ Pass("limitBody", "proxy")
  /\ capped' = (req.route # "upload")
  /\ daemon' = daemon \cup {req}
  /\ UNCHANGED <<bridgeVars, req, body, deadline, revoked, count>>

\* The proxy has sent the request on; it takes the body along as it comes, and
\* is done with the daemon's answer, or with an error of either side. A body
\* over the cap is cut off.
Proxy ==
  /\ Answer("proxy")
  /\ body' \in IF body = "coming" /\ capped /\ req.large THEN {"cut"} ELSE {body}
  /\ UNCHANGED <<bridgeVars, req, deadline, capped, daemon, revoked, count>>

\* An answer with 101: from here on bytes pass that nobody looks at.
Upgraded ==
  /\ Pass("proxy", "tunnel")
  /\ req.upgrade
  /\ daemon' = daemon \cup {[cred |-> req.cred]}
  /\ UNCHANGED <<bridgeVars, req, body, deadline, capped, revoked, count>>

TunnelEnds ==
  /\ Pass("tunnel", "closed")
  /\ UNCHANGED <<bridgeVars, req, body, deadline, capped, daemon, revoked, count>>

ExecEnds ==
  /\ Pass("exec", "closed")
  /\ main = "over"
  /\ UNCHANGED <<bridgeVars, req, body, deadline, capped, daemon, revoked, count>>

-----------------------------------------------------------------------------
(* net/http, the client and the clock (external).                           *)

\* The rest of a body is read before the answer goes out.
Finish ==
  /\ at = "finish"
  /\ \/ body \in {"none", "here"} /\ (ctxEnded => revoked) /\ at' = "idle" /\ ctxEnded' = FALSE
     \/ (body = "cut" \/ ctxEnded) /\ at' = "closed" /\ ctxEnded' = ctxEnded
  /\ UNCHANGED <<main, copier, ws, conn, after, clientGone, daemonGone,
                 req, body, deadline, capped, daemon, revoked, count>>

BodyComes ==
  /\ body = "coming" /\ deadline # "passed" /\ ~clientGone
  /\ at \in {"finish", "handlePair", "proxy"}
  /\ body' = "here"
  /\ UNCHANGED <<bridgeVars, at, req, deadline, capped, daemon, revoked, count>>

\* A read of the body fails: nothing comes any more.
BodyCut ==
  /\ body = "coming" /\ (deadline = "passed" \/ clientGone)
  /\ at \in {"finish", "handlePair", "proxy"}
  /\ body' = "cut"
  /\ UNCHANGED <<bridgeVars, at, req, deadline, capped, daemon, revoked, count>>

DeadlinePasses ==
  /\ deadline = "set"
  /\ deadline' = "passed"
  /\ UNCHANGED <<bridgeVars, at, req, body, capped, daemon, revoked, count>>

\* While a handler runs and nothing of the request is still to come, a read is
\* pending on the connection; when it fails, the connection's context ends.
PendingReadFails ==
  /\ Handling /\ body \in {"none", "here"}
  /\ (deadline = "passed" \/ clientGone)
  /\ ~ctxEnded /\ ctxEnded' = TRUE
  /\ UNCHANGED <<main, copier, ws, conn, after, clientGone, daemonGone, gateVars>>

ClientLeaves ==
  /\ ~clientGone /\ at \notin {"closed", "exec"}
  /\ clientGone' = TRUE
  /\ UNCHANGED <<main, copier, ws, conn, after, ctxEnded, daemonGone, gateVars>>

\* Its device is removed, or the agent stops.
Revoke ==
  /\ at \in {"lift", "fullOnly", "roleGate", "limitBody", "proxy", "tunnel", "exec"}
  /\ ~ctxEnded /\ ctxEnded' = TRUE
  /\ revoked' = TRUE
  /\ UNCHANGED <<main, copier, ws, conn, after, clientGone, daemonGone,
                 at, req, body, deadline, capped, daemon, count>>

-----------------------------------------------------------------------------
Handler == \/ ReadDeadline \/ RejectBrowsers \/ Mux \/ HandlePair \/ Require
           \/ LiftReadDeadline \/ FullOnly \/ RoleGate \/ LimitBody \/ ExecEnds \/ Finish

Next ==
  \/ \E r \in Requests : Arrive(r)
  \/ Handler \/ Proxy \/ Upgraded \/ TunnelEnds
  \/ BodyComes \/ BodyCut \/ DeadlinePasses \/ PendingReadFails \/ ClientLeaves \/ Revoke
  \/ (Exec \/ ClientGoes \/ DaemonGoes) /\ UNCHANGED gateVars

\* The agent goes on, and time passes. Nothing is assumed of the client or the
\* daemon; their reads and writes are PeersAnswer, where a property needs them.
OwnStep == Own /\ UNCHANGED gateVars

Spec == Init /\ [][Next]_vars /\ WF_vars(Handler) /\ WF_vars(OwnStep)
             /\ WF_vars(DeadlinePasses) /\ WF_vars(BodyCut)

-----------------------------------------------------------------------------
(* Properties.                                                              *)

\* What the daemon might take a path for that it may read differently: any.
Meanings(m) == IF m.plain THEN {m.route} ELSE Routes

OnlyReads(m) == m \in Requests /\ m.get /\ ~m.upgrade /\ Meanings(m) = {"read"}

\* The daemon hears from a read-only device the listed reads, with nothing in
\* them that could turn the connection into something else, and from a caller
\* without a credential nothing (roleGate, dropUpgrade, fullOnly, Require).
DaemonHearsOnly ==
  /\ \A m \in daemon : m.cred # "none"
  /\ \A m \in daemon : m.cred = "readonly" => OnlyReads(m)
  /\ main # "off" => req.cred = "full"

\* A credential is worth something on the routes that ask for one.
Known(r) == /\ r.cred # "none" /\ ~r.origin /\ r.plain
            /\ r.route \in {"whoami", "exec", "read", "change", "upload"}

\* The limit that is meant for strangers hits nobody with a credential: however
\* slowly a body comes and however long the credential takes to check, a body
\* is not cut off and a request not ended but for the client, the registry or
\* the cap (readDeadline, liftReadDeadline, limitBody).
OnlyStrangersAreTimed ==
  Known(req) /\ at # "idle" =>
    /\ ctxEnded => clientGone \/ revoked
    /\ body = "cut" => clientGone \/ (req.large /\ req.route # "upload")

\* A request without a credential does not keep its connection: announced and
\* never sent, its body holds it up until the deadline and no longer.
StrangersLetGo ==
  at \notin {"idle", "closed"} /\ req.cred = "none" ~> at \in {"idle", "closed"}

\* The peers take what is written to them, and the daemon answers.
PeersAnswer ==
  /\ WF_vars(WriteConn /\ UNCHANGED gateVars) /\ WF_vars(WriteWs /\ UNCHANGED gateVars)
  /\ WF_vars(Answered /\ UNCHANGED gateVars)

\* A terminal whose context ends is over, with both its connections closed and
\* its copier gone, whatever its peers do; so is one that a peer has left, when
\* the other goes on reading (bridge: "until either side ends").
TerminalsEnd ==
  /\ (ctxEnded /\ at = "exec") ~> Torn
  /\ PeersAnswer => ((clientGone \/ daemonGone) /\ at = "exec" ~> Torn)

-----------------------------------------------------------------------------
(* The inductive invariant.                                                 *)

Early == {"readDeadline", "rejectBrowsers", "mux", "require", "lift"}
Past  == {"lift", "fullOnly", "roleGate", "limitBody", "proxy", "tunnel", "exec"}

\* Who has got past authentication has a credential, past the role gate may send
\* what it sends, and a terminal is a full device's.
PassedInv ==
  /\ at \in Past => req.cred # "none"
  /\ at \in {"limitBody", "proxy", "tunnel"} => req.cred = "full" \/ OnlyReads(req)
  /\ main # "off" => at \in {"exec", "closed"} /\ req.cred = "full"

\* With a credential the deadline is only ever set ahead of the lift, and then
\* for a body that is still to come, so that no read of it is under way.
TimedInv ==
  /\ at = "idle" => ~ctxEnded
  /\ at = "readDeadline" => body = IF req.body = "none" THEN "none" ELSE "coming"
  /\ at # "idle" /\ capped => req.route # "upload"
  /\ at # "idle" /\ Known(req) =>
       /\ at # "handlePair"
       /\ at \in Early => body \in {"none", "coming"}
       /\ deadline # "off" => at \in Early /\ body = "coming"

IInv == TypeOK /\ DaemonHearsOnly /\ OnlyStrangersAreTimed /\ PassedInv /\ TimedInv
=============================================================================
