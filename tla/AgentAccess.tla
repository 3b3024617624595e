---------------------------- MODULE AgentAccess ----------------------------
(* Who may have a request served by the agent, and for how long.           *)
(*                                                                         *)
(* The handler goroutines of auth.Authenticator.Require, the revocations   *)
(* that arrive on the admin socket (admin.Server.handleRevoke), and the    *)
(* shutdown in serve() meet in two shared objects, each behind a mutex of  *)
(* its own: the list of paired devices (state.Devices) and the registry of *)
(* open requests (conns.Registry). One action is one critical section or   *)
(* one look at a context. Everything that can happen between two of them   *)
(* does.                                                                   *)
EXTENDS Naturals, FiniteSets

CONSTANTS
  Requests,          \* one element per request a client ever sends
  Deaf,              \* those whose client may stop reading and keep its connection
  Devices,           \* one element per pairing: a fresh id with a fresh token
  Addresses,         \* the keys throttle.Key makes of source addresses
  Revokes,           \* one element per DELETE /devices/{id} on the admin socket
  LegacyToken,       \* the shared token from the environment
  WrongToken,        \* a bearer value that is nobody's
  NoToken,           \* no bearer value at all
  LegacyConfigured,  \* whether Authenticator.Legacy is set
  Threshold,         \* failures after which an address is blocked
  Nobody             \* the target of a revocation that has not been sent

ASSUME CredentialsAssumption ==
  /\ {LegacyToken, WrongToken, NoToken, Nobody} \cap Devices = {}
  /\ LegacyToken \notin {WrongToken, NoToken}
  /\ WrongToken # NoToken
ASSUME LegacyAssumption == LegacyConfigured \in BOOLEAN
ASSUME ThresholdAssumption == Threshold \in Nat \ {0}

Credentials == Devices \cup {LegacyToken, WrongToken, NoToken}

VARIABLES
  paired,      \* state.Devices.byID: the devices that are paired now
  issued,      \* the pairings there have ever been (ghost: ids and tokens are fresh)
  open,        \* conns.Registry.open: the tracked requests
  closed,      \* conns.Registry.closed
  pc,          \* where the handler of each request is
  cred,        \* the Authorization header of each request
  addr,        \* the source address of each request
  gone,        \* requests whose own context (parent) has ended
  ended,       \* requests whose tracked context has ended
  marked,      \* serve's local variable endedByRegistry
  answer,      \* what each request has been answered
  rpc,         \* where the handler of each revocation is
  target,      \* the device a revocation names
  toCancel,    \* the set CloseDevice took and has not cancelled yet
  stop,        \* how far serve() is in stopping
  stopCancel,  \* the set CloseAll took and has not cancelled yet
  failed,      \* throttle.Limiter: counted failures of each address
  blocked      \* throttle.Limiter: the addresses that are blocked

reqVars   == <<pc, cred, addr, gone, ended, marked, answer>>
revVars   == <<rpc, target, toCancel>>
regVars   == <<open, closed>>
devVars   == <<paired, issued>>
stopVars  == <<stop, stopCancel>>
limitVars == <<failed, blocked>>
vars == <<reqVars, revVars, regVars, devVars, stopVars, limitVars>>

\* The steps of a request while it is between Track and release.
TrackedAt == {"readTracked", "readParent", "relookup", "dispatch", "serving", "release"}
ReqPCs == {"idle", "lookup", "limiter", "fail", "track", "done"} \cup TrackedAt
Answers == {"none", "served", "401", "429", "503"}
RevPCs == {"idle", "close", "cancel", "revoked", "notFound", "failed"}
StopPCs == {"running", "grace", "closing", "closed"}

\* One type invariant for all of the state.
TypeOK ==
  /\ paired \subseteq issued
  /\ issued \subseteq Devices
  /\ open \subseteq Requests
  /\ closed \in BOOLEAN
  /\ pc \in [Requests -> ReqPCs]
  /\ cred \in [Requests -> Credentials]
  /\ addr \in [Requests -> Addresses]
  /\ gone \subseteq Requests
  /\ ended \subseteq Requests
  /\ marked \subseteq Requests
  /\ answer \in [Requests -> Answers]
  /\ rpc \in [Revokes -> RevPCs]
  /\ target \in [Revokes -> Devices \cup {Nobody}]
  /\ toCancel \in [Revokes -> SUBSET Requests]
  /\ stop \in StopPCs
  /\ stopCancel \subseteq Requests
  /\ failed \in [Addresses -> 0..Threshold]
  /\ blocked \subseteq Addresses

Init ==
  /\ paired = {} /\ issued = {}
  /\ open = {} /\ closed = FALSE
  /\ pc = [r \in Requests |-> "idle"]
  /\ cred = [r \in Requests |-> NoToken]
  /\ addr \in [Requests -> Addresses]
  /\ gone = {} /\ ended = {} /\ marked = {}
  /\ answer = [r \in Requests |-> "none"]
  /\ rpc = [v \in Revokes |-> "idle"]
  /\ target = [v \in Revokes |-> Nobody]
  /\ toCancel = [v \in Revokes |-> {}]
  /\ stop = "running" /\ stopCancel = {}
  /\ failed = [a \in Addresses |-> 0]
  /\ blocked = {}

---------------------------------------------------------------------------
(* The request handler: Authenticator.Require and serve.                   *)

Goto(r, step) == pc' = [pc EXCEPT ![r] = step]
Answer(r, what) == answer' = [answer EXCEPT ![r] = what]

\* A client sends a request. A token can be sent once its pairing exists;
\* connections are accepted until srv.Close.
Arrive(r, c) ==
  /\ pc[r] = "idle" /\ stop # "closed"
  /\ c \in Devices => c \in issued
  /\ cred' = [cred EXCEPT ![r] = c]
  /\ Goto(r, IF c \in Devices THEN "lookup" ELSE "limiter")
  /\ UNCHANGED <<addr, gone, ended, marked, answer, revVars, regVars, devVars, stopVars, limitVars>>

\* Mutant: a blocked address is refused before its token is looked up.
LookupLimited(r) ==
  /\ pc[r] = "lookup"
  /\ Goto(r, IF cred[r] \in paired /\ addr[r] \notin blocked THEN "track" ELSE "limiter")
  /\ UNCHANGED <<cred, addr, gone, ended, marked, answer, revVars, regVars, devVars, stopVars, limitVars>>

\* The first Authenticate of a device token. It is made before anything is
\* asked of the limiter.
Lookup(r) ==
  /\ pc[r] = "lookup"
  /\ Goto(r, IF cred[r] \in paired THEN "track" ELSE "limiter")
  /\ UNCHANGED <<cred, addr, gone, ended, marked, answer, revVars, regVars, devVars, stopVars, limitVars>>

\* Mutant: Track does not look whether the registry is closed.
TrackUnchecked(r) ==
  /\ pc[r] = "track"
  /\ open' = open \cup {r}
  /\ ended' = IF r \in gone THEN ended \cup {r} ELSE ended
  /\ Goto(r, "readTracked")
  /\ UNCHANGED <<cred, addr, gone, marked, answer, revVars, closed, devVars, stopVars, limitVars>>

\* Registry.Track: a closed registry hands out a context that is over.
Track(r) ==
  /\ pc[r] = "track"
  /\ open' = IF closed THEN open ELSE open \cup {r}
  /\ ended' = IF closed \/ r \in gone THEN ended \cup {r} ELSE ended
  /\ Goto(r, "readTracked")
  /\ UNCHANGED <<cred, addr, gone, marked, answer, revVars, closed, devVars, stopVars, limitVars>>

\* endedByRegistry = tracked.Err() != nil && ... : the left operand.
ReadTracked(r) ==
  /\ pc[r] = "readTracked"
  /\ Goto(r, IF r \in ended THEN "readParent" ELSE "relookup")
  /\ UNCHANGED <<cred, addr, gone, ended, marked, answer, revVars, regVars, devVars, stopVars, limitVars>>

\* ... && parent.Err() == nil: the right operand, read later.
ReadParent(r) ==
  /\ pc[r] = "readParent"
  /\ marked' = IF r \in gone THEN marked ELSE marked \cup {r}
  /\ Goto(r, "relookup")
  /\ UNCHANGED <<cred, addr, gone, ended, answer, revVars, regVars, devVars, stopVars, limitVars>>

\* Mutant: no second lookup.
RelookupSkipped(r) ==
  /\ pc[r] = "relookup"
  /\ Goto(r, "dispatch")
  /\ UNCHANGED <<cred, addr, gone, ended, marked, answer, revVars, regVars, devVars, stopVars, limitVars>>

\* The second Authenticate, now that the request is tracked. The shared
\* token has none. A device that is gone has serve return false.
Relookup(r) ==
  /\ pc[r] = "relookup"
  /\ Goto(r, IF cred[r] \in Devices \ paired THEN "release" ELSE "dispatch")
  /\ UNCHANGED <<cred, addr, gone, ended, marked, answer, revVars, regVars, devVars, stopVars, limitVars>>

\* Mutant: the context is looked at only now, after the second lookup.
DispatchOnContext(r) ==
  /\ pc[r] = "dispatch"
  /\ IF r \in ended
       THEN Answer(r, "503") /\ Goto(r, "release")
       ELSE Answer(r, "served") /\ Goto(r, "serving")
  /\ UNCHANGED <<cred, addr, gone, ended, marked, revVars, regVars, devVars, stopVars, limitVars>>

\* 503 for what the registry had ended, or the handler behind.
Dispatch(r) ==
  /\ pc[r] = "dispatch"
  /\ IF r \in marked
       THEN Answer(r, "503") /\ Goto(r, "release")
       ELSE Answer(r, "served") /\ Goto(r, "serving")
  /\ UNCHANGED <<cred, addr, gone, ended, marked, revVars, regVars, devVars, stopVars, limitVars>>

\* next.ServeHTTP returns.
Finish(r) ==
  /\ pc[r] = "serving"
  /\ Goto(r, "release")
  /\ UNCHANGED <<cred, addr, gone, ended, marked, answer, revVars, regVars, devVars, stopVars, limitVars>>

\* Mutant: release is not deferred, and the early return forgets it.
ReleaseServedOnly(r) ==
  /\ pc[r] = "release"
  /\ open' = IF answer[r] = "none" THEN open ELSE open \ {r}
  /\ ended' = ended \cup {r}
  /\ Goto(r, IF answer[r] = "none" THEN "limiter" ELSE "done")
  /\ UNCHANGED <<cred, addr, gone, marked, answer, revVars, closed, devVars, stopVars, limitVars>>

\* The deferred release. A request serve refused goes on in Require.
Release(r) ==
  /\ pc[r] = "release"
  /\ open' = open \ {r}
  /\ ended' = ended \cup {r}
  /\ Goto(r, IF answer[r] = "none" THEN "limiter" ELSE "done")
  /\ UNCHANGED <<cred, addr, gone, marked, answer, revVars, closed, devVars, stopVars, limitVars>>

\* Limiter.Blocked, then the comparison with the shared token.
CheckLimit(r) ==
  /\ pc[r] = "limiter"
  /\ IF addr[r] \in blocked
       THEN Answer(r, "429") /\ Goto(r, "done")
       ELSE /\ Goto(r, IF LegacyConfigured /\ cred[r] = LegacyToken THEN "track" ELSE "fail")
            /\ UNCHANGED answer
  /\ UNCHANGED <<cred, addr, gone, ended, marked, revVars, regVars, devVars, stopVars, limitVars>>

\* Limiter.Fail for a bearer token, and 401.
CountFailure(r) ==
  /\ pc[r] = "fail"
  /\ IF cred[r] = NoToken
       THEN UNCHANGED limitVars
       ELSE LET n == IF failed[addr[r]] < Threshold THEN failed[addr[r]] + 1 ELSE Threshold
            IN  /\ failed' = [failed EXCEPT ![addr[r]] = n]
                /\ blocked' = IF n = Threshold THEN blocked \cup {addr[r]} ELSE blocked
  /\ Answer(r, "401")
  /\ Goto(r, "done")
  /\ UNCHANGED <<cred, addr, gone, ended, marked, revVars, regVars, devVars, stopVars>>

\* The client of a request goes away: the request's own context ends, and the
\* tracked one after it.
ClientLeaves(r) ==
  /\ pc[r] \notin {"idle", "done"} /\ r \notin gone
  /\ gone' = gone \cup {r}
  /\ UNCHANGED <<pc, cred, addr, ended, marked, answer, revVars, regVars, devVars, stopVars, limitVars>>

EndPropagates(r) ==
  /\ pc[r] \in TrackedAt /\ r \in gone /\ r \notin ended
  /\ ended' = ended \cup {r}
  /\ UNCHANGED <<pc, cred, addr, gone, marked, answer, revVars, regVars, devVars, stopVars, limitVars>>

\* Time passes for the limiter: a block ends, or failures leave the window.
BlockEnds(a) ==
  /\ a \in blocked
  /\ blocked' = blocked \ {a}
  /\ UNCHANGED <<reqVars, revVars, regVars, devVars, stopVars, failed>>

FailuresForgotten(a) ==
  /\ failed[a] > 0
  /\ failed' = [failed EXCEPT ![a] = 0]
  /\ UNCHANGED <<reqVars, revVars, regVars, devVars, stopVars, blocked>>

---------------------------------------------------------------------------
(* The list of devices, as pairing and revoking change it.                 *)

\* Devices.Add stored a device: its id and its token are new.
Pair(d) ==
  /\ d \notin issued
  /\ paired' = paired \cup {d}
  /\ issued' = issued \cup {d}
  /\ UNCHANGED <<reqVars, revVars, regVars, stopVars, limitVars>>

RevokeGoto(v, step) == rpc' = [rpc EXCEPT ![v] = step]

\* Devices.Remove finds no device with that id: 404.
RemoveNotFound(v, d) ==
  /\ rpc[v] = "idle" /\ d \notin paired
  /\ target' = [target EXCEPT ![v] = d]
  /\ RevokeGoto(v, "notFound")
  /\ UNCHANGED <<reqVars, toCancel, regVars, devVars, stopVars, limitVars>>

\* Devices.Remove cannot store the list and puts the device back: 500, and
\* none of the device's requests is closed.
RemoveFails(v, d) ==
  /\ rpc[v] = "idle" /\ d \in paired
  /\ target' = [target EXCEPT ![v] = d]
  /\ RevokeGoto(v, "failed")
  /\ UNCHANGED <<reqVars, toCancel, regVars, devVars, stopVars, limitVars>>

\* Devices.Remove removes the device. CloseDevice comes next.
Remove(v, d) ==
  /\ rpc[v] = "idle" /\ d \in paired
  /\ paired' = paired \ {d}
  /\ target' = [target EXCEPT ![v] = d]
  /\ RevokeGoto(v, "close")
  /\ UNCHANGED <<reqVars, toCancel, regVars, issued, stopVars, limitVars>>

\* Mutant: CloseDevice takes the requests of every device.
CloseDeviceTakeAll(v) ==
  /\ rpc[v] = "close"
  /\ toCancel' = [toCancel EXCEPT ![v] = open]
  /\ open' = {}
  /\ RevokeGoto(v, "cancel")
  /\ UNCHANGED <<reqVars, target, closed, devVars, stopVars, limitVars>>

\* CloseDevice under the lock: the device's set leaves the map.
CloseDeviceTake(v) ==
  /\ rpc[v] = "close"
  /\ LET set == {r \in open : cred[r] = target[v]}
     IN  /\ toCancel' = [toCancel EXCEPT ![v] = set]
         /\ open' = open \ set
  /\ RevokeGoto(v, "cancel")
  /\ UNCHANGED <<reqVars, target, closed, devVars, stopVars, limitVars>>

\* CloseDevice after the unlock: one cancel after the other, in any order.
CloseDeviceCancel(v) ==
  /\ rpc[v] = "cancel"
  /\ \E r \in toCancel[v] :
       /\ ended' = ended \cup {r}
       /\ toCancel' = [toCancel EXCEPT ![v] = @ \ {r}]
  /\ UNCHANGED <<pc, cred, addr, gone, marked, answer, rpc, target, regVars, devVars, stopVars, limitVars>>

\* CloseDevice returns and the revocation is answered with 200.
AnswerRevoke(v) ==
  /\ rpc[v] = "cancel" /\ toCancel[v] = {}
  /\ RevokeGoto(v, "revoked")
  /\ UNCHANGED <<reqVars, target, toCancel, regVars, devVars, stopVars, limitVars>>

---------------------------------------------------------------------------
(* serve() stops the agent.                                                *)

\* srv.Shutdown begins to wait for the requests that are being served.
BeginStop ==
  /\ stop = "running"
  /\ stop' = "grace"
  /\ UNCHANGED <<reqVars, revVars, regVars, devVars, stopCancel, limitVars>>


\* Shutdown returned, early or when the grace was over: CloseAll takes every
\* set and closes the registry.
CloseAllTake ==
  /\ stop = "grace"
  /\ stop' = "closing"
  /\ stopCancel' = open
  /\ open' = {}
  /\ closed' = TRUE
  /\ UNCHANGED <<reqVars, revVars, devVars, limitVars>>

CloseAllCancel ==
  /\ stop = "closing"
  /\ \E r \in stopCancel :
       /\ ended' = ended \cup {r}
       /\ stopCancel' = stopCancel \ {r}
  /\ UNCHANGED <<pc, cred, addr, gone, marked, answer, revVars, regVars, devVars, stop, limitVars>>

\* CloseAll has returned; srv.Close.
CloseServer ==
  /\ stop = "closing" /\ stopCancel = {}
  /\ stop' = "closed"
  /\ UNCHANGED <<reqVars, revVars, regVars, devVars, stopCancel, limitVars>>

---------------------------------------------------------------------------

\* What the goroutine that handles r does next.
RequestStep(r) ==
  \/ Lookup(r) \/ Track(r) \/ ReadTracked(r) \/ ReadParent(r) \/ Relookup(r)
  \/ Dispatch(r) \/ Release(r) \/ CheckLimit(r) \/ CountFailure(r)

RevokeStep(v) == CloseDeviceTake(v) \/ CloseDeviceCancel(v) \/ AnswerRevoke(v)

StopStep == CloseAllTake \/ CloseAllCancel \/ CloseServer

Next ==
  \/ \E r \in Requests :
       \/ \E c \in Credentials : Arrive(r, c)
       \/ RequestStep(r)
       \/ Finish(r) \/ ClientLeaves(r) \/ EndPropagates(r)
  \/ \E a \in Addresses : BlockEnds(a) \/ FailuresForgotten(a)
  \/ \E d \in Devices : Pair(d)
  \/ \E v \in Revokes :
       \/ \E d \in Devices : RemoveNotFound(v, d) \/ RemoveFails(v, d) \/ Remove(v, d)
       \/ RevokeStep(v)
  \/ BeginStop
  \/ StopStep

Spec == Init /\ [][Next]_vars

(* Goroutines that can run are scheduled. What is behind Require may take  *)
(* for ever while its context lives, and also after that: the end of the   *)
(* context stops its reading from the daemon, not a write that waits for a *)
(* client to read, for no write has a deadline. Clients that are not Deaf  *)
(* read; srv.Close closes the connections of all, and such a write fails.  *)
(* Nobody has to send, pair, revoke, leave or stop anything.               *)
Fairness ==
  /\ \A r \in Requests : /\ WF_vars(RequestStep(r))
                         /\ WF_vars(r \in ended /\ (r \notin Deaf \/ stop = "closed") /\ Finish(r))
                         /\ WF_vars(EndPropagates(r))
  /\ \A v \in Revokes : WF_vars(RevokeStep(v))
  /\ WF_vars(StopStep)

FairSpec == Spec /\ Fairness

---------------------------------------------------------------------------
(* Safety.                                                                 *)

\* Once a revocation has been answered with 200, no request that came with the
\* removed device's token is served on a live context (conns.go, CloseDevice:
\* "A request is then either ended here or fails that check"). The exception
\* is the moment in which CloseAll holds the request and is about to end it:
\* CloseDevice found the map empty then.
RevokedIsCutOff ==
  \A v \in Revokes, r \in Requests :
    (rpc[v] = "revoked" /\ cred[r] = target[v] /\ pc[r] = "serving")
      => r \in ended \cup stopCancel

\* A tracked context ends only because the client left, its own device was
\* removed, or the agent is stopping: a removal that failed ends nothing, and
\* one that succeeded ends the requests of no other device.
EndedForCause ==
  \A r \in ended : pc[r] \in TrackedAt
    => r \in gone \/ closed \/ cred[r] \in Devices \ paired

\* Nobody is told that the agent is shutting down while it is not: neither a
\* device that was removed under the request nor a client that left (serve).
ShutdownToldTruly ==
  \A r \in Requests : answer[r] = "503" => closed

\* The failures of others behind the same address never lock a paired device
\* out, and a request of a device that stays paired is never refused (Require).
PairedNotLockedOut ==
  \A r \in Requests : answer[r] \in {"401", "429"} => cred[r] \notin paired

\* The registry remembers no request that is over (Track's release), also when
\* serve refuses it, and once it is closed it remembers none at all.
NothingLeaks ==
  /\ \A r \in open : pc[r] \in TrackedAt
  /\ closed => open = {}

\* When CloseAll has returned, everything that is still served has been ended,
\* or a revocation that took it first is about to end it.
StopEndsEverything ==
  stop = "closed" =>
    \A r \in Requests : pc[r] = "serving"
      => r \in ended \/ \E v \in Revokes : r \in toCancel[v]

---------------------------------------------------------------------------
(* What it is to the devices and to whoever removes them.                  *)

Standing(d) ==
  IF d \notin issued THEN "none"
  ELSE IF d \in paired THEN "paired"
  ELSE IF \E v \in Revokes : rpc[v] = "revoked" /\ target[v] = d THEN "gone" ELSE "removed"

\* A request that CloseAll has taken is as good as ended.
Phase(r) ==
  IF pc[r] = "idle" THEN "new"
  ELSE IF pc[r] = "serving" THEN IF r \in ended \cup stopCancel THEN "cut" ELSE "live"
  ELSE CASE answer[r] = "none" -> "waiting"
         [] answer[r] = "served" -> "done"
         [] answer[r] = "503" -> "unavailable"
         [] answer[r] \in {"401", "429"} -> "refused"

Accepted == Devices \cup IF LegacyConfigured THEN {LegacyToken} ELSE {}

Access == INSTANCE AccessControl WITH
  Shared <- Accepted \ Devices, standing <- [d \in Devices |-> Standing(d)], owner <- cred,
  phase <- [r \in Requests |-> Phase(r)], left <- gone, stopped <- closed

\* All of this is access control: a request is served to a device that is
\* paired or with the shared token; a removal that was confirmed is the end of
\* its device, and one that failed ends nothing; nobody else is ended, refused
\* or told of a shutdown.
IsAccessControl == Access!Spec

---------------------------------------------------------------------------
(* The inductive invariant behind the safety properties.                   *)

\* The request has been through Track, or is being refused after that.
BeenTracked(r) ==
  \/ pc[r] \in TrackedAt \cup {"done"}
  \/ pc[r] \in {"limiter", "fail"} /\ cred[r] \in Devices

\* A device that was removed: its token is accepted nowhere any more.
Removed(r) == cred[r] \in Devices \ paired

Removing(v) == rpc[v] \in {"close", "cancel", "revoked"}

\* A request has its token from a pairing, and keeps it.
CredentialInv ==
  \A r \in Requests :
    /\ cred[r] \in Devices => cred[r] \in issued
    /\ pc[r] = "idle" => cred[r] = NoToken /\ answer[r] = "none"

\* Whatever is tracked can still be reached by a cancel, or has been.
ReachInv ==
  /\ \A r \in Requests : pc[r] \in TrackedAt
       => r \in ended \cup open \cup stopCancel \/ \E v \in Revokes : r \in toCancel[v]
  /\ \A r \in open : pc[r] \in TrackedAt
  /\ \A r \in ended \cup stopCancel : BeenTracked(r)
  /\ \A v \in Revokes : \A r \in toCancel[v] :
       BeenTracked(r) /\ rpc[v] = "cancel" /\ cred[r] = target[v]

\* A device is removed once, by one revocation, for good.
RemovalInv ==
  /\ \A v \in Revokes : Removing(v) => target[v] \in issued \ paired
  /\ \A v, w \in Revokes : Removing(v) /\ Removing(w) /\ target[v] = target[w] => v = w

\* The second lookup: a request that got past it and whose device is gone is
\* still tracked only as long as the CloseDevice of that removal is to come.
SecondLookupInv ==
  \A r \in open : pc[r] \in {"dispatch", "serving"} /\ Removed(r)
    => \E v \in Revokes : rpc[v] = "close" /\ target[v] = cred[r]

\* What serve knows when it answers 503, and why a request is refused.
AnswerInv ==
  \A r \in Requests :
    /\ pc[r] = "readParent" => r \in ended
    /\ r \in marked => closed \/ Removed(r)
    /\ r \in marked /\ pc[r] = "dispatch" => closed
    /\ pc[r] = "serving" => answer[r] = "served"
    /\ pc[r] = "release" /\ answer[r] = "none" => Removed(r)
    /\ pc[r] \in {"limiter", "fail"} => cred[r] \notin paired
    /\ pc[r] \in {"track"} \cup TrackedAt => cred[r] \in Accepted
    /\ pc[r] \notin {"serving", "release", "done"} => answer[r] = "none"

\* The registry is closed exactly from CloseAll on.
StopInv ==
  /\ closed <=> stop \in {"closing", "closed"}
  /\ closed => open = {}
  /\ stop # "closing" => stopCancel = {}

\* The conjunction the proofs show to be inductive.
IInv ==
  /\ TypeOK /\ CredentialInv /\ ReachInv /\ RemovalInv /\ SecondLookupInv
  /\ AnswerInv /\ StopInv
  /\ EndedForCause /\ ShutdownToldTruly /\ PairedNotLockedOut

---------------------------------------------------------------------------
(* What must happen.                                                       *)

=============================================================================
