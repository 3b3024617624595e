--------------------------- MODULE AccessControl ---------------------------
(* What the agent promises about access, whatever locks, contexts and looks *)
(* at the list it takes. A removal that was confirmed is the end of the     *)
(* device; nobody is ended, refused or told of a shutdown without a reason. *)

CONSTANTS
  Requests,
  Devices,
  Shared,       \* the tokens that are accepted and are no device's
  Credentials,  \* whatever a request can come with
  NoToken

VARIABLES
  standing,     \* of each device: none yet, paired, removed, or gone: that was confirmed
  owner,        \* the credential of each request
  phase,        \* how far each request is
  left,         \* requests whose client has left
  stopped       \* whether the agent is shutting down

vars == <<standing, owner, phase, left, stopped>>

Init ==
  /\ standing = [d \in Devices |-> "none"]
  /\ owner = [r \in Requests |-> NoToken]
  /\ phase = [r \in Requests |-> "new"]
  /\ left = {} /\ stopped = FALSE

Stands(r, where) == owner[r] \in Devices /\ standing[owner[r]] \in where

\* Why a request may be ended that has not ended by itself.
Cause(r) == r \in left \/ stopped \/ Stands(r, {"removed", "gone"})

---------------------------------------------------------------------------
(* Devices.                                                                *)

Pair(d) ==
  /\ standing[d] = "none" /\ standing' = [standing EXCEPT ![d] = "paired"]
  /\ UNCHANGED <<owner, phase, left, stopped>>

Remove(d) ==
  /\ standing[d] = "paired" /\ standing' = [standing EXCEPT ![d] = "removed"]
  /\ UNCHANGED <<owner, phase, left, stopped>>

\* The removal is confirmed, and no request of the device is alive.
Confirm(d) ==
  /\ standing[d] = "removed" /\ standing' = [standing EXCEPT ![d] = "gone"]
  /\ \A r \in Requests : owner[r] = d => phase[r] # "live"
  /\ UNCHANGED <<owner, phase, left, stopped>>

---------------------------------------------------------------------------
(* Requests.                                                               *)

Send(r, c) ==
  /\ phase[r] = "new" /\ phase' = [phase EXCEPT ![r] = "waiting"]
  /\ owner' = [owner EXCEPT ![r] = c]
  /\ c \in Devices => standing[c] # "none"
  /\ UNCHANGED <<standing, left, stopped>>

Becomes(r, from, to) ==
  /\ phase[r] \in from /\ phase' = [phase EXCEPT ![r] = to]
  /\ UNCHANGED <<standing, owner, left, stopped>>

\* A request is served to a device that is paired, to one whose removal is not
\* confirmed yet, or with the shared token; after the stop only to the second,
\* whose removal is about to end it.
Serve(r) ==
  /\ Becomes(r, {"waiting"}, "live")
  /\ owner[r] \in Shared \/ Stands(r, {"paired", "removed"})
  /\ stopped => Stands(r, {"removed"})

\* It is served, and what serves it finds that it has been ended before.
ServeCut(r) ==
  /\ Becomes(r, {"waiting"}, "cut")
  /\ owner[r] \in Shared \cup Devices /\ Cause(r)

\* 401 and 429: never to a device that is paired.
Refuse(r) == Becomes(r, {"waiting"}, "refused") /\ ~Stands(r, {"paired"})

\* 503: the agent is shutting down.
Unavailable(r) == Becomes(r, {"waiting"}, "unavailable") /\ stopped

Cut(r) == Becomes(r, {"live"}, "cut") /\ Cause(r)

Finish(r) == Becomes(r, {"live", "cut"}, "done")

Leave(r) == left' = left \cup {r} /\ UNCHANGED <<standing, owner, phase, stopped>>

---------------------------------------------------------------------------

\* The shutdown ends all of them at once, but those a removal is about to end.
Stop ==
  /\ ~stopped /\ stopped' = TRUE
  /\ \E rest \in SUBSET {r \in Requests : Stands(r, {"removed"})} :
       phase' = [r \in Requests |-> IF phase[r] = "live" /\ r \notin rest THEN "cut" ELSE phase[r]]
  /\ UNCHANGED <<standing, owner, left>>

Next ==
  \/ \E d \in Devices : Pair(d) \/ Remove(d) \/ Confirm(d)
  \/ \E r \in Requests :
       \/ \E c \in Credentials : Send(r, c)
       \/ Serve(r) \/ ServeCut(r) \/ Refuse(r) \/ Unavailable(r)
       \/ Cut(r) \/ Finish(r) \/ Leave(r)
  \/ Stop

Spec == Init /\ [][Next]_vars
=============================================================================
