----------------------------- MODULE SshTransport -----------------------------
(***************************************************************************)
(* The calls of the app's SshTransport that hand a channel over: the       *)
(* streams (_openStream) and the attach of a terminal (execAttach), both   *)
(* over _openAndSend.  Each call opens a channel of its own on the shared  *)
(* SSH connection.  A call that has reached its deadline, or whose reader  *)
(* has cancelled, cannot stop an open that is under way: the channel may   *)
(* still arrive.                                                           *)
(***************************************************************************)
EXTENDS Naturals

CONSTANTS
    Calls,    \* every call that is ever made
    Streams   \* those that are streams, the others attach a terminal

ASSUME StreamsAssumption == Streams \subseteq Calls

VARIABLES
    call,       \* call[c]: how far the call is
    conn,       \* conn[c]: its channel
    cancelled   \* cancelled[c]: the reader of the stream has cancelled

callVars == <<call, conn, cancelled>>

CallPlaces == {"idle", "open", "head", "refused", "body", "over"}
ConnStates == {"none", "opening", "open", "closed"}

CallTypeOK ==
    /\ call \in [Calls -> CallPlaces]
    /\ conn \in [Calls -> ConnStates]
    /\ cancelled \in [Calls -> BOOLEAN]

CallInit ==
    /\ call = [c \in Calls |-> "idle"]
    /\ conn = [c \in Calls |-> "none"]
    /\ cancelled = [c \in Calls |-> FALSE]

\* What closing a channel makes of it: only one that is there can be closed.
ClosedNow(c) == IF conn[c] = "open" THEN "closed" ELSE conn[c]

\* The call ends here and lets go of its channel, if it has one.
Over(c) ==
    /\ call' = [call EXCEPT ![c] = "over"]
    /\ conn' = [conn EXCEPT ![c] = ClosedNow(c)]
    /\ UNCHANGED cancelled

Begin(c) ==
    /\ call[c] = "idle"
    /\ call' = [call EXCEPT ![c] = "open"]
    /\ conn' = [conn EXCEPT ![c] = "opening"]
    /\ UNCHANGED cancelled

\* Mutant: a channel that opens after the deadline, or after a cancel, is used.
OpensAnyway(c) ==
    /\ conn[c] = "opening"
    /\ conn' = [conn EXCEPT ![c] = "open"]
    /\ call' = [call EXCEPT ![c] = IF @ = "open" THEN "head" ELSE @]
    /\ UNCHANGED cancelled

\* The channel is there.  If the deadline has passed (then the call is over) or
\* the reader has cancelled, it is closed unused; otherwise the request is sent
\* and the head awaited.
ChannelOpens(c) ==
    /\ conn[c] = "opening"
    /\ IF call[c] = "over" \/ cancelled[c]
       THEN /\ conn' = [conn EXCEPT ![c] = "closed"]
            /\ call' = [call EXCEPT ![c] = "over"]
       ELSE /\ conn' = [conn EXCEPT ![c] = "open"]
            /\ call' = [call EXCEPT ![c] = "head"]
    /\ UNCHANGED cancelled

\* The channel cannot be opened and the call has already been given up.
OpenFailsLate(c) ==
    /\ conn[c] = "opening" /\ call[c] = "over"
    /\ conn' = [conn EXCEPT ![c] = "none"]
    /\ UNCHANGED <<call, cancelled>>

\* The channel cannot be opened: the call fails.
OpenFails(c) ==
    /\ conn[c] = "opening" /\ call[c] = "open"
    /\ conn' = [conn EXCEPT ![c] = "none"]
    /\ call' = [call EXCEPT ![c] = "over"]
    /\ UNCHANGED cancelled

\* Mutant: the deadline only begins when the channel is open.
TimesOutOnHead(c) == call[c] = "head" /\ Over(c)

\* The deadline spans the open and the head.  A channel that is there is closed
\* by the catch of the caller, one that is still opening when it arrives.
TimesOut(c) == call[c] \in {"open", "head"} /\ Over(c)

\* The answer is an error.  Its text is read to the end, without a deadline.
HeadRefuses(c) ==
    /\ call[c] = "head" /\ conn[c] = "open"
    /\ call' = [call EXCEPT ![c] = "refused"]
    /\ UNCHANGED <<conn, cancelled>>

\* The connection breaks before the head, or the answer to a refusal has been
\* read or has broken off.
HeadBreaks(c) == call[c] = "head" /\ Over(c)
RefusalRead(c) == call[c] = "refused" /\ Over(c)

\* Every way in which a call fails, with the channel let go of.
CallFails(c) == OpenFails(c) \/ TimesOut(c) \/ HeadBreaks(c) \/ RefusalRead(c)

\* A call whose head is good has its body, or its terminal, from here on.
HeadArrives(c) ==
    /\ call[c] = "head" /\ conn[c] = "open"
    /\ call' = [call EXCEPT ![c] = "body"]
    /\ UNCHANGED <<conn, cancelled>>

-----------------------------------------------------------------------------
\* Streams.  A stream is opened when somebody listens to it.

\* The reader cancels at any point after it began to listen.  What is still
\* being read then fails as the channel closes, and nobody is told.
Cancel(c) ==
    /\ call[c] \notin {"idle", "over"} /\ ~cancelled[c]
    /\ cancelled' = [cancelled EXCEPT ![c] = TRUE]
    /\ conn' = [conn EXCEPT ![c] = ClosedNow(c)]
    /\ call' = [call EXCEPT ![c] = IF @ = "body" THEN "over" ELSE @]

\* The body ends or breaks off.
BodyEnds(c) == call[c] = "body" /\ Over(c)

StreamStep(c) ==
    \/ Begin(c) \/ HeadArrives(c) \/ Cancel(c) \/ BodyEnds(c) \/ CallFails(c)

\* Part of the inductive invariant: an open channel has a call that goes on and a
\* reader that has not cancelled.
CallInv ==
    \A c \in Calls :
        /\ conn[c] = "open" => call[c] \in {"head", "refused", "body"} /\ ~cancelled[c]
        /\ conn[c] = "opening" => call[c] \in {"open", "over"}
        /\ call[c] = "body" => conn[c] = "open"
        /\ call[c] = "idle" => conn[c] = "none"

\* What the SSH connection brings without ending the call.
ChannelStep(c) == ChannelOpens(c) \/ OpenFailsLate(c) \/ HeadRefuses(c)
=============================================================================
