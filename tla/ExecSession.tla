----------------------------- MODULE ExecSession ------------------------------
(***************************************************************************)
(* The terminal of the app: ExecSessionController over SshTransport, for   *)
(* one controller from its first start to its dispose.  Everything runs on *)
(* one isolate, so an action is the code between two awaits.  A start is   *)
(* named by the generation it was given.                                   *)
(***************************************************************************)
EXTENDS SshTransport, FiniteSets

CONSTANT MaxStarts   \* bound: how often a terminal is started

Starts == 1 .. MaxStarts

ASSUME StartsAssumption ==
    MaxStarts \in Nat \ {0} /\ Starts = Calls \ Streams

VARIABLES
    status,      \* ExecStatus
    gen,         \* _generation
    disposed,    \* _disposed
    moved,       \* the session has another transport than the one started on
    channel,     \* the start whose channel is _channel (and read), 0: none
    exit,        \* the start whose exit code is shown, 0: none
    job,         \* job[s]: where the _start of s is suspended
    inspecting   \* starts whose _onEnded awaits the exit code

ownVars == <<status, gen, disposed, moved, channel, exit, job, inspecting>>
vars == <<callVars, ownVars>>

TypeOK ==
    /\ CallTypeOK
    /\ status \in {"connecting", "connected", "ended", "error"}
    /\ gen \in 1 .. MaxStarts + 1
    /\ disposed \in BOOLEAN
    /\ moved \in BOOLEAN
    /\ channel \in Starts \cup {0}
    /\ exit \in Starts \cup {0}
    /\ job \in [Starts -> {"none", "create", "attach", "done"}]
    /\ inspecting \subseteq Starts

\* The constructor makes the first start.
Init ==
    /\ CallInit
    /\ status = "connecting" /\ gen = 1
    /\ disposed = FALSE /\ moved = FALSE
    /\ channel = 0 /\ exit = 0
    /\ job = [s \in Starts |-> IF s = 1 THEN "create" ELSE "none"]
    /\ inspecting = {}

\* Mutant: a handshake looks only at whether the screen is still there.
AbandonedIfDisposed(s) == disposed

\* The session was disposed of, ended or restarted since start s.
Abandoned(s) == disposed \/ gen # s

\* _releaseChannel: stop reading, then close; what the channel still sends does
\* not reach the session.
ReleaseChannel ==
    /\ channel' = 0
    /\ IF channel = 0 THEN UNCHANGED callVars ELSE Over(channel)

-----------------------------------------------------------------------------
\* A start: create the exec, attach to it.

Failed(s) ==
    /\ job' = [job EXCEPT ![s] = "done"]
    /\ status' = IF Abandoned(s) THEN status ELSE "error"
    /\ UNCHANGED <<gen, disposed, moved, channel, exit, inspecting>>

\* The exec has been created on the host.
Created(s) ==
    /\ job[s] = "create"
    /\ IF Abandoned(s)
       THEN job' = [job EXCEPT ![s] = "done"] /\ UNCHANGED callVars
       ELSE job' = [job EXCEPT ![s] = "attach"] /\ Begin(s)
    /\ UNCHANGED <<status, gen, disposed, moved, channel, exit, inspecting>>

CreateFails(s) == job[s] = "create" /\ Failed(s) /\ UNCHANGED callVars

\* The channel is handed over.  One that nobody wants any more is closed.
Attached(s) ==
    /\ job[s] = "attach" /\ call[s] = "head" /\ conn[s] = "open"
    /\ job' = [job EXCEPT ![s] = "done"]
    /\ IF Abandoned(s)
       THEN Over(s) /\ UNCHANGED <<status, channel>>
       ELSE HeadArrives(s) /\ channel' = s /\ status' = "connected"
    /\ UNCHANGED <<gen, disposed, moved, exit, inspecting>>

AttachFails(s) == job[s] = "attach" /\ CallFails(s) /\ Failed(s)

\* _onEnded: the channel ends or breaks.  The exit code is asked for.
ChannelEnds(s) ==
    /\ channel = s
    /\ status' = "ended"
    /\ ReleaseChannel
    /\ inspecting' = inspecting \cup {s}
    /\ UNCHANGED <<gen, disposed, moved, exit, job>>

\* The exit code (0 here: unknown), or the failure to get it, has come.
Inspected(s, code) ==
    /\ s \in inspecting
    /\ inspecting' = inspecting \ {s}
    /\ exit' = IF Abandoned(s) THEN exit ELSE code
    /\ UNCHANGED <<callVars, status, gen, disposed, moved, channel, job>>

-----------------------------------------------------------------------------
\* The screen.

\* Run, on the connection the session was started on.
Restart ==
    /\ ~disposed /\ ~moved /\ gen < MaxStarts
    /\ ReleaseChannel
    /\ gen' = gen + 1
    /\ status' = "connecting" /\ exit' = 0
    /\ job' = [job EXCEPT ![gen + 1] = "create"]
    /\ UNCHANGED <<disposed, moved, inspecting>>

\* end(): the session has another transport, or none.
End ==
    /\ ~disposed /\ ~moved
    /\ moved' = TRUE
    /\ IF status = "ended"
       THEN UNCHANGED <<callVars, status, gen, channel, exit>>
       ELSE /\ ReleaseChannel
            /\ gen' = gen + 1
            /\ status' = "ended" /\ exit' = 0
    /\ UNCHANGED <<disposed, job, inspecting>>

\* The screen is closed, or a new session takes the place of this one.
Dispose ==
    /\ ~disposed
    /\ disposed' = TRUE
    /\ ReleaseChannel
    /\ UNCHANGED <<status, gen, moved, exit, job, inspecting>>

-----------------------------------------------------------------------------
StartStep(s) ==
    \/ Created(s) \/ CreateFails(s) \/ Attached(s) \/ AttachFails(s)
    \/ ChannelEnds(s) \/ \E code \in {0, s} : Inspected(s, code)

Next ==
    \/ \E s \in Starts : StartStep(s)
    \/ Restart \/ End \/ Dispose
    \/ \E c \in Calls : ChannelStep(c) /\ UNCHANGED ownVars
    \/ \E c \in Streams : StreamStep(c) /\ UNCHANGED ownVars

\* Timers fire, and the text of a refusal ends (or the connection is found to be
\* broken).  A channel need never open, an answer never come, and nobody need
\* ever cancel, restart or leave.
Fairness ==
    /\ \A s \in Starts :
        /\ WF_vars(Created(s) \/ CreateFails(s))
        /\ WF_vars(job[s] = "attach" /\ TimesOut(s) /\ Failed(s))
        /\ WF_vars(job[s] = "attach" /\ RefusalRead(s) /\ Failed(s))
    /\ \A c \in Streams :
        WF_vars((TimesOut(c) \/ RefusalRead(c)) /\ UNCHANGED ownVars)

Spec == Init /\ [][Next]_vars
FairSpec == Spec /\ Fairness

-----------------------------------------------------------------------------
\* Properties

\* Whoever an open channel belongs to can still close it: a call under way, with
\* its deadline, the reader of a stream that has not cancelled, or the session,
\* whose channel is that of its own start.  In particular a channel that opened
\* after the deadline, or was attached after a restart, an end or a dispose, is
\* not left open on the host.
ChannelsAreHeld ==
    \A c \in Calls : conn[c] = "open" =>
        \/ call[c] \in {"head", "refused"} /\ ~cancelled[c]
        \/ call[c] = "body" /\ c \in Streams /\ ~cancelled[c]
        \/ call[c] = "body" /\ c = channel /\ c = gen /\ ~disposed

\* The screen shows the start it stands for: "connected" is said of an open
\* channel of the last start, an exit code is that of the last start and only
\* shown when it has ended, and while it says "connecting" the last start is
\* still under way.
ShownIsOwn ==
    ~disposed =>
        /\ status = "connected" => channel = gen /\ conn[gen] = "open"
        /\ channel # 0 => status = "connected"
        /\ exit # 0 => exit = gen /\ status = "ended"
        /\ status = "connecting" => job[gen] \in {"create", "attach"}

\* Every call gets its answer or fails, also when the channel never opens, so
\* that no terminal is connecting for ever and no abandoned channel stays open.
CallsEnd ==
    \A c \in Calls :
        call[c] \in {"open", "head", "refused"} ~> call[c] \in {"body", "over"}

-----------------------------------------------------------------------------
\* The inductive invariant.

\* How far the call of a start is follows from how far the start is, and only
\* the call of the session's own channel has its terminal.
StartInv ==
    \A s \in Starts :
        /\ job[s] \in {"none", "create"} => call[s] = "idle"
        /\ job[s] = "attach" => call[s] \in {"open", "head", "refused"}
        /\ job[s] = "done" => call[s] \in {"idle", "body", "over"}
        /\ call[s] = "body" => channel = s
        /\ s > gen => job[s] = "none"
        /\ s \in inspecting => s <= gen
        /\ ~cancelled[s]

\* What the session shows and holds is its last start's, whose _start is under
\* way exactly while the session is connecting.
SessionInv ==
    /\ channel # 0 => channel = gen /\ call[gen] = "body" /\ ~disposed
    /\ ~disposed => (status = "connected" <=> channel # 0)
    /\ ~disposed => (status = "connecting" <=> gen \in Starts /\ job[gen] \in {"create", "attach"})
    /\ exit # 0 => exit = gen /\ (~disposed => status = "ended")
    /\ ~disposed /\ gen \in inspecting => status = "ended"
    /\ ~moved => gen \in Starts

IInv == TypeOK /\ CallInv /\ StartInv /\ SessionInv
=============================================================================
