------------------------------ MODULE Pairing ------------------------------
(* How a phone is paired: pairing.Manager, which holds at most one pending *)
(* pairing, the handler of POST /pair on the admin socket that starts one  *)
(* and waits for its end, the pair command at the other end of that socket *)
(* and the phones that redeem a code over the network.                     *)
(*                                                                         *)
(* Manager has a mutex; every call of it is one action. A handler's select *)
(* and the call that follows it are one action too, because the call does  *)
(* nothing when the pairing has ended in the meantime.                     *)
EXTENDS Naturals, FiniteSets

CONSTANTS
  Commands,   \* one element per pair command, and so per code
  Phones,     \* one element per POST /pair of a phone
  MaxTries,   \* MaxTries
  None        \* no command, no phone, no result

ASSUME MaxTriesAssumption == MaxTries \in Nat \ {0}

\* How a pairing can end (Outcome).
Outcomes == {"paired", "expired", "replaced", "voided", "cancelled", "failed"}

ASSUME NoneAssumption == None \notin Commands \cup Phones \cup Outcomes \cup {"taken", "refused"}

VARIABLES
  cur,        \* Manager.cur: the command whose pairing is pending
  tries,      \* cur.tries
  over,       \* codes whose ExpiresAt has come
  done,       \* the result in each pairing's channel, or that it was taken out
  pc,         \* where the handler of each command's request is
  left,       \* handlers that saw their request end first (local variable left)
  result,     \* what each handler got from the channel
  sent,       \* requests on whose stream "started" has been sent
  event,      \* the ending event sent on each stream
  shown,      \* commands that have shown their code
  said,       \* what each command ended with
  stop,       \* how far serve() is in stopping
  answer,     \* what each phone has been answered
  device,     \* the phone each code paired (ghost)
  wrong,      \* wrong proofs tested against each code (ghost)
  counted     \* phones whose attempt was counted by Limiter.Fail

managerVars == <<cur, tries, done>>
handlerVars == <<pc, left, result, sent, event>>
commandVars == <<shown, said>>
phoneVars   == <<answer, device, wrong, counted>>
vars == <<managerVars, over, handlerVars, commandVars, stop, phoneVars>>

PCs == {"idle", "generated", "started", "wait", "read", "report", "done"}
Sayings == Outcomes \cup {"nothing", "refused", "interrupted", "interruptedEarly", "stopped"}
Answers == {"nothing", "refused", "403", "404", "500", "200"}

\* One type invariant for all of the state.
TypeOK ==
  /\ cur \in Commands \cup {None}
  /\ tries \in 0..(MaxTries - 1)
  /\ over \subseteq Commands
  /\ done \in [Commands -> Outcomes \cup {None, "taken"}]
  /\ pc \in [Commands -> PCs]
  /\ left \subseteq Commands
  /\ result \in [Commands -> Outcomes \cup {None}]
  /\ sent \subseteq Commands
  /\ event \in [Commands -> Outcomes \cup {None, "refused"}]
  /\ shown \subseteq Commands
  /\ said \in [Commands -> Sayings]
  /\ stop \in {"running", "stopping", "closed"}
  /\ answer \in [Phones -> Answers]
  /\ device \in [Commands -> Phones \cup {None}]
  /\ wrong \in [Commands -> 0..MaxTries]
  /\ counted \subseteq Phones

Init ==
  /\ cur = None /\ tries = 0
  /\ done = [c \in Commands |-> None]
  /\ pc = [c \in Commands |-> "idle"]
  /\ left = {} /\ sent = {} /\ shown = {} /\ over = {} /\ counted = {}
  /\ result = [c \in Commands |-> None]
  /\ event = [c \in Commands |-> None]
  /\ said = [c \in Commands |-> "nothing"]
  /\ stop = "running"
  /\ answer = [p \in Phones |-> "nothing"]
  /\ device = [c \in Commands |-> None]
  /\ wrong = [c \in Commands |-> 0]

---------------------------------------------------------------------------
(* pairing.Manager. Each operator is the part of a call under the mutex.   *)

\* Mutant: the pairing is not forgotten.
EndPendingKept(outcome) ==
  /\ done' = [done EXCEPT ![cur] = outcome]
  /\ UNCHANGED <<cur, tries>>

\* endLocked(r), when there is a pending pairing: its starter gets the result
\* and the slot is free.
EndPending(outcome) ==
  /\ done' = [done EXCEPT ![cur] = outcome]
  /\ cur' = None
  /\ tries' = 0

\* endIf(id, r): Cancel and Expire.
EndIf(c, outcome) ==
  IF cur = c THEN EndPending(outcome) ELSE UNCHANGED <<cur, tries, done>>

\* Start under the mutex: whatever is pending is replaced.
Begin(c) ==
  /\ done' = IF cur = None THEN done ELSE [done EXCEPT ![cur] = "replaced"]
  /\ cur' = c
  /\ tries' = 0

---------------------------------------------------------------------------
(* The handler of POST /pair on the admin socket (admin.handlePair).       *)

Goto(c, step) == pc' = [pc EXCEPT ![c] = step]

\* The request's context: the command went away, which the agent's HTTP server
\* notices at any later time, or the agent is stopping.
RequestOver(c) == said[c] # "nothing" \/ stop # "running"

\* Whether what the handler writes can still be read.
Connected(c) == said[c] = "nothing" /\ stop # "closed"

\* The request arrives and is malformed, has an unknown role or a host that
\* cannot be advertised, or there is no randomness: an error is answered, and a
\* pending pairing stays.
Refuse(c) ==
  /\ pc[c] = "idle" /\ stop # "closed"
  /\ event' = [event EXCEPT ![c] = "refused"]
  /\ Goto(c, "done")
  /\ UNCHANGED <<managerVars, over, left, result, sent, commandVars, stop, phoneVars>>

\* The request arrives; Start before the mutex: the code and its end are made.
Generate(c) ==
  /\ pc[c] = "idle" /\ stop # "closed"
  /\ Goto(c, "generated")
  /\ UNCHANGED <<managerVars, over, left, result, sent, event, commandVars, stop, phoneVars>>

Start(c) ==
  /\ pc[c] = "generated"
  /\ Begin(c)
  /\ Goto(c, "started")
  /\ UNCHANGED <<over, left, result, sent, event, commandVars, stop, phoneVars>>

SendStarted(c) ==
  /\ pc[c] = "started"
  /\ sent' = IF Connected(c) THEN sent \cup {c} ELSE sent
  /\ Goto(c, "wait")
  /\ UNCHANGED <<managerVars, over, left, result, event, commandVars, stop, phoneVars>>

\* select: result = <-done.
TakeResult(c) ==
  /\ pc[c] \in {"wait", "read"} /\ done[c] \in Outcomes
  /\ result' = [result EXCEPT ![c] = done[c]]
  /\ done' = [done EXCEPT ![c] = "taken"]
  /\ Goto(c, "report")
  /\ UNCHANGED <<cur, tries, over, left, sent, event, commandVars, stop, phoneVars>>

\* Mutant: the outcome of a pairing whose time is up is assumed, not read.
ExpireAssumed(c) ==
  /\ pc[c] = "wait" /\ c \in over
  /\ EndIf(c, "expired")
  /\ result' = [result EXCEPT ![c] = "expired"]
  /\ Goto(c, "report")
  /\ UNCHANGED <<over, left, sent, event, commandVars, stop, phoneVars>>

\* select: the timer; Expire, and then the result is read.
Expire(c) ==
  /\ pc[c] = "wait" /\ c \in over
  /\ EndIf(c, "expired")
  /\ Goto(c, "read")
  /\ UNCHANGED <<over, left, result, sent, event, commandVars, stop, phoneVars>>

\* Mutant: the outcome of a request that is over is assumed, not read.
CancelAssumed(c) ==
  /\ pc[c] = "wait" /\ RequestOver(c)
  /\ EndIf(c, "cancelled")
  /\ left' = left \cup {c}
  /\ result' = [result EXCEPT ![c] = "cancelled"]
  /\ Goto(c, "report")
  /\ UNCHANGED <<over, sent, event, commandVars, stop, phoneVars>>

\* select: the request is over; Cancel, and then the result is read.
Cancel(c) ==
  /\ pc[c] = "wait" /\ RequestOver(c)
  /\ EndIf(c, "cancelled")
  /\ left' = left \cup {c}
  /\ Goto(c, "read")
  /\ UNCHANGED <<over, result, sent, event, commandVars, stop, phoneVars>>

\* The ending event, unless the request is over and no phone was paired. The
\* handler returns, and its local variables are gone.
Report(c) ==
  /\ pc[c] = "report"
  /\ event' = IF Connected(c) /\ ~(c \in left /\ result[c] # "paired")
                THEN [event EXCEPT ![c] = result[c]] ELSE event
  /\ left' = left \ {c}
  /\ result' = [result EXCEPT ![c] = None]
  /\ Goto(c, "done")
  /\ UNCHANGED <<managerVars, over, sent, commandVars, stop, phoneVars>>

HandlerStep(c) ==
  \/ Start(c) \/ SendStarted(c) \/ TakeResult(c) \/ Expire(c) \/ Cancel(c) \/ Report(c)

---------------------------------------------------------------------------
(* The pair command (cmdPair, Client.Pair, pairEnding).                    *)

Say(c, what) == said' = [said EXCEPT ![c] = what]

\* The "started" event is read: people see the code.
ShowCode(c) ==
  /\ said[c] = "nothing" /\ c \in sent \ shown
  /\ shown' = shown \cup {c}
  /\ UNCHANGED <<managerVars, over, handlerVars, said, stop, phoneVars>>

\* The ending event, or the error the request was answered with, is read.
ReadEnd(c) ==
  /\ said[c] = "nothing" /\ event[c] # None
  /\ c \in sent => c \in shown
  /\ Say(c, event[c])
  /\ UNCHANGED <<managerVars, over, handlerVars, shown, stop, phoneVars>>

\* The stream breaks off without an ending event, because the handler returned
\* without one or the agent closed the connection. What was written before can
\* still be read.
BreakOff(c) ==
  /\ said[c] = "nothing" /\ pc[c] # "idle"
  /\ pc[c] = "done" \/ stop = "closed"
  /\ event[c] = None /\ (c \in sent => c \in shown)
  /\ Say(c, IF c \in shown THEN "stopped" ELSE "refused")
  /\ UNCHANGED <<managerVars, over, handlerVars, shown, stop, phoneVars>>

\* Ctrl-C: the command ends at once and its connection is closed.
Interrupt(c) ==
  /\ said[c] = "nothing" /\ pc[c] # "idle"
  /\ Say(c, IF c \in shown THEN "interrupted" ELSE "interruptedEarly")
  /\ UNCHANGED <<managerVars, over, handlerVars, shown, stop, phoneVars>>

CommandStep(c) == ShowCode(c) \/ ReadEnd(c) \/ BreakOff(c)

---------------------------------------------------------------------------
(* POST /pair of a phone (server.handlePair) and Manager.Redeem.           *)

AnswerPhone(p, what) == answer' = [answer EXCEPT ![p] = what]

\* Refused before the manager is asked: the address is blocked, or the body,
\* the nonce or the proof is malformed. It uses up no try and is not counted.
PhoneRefused(p) ==
  /\ answer[p] = "nothing"
  /\ AnswerPhone(p, "refused")
  /\ UNCHANGED <<managerVars, over, handlerVars, commandVars, stop, device, wrong, counted>>

\* Redeem looks at the clock itself: the manager has no timer.
Over == cur # None /\ cur \in over

\* Mutant: only the timer of the handler ends a pairing.
RedeemableAlways == cur # None

Redeemable == cur # None /\ ~Over

\* Mutant: asking for a pairing that is not there costs nothing.
RedeemNoneFree(p) ==
  /\ answer[p] = "nothing" /\ ~Redeemable
  /\ IF Over THEN EndPending("expired") ELSE UNCHANGED <<cur, tries, done>>
  /\ AnswerPhone(p, "404")
  /\ UNCHANGED <<over, handlerVars, commandVars, stop, device, wrong, counted>>

\* ErrNone, after a pairing that is past its end has been ended.
RedeemNone(p) ==
  /\ answer[p] = "nothing" /\ ~Redeemable
  /\ IF Over THEN EndPending("expired") ELSE UNCHANGED <<cur, tries, done>>
  /\ counted' = counted \cup {p}
  /\ AnswerPhone(p, "404")
  /\ UNCHANGED <<over, handlerVars, commandVars, stop, device, wrong>>

\* ErrWrongProof, with the proof for another code or for none. It voids the
\* pairing when it is one too many.
RedeemWrong(p) ==
  /\ answer[p] = "nothing" /\ Redeemable
  /\ wrong' = [wrong EXCEPT ![cur] = @ + 1]
  /\ IF tries + 1 >= MaxTries THEN EndPending("voided")
                              ELSE tries' = tries + 1 /\ UNCHANGED <<cur, done>>
  /\ counted' = counted \cup {p}
  /\ AnswerPhone(p, "403")
  /\ UNCHANGED <<over, handlerVars, commandVars, stop, device>>

\* The proof is right, and the nonce cannot be read or the device not stored.
RedeemFails(p) ==
  /\ answer[p] = "nothing" /\ Redeemable /\ cur \in shown
  /\ EndPending("failed")
  /\ AnswerPhone(p, "500")
  /\ UNCHANGED <<over, handlerVars, commandVars, stop, device, wrong, counted>>

\* The proof is right and the device is stored, all under the mutex. The phone
\* has the code from whoever saw it on the command's screen.
Redeem(p) ==
  /\ answer[p] = "nothing" /\ Redeemable /\ cur \in shown
  /\ device' = [device EXCEPT ![cur] = p]
  /\ EndPending("paired")
  /\ AnswerPhone(p, "200")
  /\ UNCHANGED <<over, handlerVars, commandVars, stop, wrong, counted>>

---------------------------------------------------------------------------
(* The agent and the clock.                                                *)

\* endAdminRequests: the context of every request on the admin socket ends.
BeginStop ==
  /\ stop = "running"
  /\ stop' = "stopping"
  /\ UNCHANGED <<managerVars, over, handlerVars, commandVars, phoneVars>>

\* adminSrv.Close: the connections are closed; handlers are not waited for.
CloseAdmin ==
  /\ stop = "stopping"
  /\ stop' = "closed"
  /\ UNCHANGED <<managerVars, over, handlerVars, commandVars, phoneVars>>

\* The clock reaches a pairing's ExpiresAt; once its handler has seen it end
\* that no longer matters. Both the handler's timer and Redeem go by it.
TimeIsUp(c) ==
  /\ pc[c] \in {"generated", "started", "wait"} /\ c \notin over
  /\ over' = over \cup {c}
  /\ UNCHANGED <<managerVars, handlerVars, commandVars, stop, phoneVars>>

Next ==
  \/ \E c \in Commands : Refuse(c) \/ Generate(c) \/ HandlerStep(c) \/ CommandStep(c) \/ Interrupt(c) \/ TimeIsUp(c)
  \/ \E p \in Phones : PhoneRefused(p) \/ RedeemNone(p) \/ RedeemWrong(p) \/ RedeemFails(p) \/ Redeem(p)
  \/ BeginStop \/ CloseAdmin

Spec == Init /\ [][Next]_vars

(* Handlers and commands run when they can, and time passes. Phones,       *)
(* Ctrl-C and the stop may never come.                                     *)
Fairness ==
  \A c \in Commands :
    WF_vars(HandlerStep(c)) /\ WF_vars(CommandStep(c)) /\ WF_vars(TimeIsUp(c))

FairSpec == Spec /\ Fairness

---------------------------------------------------------------------------
(* Safety.                                                                 *)

\* What the command says is so, and stays so: after "expired", "replaced",
\* "voided" or "failed", or when it ended before its code was shown, no phone
\* is paired by its code; after "paired" one is (pairEnding).
TruthTold ==
  \A c \in Commands :
    /\ said[c] = "paired" => device[c] # None
    /\ said[c] \in {"expired", "replaced", "voided", "failed", "refused", "interruptedEarly"}
         => device[c] = None

\* The result channel of the pending pairing is empty, so endLocked never
\* blocks while it holds the mutex, and its handler is there to receive: no
\* code is redeemable without somebody who waits for its end (Start).
PendingIsAwaited ==
  cur # None => done[cur] = None /\ pc[cur] \in {"started", "wait"}

\* After Expire or Cancel the result can be read at once: exactly one has been
\* delivered, whoever ended the pairing (handlePair: "the result is read, not
\* assumed").
ResultIsThere ==
  \A c \in Commands : pc[c] = "read" => done[c] \in Outcomes

\* A command says that the agent stopped only when it did (ErrStopped).
StoppedIsTrue ==
  \A c \in Commands : said[c] = "stopped" => stop # "running"

\* A code is tested against at most MaxTries wrong proofs, and every one of
\* them is counted against the address it came from (server.handlePair).
GuessesAreCounted ==
  /\ \A c \in Commands : wrong[c] = MaxTries => cur # c
  /\ cur # None => tries = wrong[cur]
  /\ \A p \in Phones : answer[p] \in {"403", "404"} <=> p \in counted

---------------------------------------------------------------------------
(* What it is to the command and to the phone.                             *)

\* A code whose command has ended without showing it is void, pending or not.
Fate(c) ==
  IF device[c] # None THEN "used"
  ELSE IF said[c] \in {"refused", "interruptedEarly"} THEN "void"
  ELSE IF cur = c THEN "open"
  ELSE IF pc[c] \in {"idle", "generated"} THEN "none" ELSE "void"

Told(what) ==
  CASE what \in {"nothing", "paired"} -> what
    [] what \in {"interrupted", "stopped"} -> "unknown"
    [] OTHER -> "unpaired"

Got(what) ==
  CASE what = "nothing" -> "nothing"
    [] what = "200" -> "paired"
    [] OTHER -> "unpaired"

Codes == INSTANCE OneTimeCode WITH
  fate <- [c \in Commands |-> Fate(c)], holder <- device, late <- over, tested <- wrong,
  told <- [c \in Commands |-> Told(said[c])], got <- [p \in Phones |-> Got(answer[p])]

\* A code pairs one phone at most, only while it is pending, before its end and
\* before MaxTries wrong proofs; the phone that is told so is the one that holds
\* it, and what the command is told is so for good.
IsOneTimeCode == Codes!Spec

---------------------------------------------------------------------------
(* Liveness.                                                               *)

\* A command that asked says how its pairing ended, which so ends itself, if
\* only by its timer. And a phone that was paired is reported to the command
\* that showed its code, unless that was interrupted or the agent has closed
\* the connection: that the agent is stopping is no excuse (handlePair: "has to
\* learn that a phone holds a token now").
CommandLearns ==
  \A c \in Commands :
    (pc[c] # "idle") ~> (/\ said[c] # "nothing"
                        /\ device[c] # None => said[c] \in {"paired", "interrupted"} \/ stop = "closed")

---------------------------------------------------------------------------
(* The inductive invariant.                                                *)

\* Where a handler is says what has become of its pairing.
HandlerInv ==
  \A c \in Commands :
    /\ pc[c] \in {"idle", "generated"} => cur # c /\ done[c] = None
    /\ pc[c] \in {"started", "wait"} => (cur = c <=> done[c] = None) /\ done[c] # "taken"
    /\ pc[c] = "read" => cur # c /\ done[c] \in Outcomes
    /\ pc[c] = "report" => cur # c /\ done[c] = "taken" /\ result[c] \in Outcomes
    /\ pc[c] = "done" => cur # c
    /\ c \in left => RequestOver(c)

\* A result says "paired" exactly when a phone has been paired, wherever it is
\* on its way to the command; without a result no phone has been.
ResultInv ==
  \A c \in Commands :
    /\ done[c] # "taken" => (device[c] # None <=> done[c] = "paired")
    /\ pc[c] = "report" => (device[c] # None <=> result[c] = "paired")
    /\ event[c] # None => pc[c] = "done" /\ (device[c] # None <=> event[c] = "paired")
    /\ device[c] # None => c \in shown

\* A command says what it has read, and it has shown a code only if it was sent
\* one. A handler leaves a command without an event only when its request is over.
CommandInv ==
  \A c \in Commands :
    /\ c \in shown => c \in sent
    /\ c \in sent => pc[c] \notin {"idle", "generated", "started"} /\ event[c] # "refused"
    /\ said[c] \in Outcomes => event[c] = said[c]
    /\ said[c] \in {"refused", "interruptedEarly"} => c \notin shown
    /\ said[c] = "stopped" => stop # "running"
    /\ pc[c] = "done" /\ event[c] = None => RequestOver(c)

\* No code is tested before it is pending.
TriesInv == \A c \in Commands : pc[c] \in {"idle", "generated"} => wrong[c] = 0

IInv == TypeOK /\ HandlerInv /\ ResultInv /\ CommandInv /\ TriesInv /\ GuessesAreCounted
=============================================================================
