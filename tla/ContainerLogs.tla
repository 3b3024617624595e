--------------------------- MODULE ContainerLogs ---------------------------
(* The log of one container on a screen (LogsNotifier): lines arrive in    *)
(* pieces, the stream is lost, paused by the user or by the session, and   *)
(* reopened from the last line received. The supervisor is the one of      *)
(* StreamSupervisor, whose reports call nothing back here; the names stay  *)
(* clear of those of that module, beside which this one is reasoned about. *)
EXTENDS Naturals, Sequences, FiniteSets, SequencesExt

CONSTANTS
  Sources,    \* LogStream: one for a TTY, two otherwise
  Tails,      \* sizes of a tail the user can choose; 0 is all
  Cap,        \* kLogBufferCap
  MaxLog,     \* bound of the container's log
  MaxTime,    \* bound of its timestamps
  MaxOpens    \* bound of streams opened

ASSUME CapAssumption == Cap \in Nat \ {0}
ASSUME TailsAssumption == 0 \in Tails /\ Tails \subseteq Nat
ASSUME LogBoundAssumption ==
  MaxLog \in Nat \ {0} /\ MaxTime \in Nat \ {0} /\ MaxOpens \in Nat \ {0}

VARIABLES
  log,          \* what the container has written: the line's number is its identity
  buf,          \* _buf: numbers of lines
  cursor, atCursor, floor, repeats,   \* times, 0 for null, and counts of lines
  partial,      \* _partial: per source the line that has begun to arrive, 0 for none
  following, tail, live, openFollows, reloadOwed,
  stream,       \* of the supervisor
  view,         \* LogsState.status
  next, last,   \* the stream: next line to send, and the last one unless it follows
  opened,       \* streams opened (bounds the model)
  due           \* the tail was changed, or a fetch was cut short, and no stream opened since (ghost)

cursorVars == <<cursor, atCursor, floor, repeats>>
wishVars == <<following, tail, live, reloadOwed>>
streamVars == <<partial, openFollows, next, last>>
logVars == <<log, buf, cursorVars, wishVars, streamVars, stream, view, opened, due>>

Lines == 1..MaxLog
Times == 1..MaxTime

\* One type invariant for all of the state. The buffer keeps its cap.
LogTypeOK ==
  /\ log \in Seq([src : Sources, time : Times]) /\ Len(log) <= MaxLog
  /\ buf \in Seq(Lines) /\ Len(buf) <= Cap
  /\ cursor \in 0..MaxTime /\ atCursor \in 0..MaxLog
  /\ floor \in 0..MaxTime /\ repeats \in 0..MaxLog
  /\ partial \in [Sources -> 0..MaxLog]
  /\ following \in BOOLEAN /\ tail \in Tails /\ live \in BOOLEAN
  /\ openFollows \in BOOLEAN /\ reloadOwed \in BOOLEAN /\ due \in BOOLEAN
  /\ stream \in {"streaming", "paused", "retrying", "failed", "done"}
  /\ view \in {"streaming", "paused", "idle", "reconnecting", "error"}
  /\ next \in 1..(MaxLog + 1) /\ last \in 0..MaxLog
  /\ opened \in 0..MaxOpens

\* The first line sent for a "since" of "from", or for a tail when that is null.
FirstSent(from, size) ==
  IF from # 0 THEN 1 + Cardinality({k \in DOMAIN log : log[k].time < from})
  ELSE IF size = 0 \/ size > Len(log) THEN 1 ELSE Len(log) - size + 1

\* The screen opens on a container that may already have a log.
LogInit ==
  /\ log \in {<< >>} \cup {<< [src |-> s, time |-> 1] >> : s \in Sources}
  /\ buf = << >>
  /\ cursor = 0 /\ atCursor = 0 /\ floor = 0 /\ repeats = 0
  /\ partial = [s \in Sources |-> 0]
  /\ following = TRUE /\ tail = 0 /\ live = TRUE /\ openFollows = TRUE /\ reloadOwed = FALSE
  /\ stream = "streaming" /\ view = "streaming"
  /\ next = 1 /\ last = 0
  /\ opened = 1 /\ due = FALSE

---------------------------------------------------------------------------
(* The supervisor, as LogsNotifier uses it.                                *)

\* _onStatus.
ViewOf(s, alive) ==
  CASE s = "streaming" -> "streaming"
    [] s = "retrying" -> "reconnecting"
    [] s = "paused" -> IF alive THEN "paused" ELSE "reconnecting"
    [] s = "failed" -> "error"
    [] s = "done" -> "idle"

Report(s) == stream' = s /\ view' = ViewOf(s, live')

\* _open, from a cursor "from" seen "seen" times, with the given wish to follow. It
\* has a client: without one the session is over, and the next disposes of this.
Open(from, seen, follow, size) ==
  /\ opened < MaxOpens /\ opened' = opened + 1
  /\ partial' = [s \in Sources |-> 0]
  /\ floor' = from /\ repeats' = seen
  /\ openFollows' = follow
  /\ next' = FirstSent(from, size) /\ last' = IF follow THEN 0 ELSE Len(log)
  /\ Report("streaming")
  /\ due' = FALSE

Reading == stream = "streaming"

---------------------------------------------------------------------------
(* Lines.                                                                  *)

\* The container writes a line: the clock of its daemon does not go back.
Write(s, t) ==
  /\ Len(log) < MaxLog
  /\ Len(log) > 0 => t >= Last(log).time
  /\ log' = Append(log, [src |-> s, time |-> t])
  /\ UNCHANGED <<buf, cursorVars, wishVars, streamVars, stream, view, opened, due>>

\* Mutant: every line at the floor is taken for a repeat.
RepeatAll(k) == floor # 0 /\ log[k].time <= floor

\* Line k was shown before the stream was opened.
Repeat(k) == floor # 0 /\ (log[k].time < floor \/ (log[k].time = floor /\ repeats > 0))

\* _toLine: the cursor moves, and the buffer keeps its newest lines.
Take(k) ==
  IF Repeat(k)
    THEN /\ repeats' = IF log[k].time = floor THEN repeats - 1 ELSE repeats
         /\ UNCHANGED <<buf, cursor, atCursor, floor>>
    ELSE /\ buf' = LET all == Append(buf, k)
                   IN SubSeq(all, IF Len(all) > Cap THEN Len(all) - Cap + 1 ELSE 1, Len(all))
         /\ cursor' = IF log[k].time > cursor THEN log[k].time ELSE cursor
         /\ atCursor' = IF log[k].time > cursor THEN 1
                        ELSE IF log[k].time = cursor THEN atCursor + 1 ELSE atCursor
         /\ UNCHANGED <<floor, repeats>>

ToSend == Reading /\ next <= Len(log) /\ (last # 0 => next <= last)

\* A line arrives in one piece.
Whole ==
  /\ ToSend /\ partial[log[next].src] = 0
  /\ Take(next)
  /\ next' = next + 1
  /\ UNCHANGED <<log, wishVars, partial, openFollows, last, stream, view, opened, due>>

\* The beginning of a line arrives.
Begin ==
  /\ ToSend /\ partial[log[next].src] = 0
  /\ partial' = [partial EXCEPT ![log[next].src] = next]
  /\ next' = next + 1
  /\ UNCHANGED <<log, buf, cursorVars, wishVars, openFollows, last, stream, view, opened, due>>

\* The rest of it arrives; lines of the other source may have come before it.
Rest(s) ==
  /\ Reading /\ partial[s] # 0
  /\ Take(partial[s])
  /\ partial' = [partial EXCEPT ![s] = 0]
  /\ UNCHANGED <<log, wishVars, openFollows, next, last, stream, view, opened, due>>

---------------------------------------------------------------------------
(* The stream.                                                             *)

\* It is lost (onError): another attempt, or none.
Lose ==
  /\ Reading
  /\ \E s \in {"retrying", "failed"} : Report(s)
  /\ UNCHANGED <<log, buf, cursorVars, wishVars, streamVars, opened, due>>

\* It ends when everything is sent: at once for a fetch, and when the container
\* stops otherwise.
Finish ==
  /\ Reading /\ ~ToSend /\ \A s \in Sources : partial[s] = 0
  /\ Report("done")
  /\ UNCHANGED <<log, buf, cursorVars, wishVars, streamVars, opened, due>>

\* The backoff is over.
Reopen ==
  /\ stream = "retrying"
  /\ Open(cursor, atCursor, following, tail)
  /\ UNCHANGED <<log, buf, cursor, atCursor, wishVars>>

---------------------------------------------------------------------------
(* The user and the session.                                               *)

\* _sync, with the wishes as they are now: the stream is paused, ...
Halt ==
  /\ LET fetching == stream \in {"streaming", "retrying"}
         cut == ~live' /\ fetching /\ ~openFollows
     IN /\ reloadOwed' = (reloadOwed \/ cut) /\ due' = (due \/ cut)
        /\ IF fetching \/ stream = "paused" THEN Report("paused") ELSE UNCHANGED <<stream, view>>
  /\ UNCHANGED <<floor, repeats, streamVars, opened>>

\* ... a fetch that is owed is made up, ...
MakeUp ==
  /\ reloadOwed' = FALSE
  /\ Open(cursor, atCursor, following', tail)

\* Mutant: a stream that only fetches is taken for one that follows.
FollowFetch ==
  /\ reloadOwed' = FALSE
  /\ IF stream \in {"paused", "done", "failed"}
       THEN Open(cursor, atCursor, following', tail)
       ELSE UNCHANGED <<floor, repeats, streamVars, stream, view, opened, due>>

\* ... or it follows from the cursor.
Follow ==
  /\ reloadOwed' = FALSE
  /\ IF stream \in {"paused", "done", "failed"} \/ ~openFollows
       THEN Open(cursor, atCursor, following', tail)
       ELSE UNCHANGED <<floor, repeats, streamVars, stream, view, opened, due>>

Sync ==
  IF live' /\ following' THEN Follow
  ELSE IF live' /\ reloadOwed THEN MakeUp
  ELSE Halt

SetLive ==
  /\ live' = ~live
  /\ UNCHANGED <<following, tail>>
  /\ Sync
  /\ UNCHANGED <<log, buf, cursor, atCursor>>

SetFollowing ==
  /\ following' = ~following
  /\ UNCHANGED <<live, tail>>
  /\ Sync
  /\ UNCHANGED <<log, buf, cursor, atCursor>>

\* setTail: the view starts over, now or when the session is back.
SetTail(n) ==
  /\ tail' = n
  /\ buf' = << >>
  /\ cursor' = 0 /\ atCursor' = 0
  /\ UNCHANGED <<log, following, live>>
  /\ IF live THEN Open(0, 0, following, n) /\ UNCHANGED reloadOwed
     ELSE /\ reloadOwed' = TRUE /\ floor' = 0 /\ repeats' = 0 /\ due' = TRUE
          /\ UNCHANGED <<streamVars, stream, view, opened>>

\* Retry, unless the session is away.
RetryLog ==
  /\ live
  /\ Open(cursor, atCursor, following, tail)
  /\ UNCHANGED <<log, buf, cursor, atCursor, wishVars>>

LogNext ==
  \/ \E s \in Sources, t \in Times : Write(s, t)
  \/ Whole \/ Begin \/ (\E s \in Sources : Rest(s))
  \/ Lose \/ Finish \/ Reopen
  \/ SetLive \/ SetFollowing \/ (\E n \in Tails : SetTail(n)) \/ RetryLog

LogSpec == LogInit /\ [][LogNext]_logVars

---------------------------------------------------------------------------
(* Properties.                                                             *)

\* A line that is not shown may still come: over this stream or the next one.
StillOwed(k) ==
  IF Reading THEN k >= next \/ \E s \in Sources : partial[s] = k ELSE log[k].time >= cursor

\* However often the stream is lost, paused and reopened, the view shows no line
\* twice and skips none (setFollowing: "no gap, no duplicates").
Seamless ==
  /\ \A i, j \in DOMAIN buf : buf[i] = buf[j] => i = j
  /\ \A i, j \in DOMAIN buf : \A k \in buf[i]..buf[j] :
       StillOwed(k) \/ \E m \in DOMAIN buf : buf[m] = k

\* The stream runs only while the session is live, and follows when the user
\* does; a tail that was chosen, or a fetch that was cut short, while the session
\* was away is fetched when it is back; and the view tells how it stands (_sync).
RunsAsWanted ==
  /\ ~live => stream \notin {"streaming", "retrying"}
  /\ live /\ following => stream # "paused" /\ (Reading => openFollows)
  /\ due => ~live
  /\ view = ViewOf(stream, live)

---------------------------------------------------------------------------
(* The inductive invariants. RunInv is one for every container; the others *)
(* are for a container with one source whose whole log is shown.           *)

\* What is due when the session is back is owed.
RunInv ==
  /\ live \in BOOLEAN /\ following \in BOOLEAN /\ openFollows \in BOOLEAN
  /\ stream \in {"streaming", "paused", "retrying", "failed", "done"}
  /\ due => reloadOwed
  /\ RunsAsWanted

WholeOfOne == Tails = {0} /\ \E s : Sources = {s}

\* The newest line in the view, and the one the stream brings next.
Shown == IF buf = << >> THEN 0 ELSE buf[Len(buf)]
Coming == IF \E s \in Sources : partial[s] # 0 THEN next - 1 ELSE next

\* Timestamps do not go back.
OrderInv == \A i, j \in DOMAIN log : i <= j => log[i].time <= log[j].time

\* The view is an unbroken piece of the log.
ViewInv ==
  /\ Shown <= Len(log)
  /\ \A i \in DOMAIN buf : buf[i] = Shown - Len(buf) + i

\* The cursor is at the newest line in the view and never before the floor, and
\* atCursor counts the lines up to it that have its timestamp.
CursorInv ==
  /\ floor <= cursor
  /\ cursor = 0 <=> buf = << >>
  /\ cursor = 0 => atCursor = 0
  /\ cursor # 0 =>
       /\ cursor = log[Shown].time /\ atCursor \in 1..Shown
       /\ \A k \in 1..Shown : log[k].time = cursor <=> k > Shown - atCursor

\* What the stream brings next follows on the view, but for the repeats, all of
\* which have the timestamp the stream was opened at.
StreamInv ==
  /\ \A s \in Sources : partial[s] # 0 => partial[s] = next - 1
  /\ Reading =>
       /\ next <= Len(log) + 1
       /\ Coming + repeats = Shown + 1
       /\ repeats > 0 => floor # 0 /\ \A k \in Coming..Shown : log[k].time = floor

LogIInv == LogTypeOK /\ RunInv /\ OrderInv /\ ViewInv /\ CursorInv /\ StreamInv
=============================================================================
