-------------------------------- MODULE Feed --------------------------------
(***************************************************************************)
(* The front page and its live stream: the index that events land in       *)
(* (web/postgres.ts feed), the stream that polls it for one tab            *)
(* (web/app.ts GET /api/feed/stream), and the script of the page that      *)
(* draws what it is sent and reconnects (web/views.ts feedPage).           *)
(*                                                                         *)
(* Time counts what PostgreSQL can tell apart; a JavaScript Date keeps     *)
(* only every Milli-th instant.  Browser and server share one clock here,  *)
(* the case most favourable to the code.                                   *)
(***************************************************************************)
EXTENDS Integers, Sequences, SequencesExt, FiniteSetsExt

CONSTANTS
  Limit,            \* FEED_LIMIT: events one query answers
  Cap,              \* cards the page keeps
  Milli,            \* instants of the database per instant of a Date
  Polls,            \* polls of one stream that can overlap
  MaxTime,          \* bound: the clock stops here
  MaxEvents,        \* bound: events observed
  MaxCount,         \* bound: parts waiting on the viewer's dock
  MaxWire,          \* bound: messages on their way to the page
  MaxFaults         \* bound: polls that fail

ASSUME FeedAssumption ==
  /\ {Limit, Cap, Milli} \subseteq Nat \ {0}
  /\ Limit <= Cap
  /\ {MaxTime, MaxEvents, MaxCount, MaxWire, MaxFaults} \subseteq Nat

VARIABLES
  clock,
  log,              \* event -> observed_at, in the order they were observed
  landed,           \* how many of them are committed, and so can be read
  count             \* what waits on the viewer's dock

VARIABLES
  page,             \* the cards, top first
  badge,            \* the number beside the dock's link
  es,               \* the EventSource: closed, connecting or open
  url,              \* the since it was opened with
  lastSeen,         \* the since the next one will be opened with
  wire              \* messages sent and not yet received

VARIABLES
  since,            \* the stream's closure: what it resumes after,
  lastWaiting,      \* the count it reported last,
  poll,             \* its polls,
  from,             \* history: where it began
  sent,             \* history: the events it sent
  late,             \* history: was the page sent an event with Limit newer ones there
  faults

index  == <<clock, log, landed, count>>
client == <<page, badge, es, url, lastSeen>>
stream == <<since, lastWaiting, poll, from, sent>>
hist   == <<late, faults>>
vars   == <<index, client, wire, stream, hist>>

NoTime        == -1
NeverReported == -1
Idle          == [at |-> "idle"]
Event(e)      == [kind |-> "event", what |-> e]
Badge(n)      == [kind |-> "waiting", what |-> n]

\* A Date of an instant, and its ISO string, drop what is below a millisecond.
Millis(t) == t - (t % Milli)

\* Newest first, strictly after an instant or from the beginning: the k-th row is the
\* one with k of them from it up.
FeedOf(after) ==
  LET rows     == {e \in 1 .. landed : log[e] > after}
      place(e) == Cardinality({h \in rows : h >= e})
  IN  [k \in 1 .. Min({Limit, Cardinality(rows)}) |-> CHOOSE e \in rows : place(e) = k]

\* So many newer events can be read that no query need answer this one.
OverLimit(e) == landed - e >= Limit

-----------------------------------------------------------------------------
(* The world: time, the ingest process, the dock.                          *)

Tick ==
  /\ clock < MaxTime
  /\ clock' = clock + 1
  /\ UNCHANGED <<log, landed, count, client, wire, stream, hist>>

\* One ingest process stamps a commit, then writes it: an event is dated
\* before it can be read, and none is dated while another is being written.
Observe ==
  /\ landed = Len(log)
  /\ Len(log) < MaxEvents
  /\ \A e \in 1 .. Len(log) : log[e] < clock
  /\ log' = Append(log, clock)
  /\ UNCHANGED <<clock, landed, count, client, wire, stream, hist>>

Land ==
  /\ landed < Len(log)
  /\ landed' = landed + 1
  /\ UNCHANGED <<clock, log, count, client, wire, stream, hist>>

DockChanges ==
  /\ \E n \in 0 .. MaxCount : n # count /\ count' = n
  /\ UNCHANGED <<clock, log, landed, client, wire, stream, hist>>

-----------------------------------------------------------------------------
(* The page.                                                               *)

\* A stream that ends takes its closure with it, and what it had sent.
StreamGone ==
  /\ wire' = <<>>
  /\ since' = NoTime
  /\ from' = NoTime
  /\ sent' = {}
  /\ lastWaiting' = NeverReported
  /\ poll' = [p \in Polls |-> Idle]

Load ==
  /\ page' = FeedOf(NoTime)
  /\ badge' = count
  /\ es' = "closed"
  /\ url' = NoTime
  /\ lastSeen' = NoTime
  /\ late' = FALSE
  /\ StreamGone
  /\ UNCHANGED <<index, faults>>

\* connect(): at once when the script runs, then at a sign of attention.
Connect ==
  /\ es = "closed"
  /\ es' = "connecting"
  /\ url' = lastSeen
  /\ UNCHANGED <<index, page, badge, lastSeen, wire, stream, hist>>

\* The tab is hidden, or nobody has touched it for three minutes.
Disconnect ==
  /\ es # "closed"
  /\ es' = "closed"
  /\ StreamGone
  /\ UNCHANGED <<index, page, badge, url, lastSeen, hist>>

\* The connection breaks; an EventSource tries the same URL again.
Break ==
  /\ es = "open"
  /\ es' = "connecting"
  /\ StreamGone
  /\ UNCHANGED <<index, page, badge, url, lastSeen, hist>>

\* A card that is on the page already is not drawn again.
Render(cards, e) ==
  IF Contains(cards, e) THEN cards
  ELSE SubSeq(<<e>> \o cards, 1, Min({Cap, Len(cards) + 1}))

\* lastSeen is when the event was received, drawn or not.
Receive ==
  /\ es = "open"
  /\ wire # <<>>
  /\ wire' = Tail(wire)
  /\ LET m == Head(wire)
     IN  \/ /\ m.kind = "event"
            /\ lastSeen' = Millis(clock)
            /\ page' = Render(page, m.what)
            /\ UNCHANGED badge
         \/ /\ m.kind = "waiting"
            /\ badge' = m.what
            /\ UNCHANGED <<lastSeen, page>>
  /\ UNCHANGED <<index, es, url, stream, hist>>

-----------------------------------------------------------------------------
(* The stream.                                                             *)

ResumeAfter == IF url = NoTime THEN Millis(clock) ELSE url

\* Plausible bug: the last count reported starts at zero.
NothingReportedZero == 0

NothingReported == NeverReported

Accept ==
  /\ es = "connecting"
  /\ es' = "open"
  /\ since' = ResumeAfter
  /\ from' = since'
  /\ lastWaiting' = NothingReported
  /\ UNCHANGED <<index, page, badge, url, lastSeen, wire, poll, sent, hist>>

\* The interval fires every three seconds, answered or not.
PollAsk(p) ==
  /\ es = "open"
  /\ poll[p] = Idle
  /\ poll' = [poll EXCEPT ![p] = [at |-> "asked", after |-> since]]
  /\ UNCHANGED <<index, client, wire, since, lastWaiting, from, sent, hist>>

\* Plausible bug: in the order of the query, newest first.
SendingOrderNewest(rows) == rows

\* Oldest first, so that each one is drawn above the last.
SendingOrder(rows) == Reverse(rows)

PollRead(p) ==
  /\ poll[p].at = "asked"
  /\ LET rows == FeedOf(poll[p].after)
     IN  poll' = [poll EXCEPT ![p] =
           IF rows = <<>> THEN [at |-> "quiet"]
           ELSE [at |-> "sending", left |-> SendingOrder(rows), newest |-> rows[1]]]
  /\ UNCHANGED <<index, client, wire, since, lastWaiting, from, sent, hist>>

Sent(e) ==
  /\ sent' = sent \cup {e}
  /\ late' = (late \/ OverLimit(e))

\* The end of a poll: what waits on the dock, when it has changed.
Report(p, events) ==
  /\ wire' = wire \o events \o (IF count = lastWaiting THEN <<>> ELSE <<Badge(count)>>)
  /\ lastWaiting' = count
  /\ poll' = [poll EXCEPT ![p] = Idle]

PollQuiet(p) ==
  /\ poll[p].at = "quiet"
  /\ Len(wire) < MaxWire
  /\ Report(p, <<>>)
  /\ UNCHANGED <<index, client, since, from, sent, hist>>

\* Names and subjects are asked for again before every event; the last one
\* is followed by the new since and the badge without another await.
PollSend(p) ==
  /\ poll[p].at = "sending"
  /\ Len(poll[p].left) > 1
  /\ Len(wire) < MaxWire
  /\ wire' = Append(wire, Event(Head(poll[p].left)))
  /\ Sent(Head(poll[p].left))
  /\ poll' = [poll EXCEPT ![p].left = Tail(@)]
  /\ UNCHANGED <<index, client, since, lastWaiting, from, faults>>

\* Plausible bugs: the time of the poll rather than of the newest event, or
\* that time rounded up to the millisecond.
ResumePointNow(newest) == Millis(clock)
ResumePointRounded(newest) == Millis(log[newest] + Milli - 1)

ResumePoint(newest) == Millis(log[newest])

PollSendLast(p) ==
  /\ poll[p].at = "sending"
  /\ Len(poll[p].left) = 1
  /\ Len(wire) + 1 < MaxWire
  /\ since' = ResumePoint(poll[p].newest)
  /\ Report(p, <<Event(Head(poll[p].left))>>)
  /\ Sent(Head(poll[p].left))
  /\ UNCHANGED <<index, client, from, faults>>

\* Any of a poll's queries fails: the poll is dropped, the stream is not.
PollFail(p) ==
  /\ poll[p].at \in {"asked", "sending"}
  /\ faults < MaxFaults
  /\ faults' = faults + 1
  /\ poll' = [poll EXCEPT ![p] = Idle]
  /\ UNCHANGED <<index, client, wire, since, lastWaiting, from, sent, late>>

-----------------------------------------------------------------------------
Init ==
  /\ clock = 0 /\ log = <<>> /\ landed = 0 /\ count = 0
  /\ page = <<>> /\ badge = 0 /\ es = "closed" /\ url = NoTime /\ lastSeen = NoTime
  /\ wire = <<>> /\ since = NoTime /\ from = NoTime /\ sent = {}
  /\ lastWaiting = NeverReported /\ poll = [p \in Polls |-> Idle]
  /\ late = FALSE /\ faults = 0

Poll(p) == PollRead(p) \/ PollQuiet(p) \/ PollSend(p) \/ PollSendLast(p)

Next ==
  \/ Tick \/ Observe \/ Land \/ DockChanges
  \/ Load \/ Connect \/ Disconnect \/ Break \/ Receive \/ Accept
  \/ \E p \in Polls : PollAsk(p) \/ Poll(p) \/ PollFail(p)

Spec == Init /\ [][Next]_vars

\* The event loop fires the interval, an index answers or fails, and what is
\* sent on a connection that stays up is received.
FairSpec ==
  /\ Spec
  /\ WF_vars(Receive)
  /\ \A p \in Polls : WF_vars(PollAsk(p)) /\ WF_vars(Poll(p))

-----------------------------------------------------------------------------
(* Properties.                                                             *)

Cards == 1 .. MaxEvents

\* A stream that has moved past an event it was to send has sent it: `since`
\* never overtakes an event that was not delivered, although it drops below
\* the millisecond, overlapping polls set it in any order, and a poll may
\* fail between two events (app.ts 366-409).
NoneSkipped ==
  es = "open" =>
    \A e \in 1 .. landed :
      from < log[e] /\ log[e] <= since => e \in sent \/ OverLimit(e)

\* No event has two cards, and no card stands above a newer one, although
\* every poll sends its newest event again, overlapping polls send the same
\* ones and a broken stream starts over (app.ts 371-384, views.ts 1855-1866).
\* Not promised once a poll is so slow that Limit newer events can be read
\* when it sends: another poll, or a cap, may have left it behind.
NewestOnTop ==
  \/ late
  \/ \A i, j \in 1 .. Len(page) : i < j => page[i] > page[j]

\* An event that lands after the stream began is drawn while the stream is
\* up, transient errors of the index notwithstanding (app.ts 407-409).
EveryEventIsDrawn ==
  \A e \in Cards :
    (es = "open" /\ e <= landed /\ from < log[e])
      ~> (Contains(page, e) \/ OverLimit(e) \/ es # "open")

\* The badge comes to show what waits on the dock, zero included, for a page
\* rendered while something waited (app.ts 351-354, 402-406).
BadgeIsRight ==
  \A n \in 0 .. MaxCount :
    (es = "open" /\ count = n) ~> (badge = n \/ count # n \/ es # "open")
=============================================================================
