------------------------------ MODULE Activity ------------------------------
(***************************************************************************)
(* The activity generator of the web service (web/activity.ts), the dock   *)
(* it fills (web/dock.ts), and the routes that drive both (web/app.ts: the *)
(* feed stream that counts viewers, /attest and /inbox/clear).             *)
(*                                                                         *)
(* One JavaScript process: what runs between two awaits is one action.     *)
(* What can overlap is everything else - a tick waiting for the narrator   *)
(* or the PDS, the seeding of a backlog, a timer that has fired, a visitor *)
(* coming, leaving or publishing a check of their own.                     *)
(***************************************************************************)
EXTENDS Dock

CONSTANTS
  Issuers,          \* organizations that sign releases: stations, manufacturers
  Recipients,       \* those that can be sent a part: all but manufacturers
  Viewers,          \* browser tabs
  ActingAs,         \* tab -> the organization it looks as, or Nobody
  Nobody,
  Timers            \* timer ids: enough for every chain that can be running

CONSTANTS
  BacklogSize,      \* releases seeded when the first viewer arrives
  PendingCap,       \* length of the queue of parts to be checked
  InServiceCap,     \* length of the list of parts that may come back
  MaxVisits         \* a part's history stops growing here

CONSTANTS
  MaxReleases,      \* bound: releases written
  MaxJoins,         \* bound: streams opened
  MaxPosts,         \* bound: checks published by visitors
  MaxFaults,        \* bound: writes the generator takes for failed
  EarlyClose        \* may a tab be closed before its stream is open?

Orgs    == Issuers \cup Recipients
Seed    == 0                  \* the job that writes the backlog
NoTimer == 0
Jobs    == Timers \cup {Seed}
Release == 1 .. MaxReleases

\* The roster is large enough that somebody else can always sign or receive.
ASSUME ActivityAssumption ==
  /\ \A h \in Recipients : Issuers \ {h} # {}
  /\ \A h \in Issuers : Recipients \ {h} # {}
  /\ Nobody \notin Orgs
  /\ ActingAs \in [Viewers -> Orgs \cup {Nobody}]
  /\ Timers \subseteq Nat \ {0}
  /\ IsFiniteSet(Timers) /\ Cardinality(Timers) > MaxJoins
  /\ {BacklogSize, MaxJoins, MaxPosts, MaxFaults} \subseteq Nat
  /\ {MaxReleases, PendingCap, InServiceCap, MaxVisits, DockCap} \subseteq Nat \ {0}
  /\ EarlyClose \in BOOLEAN

VARIABLES
  tab,              \* tab -> where its feed stream is
  promised,         \* organizations owed a crate, first come first served
  pending,          \* releases whose recipient will check them, oldest first
  inService,        \* parts that may come back
  parts,            \* part, named by its first release -> its newest, its visits
  seeded, seeding,  \* was the backlog begun; is it being written
  timer,            \* this.timer: the timer set last, or NoTimer
  armed,            \* timers the event loop will still fire
  job,              \* a fired timer's tick, or Seed -> what it waits for
  plan              \* what is left of the backlog, and what of it was issued

VARIABLES
  dock,             \* organization -> arrivals, newest first
  desk              \* tab -> the release whose check it is publishing, or 0

VARIABLES
  released,         \* history: the releases on the PDS, in order
  checks,           \* history: release -> attestations the generator wrote of it
  dealt,            \* history: releases with an attestation whose author was told
  early,            \* history: those of them last dealt with before the hand-over
  joins, posts, errors,
  overlaps,         \* history: timers set by a joining tab beside running work
  unwatched         \* history: has a tick begun with no tab there

stock  == <<promised, pending, inService, parts>>
clock  == <<seeded, seeding, timer, armed>>
work   == <<job, plan>>
floor  == <<dock, desk, posts>>
said   == <<checks, dealt, early>>
world  == <<released, said, errors>>
vars   == <<tab, joins, stock, clock, work, floor, world, overlaps, unwatched>>

Idle     == [at |-> "idle"]
Planned  == [at |-> "planned"]
Nothing  == [at |-> "nothing"]
Working  == \E j \in Jobs : job[j] # Idle

\* this.viewers: the streams the service has not seen end.
Counted  == {v \in Viewers : tab[v] \in {"open", "ghost"}}

\* The tabs that are really there.
Present  == {v \in Viewers : tab[v] \in {"asking", "open"}}

----------------------------------------------------------------------------
(* Timers.                                                                 *)

\* setTimeout answers with an id of its own.  One that has fired, and whose tick
\* is over, can be used again: whoever sets a timer forgets the one before.
FreshTimer(over) ==
  CHOOSE t \in Timers : t \notin armed /\ (job[t] = Idle \/ t \in over)

\* schedule with somebody watching: the timer set before is forgotten, and only
\* a caller that cleared it has stopped it.
SetTimer(cleared, over) ==
  /\ timer' = FreshTimer(over)
  /\ armed' = (armed \ cleared) \cup {FreshTimer(over)}

\* Mutant: the next tick is scheduled whether or not anybody watches.
ScheduleUnwatched(over) == SetTimer({}, over)

Schedule(over) ==
  IF Counted # {} THEN SetTimer({}, over) ELSE UNCHANGED <<timer, armed>>

\* Mutants: the old timer goes on running; no new one is set.
HurryBeside(owed) ==
  IF seeding \/ owed = << >> \/ timer = NoTimer THEN UNCHANGED <<timer, armed>>
  ELSE SetTimer({}, {})
HurryForgets(owed) ==
  IF seeding \/ owed = << >> \/ timer = NoTimer THEN UNCHANGED <<timer, armed>>
  ELSE armed' = armed \ {timer} /\ timer' = NoTimer

\* hurry: bring the next tick forward for somebody who is owed a crate.
Hurry(owed) ==
  IF seeding \/ owed = << >> \/ timer = NoTimer THEN UNCHANGED <<timer, armed>>
  ELSE SetTimer({timer}, {})

\* Mutant: the timer is forgotten and not cleared.
StopForgets == timer' = NoTimer /\ seeding' = FALSE /\ UNCHANGED armed

\* stop: the timer is cleared; work under way is not.
Stop ==
  /\ armed' = armed \ {timer}
  /\ timer' = NoTimer
  /\ seeding' = FALSE

----------------------------------------------------------------------------
(* How an event begins.                                                    *)

\* The bound on releases, counting those being written.
CanIssue ==
  Len(released) + Cardinality({j \in Jobs : job[j].at \in {"composing", "writing"}})
    < MaxReleases

\* Mutant: whoever is owed a crate is taken off the list and gets nothing.
BeginIssueAnyone(j, queue) ==
  /\ promised' = IF queue = << >> THEN queue ELSE Tail(queue)
  /\ \E by \in Issuers : \E to \in Recipients \ {by} :
       job' = [job EXCEPT ![j] = [at |-> "composing", to |-> to, part |-> 0]]

\* issue, up to the narrator's answer.  The first promise that can be kept
\* decides who receives, and those before it are dropped.  A station may take
\* back a part in service.  Who signs matters no further.
BeginIssue(j, queue) ==
  LET able  == {i \in DOMAIN queue : queue[i] \in Recipients}
      first == CHOOSE i \in able : \A k \in able : i <= k
      owed  == IF able = {} THEN Nobody ELSE queue[first]
  IN  /\ promised' = IF able = {} THEN << >>
                     ELSE SubSeq(queue, first + 1, Len(queue))
      /\ \E by \in Issuers \ {owed} :
         \E to \in IF owed = Nobody THEN Recipients \ {by} ELSE {owed} :
         \E part \in {0} \cup (IF by \in Recipients THEN ToSet(inService) ELSE {}) :
           job' = [job EXCEPT ![j] = [at |-> "composing", to |-> to, part |-> part]]

\* Mutant: the part stays in the queue.
BeginCheckKeeps(j, r) ==
  /\ job' = [job EXCEPT ![j] = [at |-> "checking", release |-> r]]
  /\ UNCHANGED pending

\* attest, up to the PDS's answer: nothing else will check this part.
BeginCheck(j, r) ==
  /\ pending' = Without(pending, r)
  /\ job' = [job EXCEPT ![j] = [at |-> "checking", release |-> r]]

----------------------------------------------------------------------------
(* The feed stream.                                                        *)

\* GET /api/feed/stream looks up who the tab acts as before it opens a stream.
Ask(v) ==
  /\ tab[v] = "away"
  /\ joins < MaxJoins
  /\ joins' = joins + 1
  /\ tab' = [tab EXCEPT ![v] = "asking"]
  /\ UNCHANGED <<stock, clock, work, floor, world, overlaps, unwatched>>

\* The tab is closed meanwhile.  The abort handler is not there yet, and an
\* abort that has happened does not call one that comes later.
CloseEarly(v) ==
  /\ EarlyClose
  /\ tab[v] = "asking"
  /\ tab' = [tab EXCEPT ![v] = "lost"]
  /\ UNCHANGED <<joins, stock, clock, work, floor, world, overlaps, unwatched>>

\* Whoever finds nothing waiting is owed a crate, once.
Promise(h) ==
  IF h # Nobody /\ Waiting(dock, h) = 0 /\ ~Contains(promised, h)
  THEN Append(promised, h) ELSE promised

\* viewerJoined.  The first viewer starts the backlog with its oldest release,
\* or, when it was begun before, goes straight to what follows it; a later one
\* only hurries.
ViewerJoined(v) ==
  /\ tab[v] \in {"asking", "lost"}
  /\ tab' = [tab EXCEPT ![v] = IF @ = "asking" THEN "open" ELSE "ghost"]
  /\ LET owed == Promise(ActingAs[v]) IN
     \/ /\ Counted # {}
        /\ promised' = owed
        /\ Hurry(owed)
        /\ UNCHANGED <<seeded, seeding, work>>
     \/ /\ Counted = {}
        /\ ~seeded /\ BacklogSize > 0
        /\ seeded' = TRUE
        /\ seeding' = TRUE
        /\ BeginIssue(Seed, owed)
        /\ plan' = [left |-> BacklogSize - 1, issued |-> {}]
        /\ UNCHANGED <<timer, armed>>
     \/ /\ Counted = {}
        /\ seeded \/ BacklogSize = 0
        /\ promised' = owed
        /\ seeded' = TRUE
        /\ seeding' = FALSE
        /\ SetTimer({}, {})
        /\ UNCHANGED work
  /\ overlaps' = IF Working /\ timer' # timer THEN overlaps + 1 ELSE overlaps
  /\ UNCHANGED <<joins, pending, inService, parts, floor, world, unwatched>>

\* The stream ends: the tab is closed, hidden or idle.
ViewerLeft(v) ==
  /\ tab[v] = "open"
  /\ tab' = [tab EXCEPT ![v] = "away"]
  /\ IF Counted = {v} THEN Stop ELSE UNCHANGED <<timer, armed, seeding>>
  /\ UNCHANGED <<joins, stock, seeded, work, floor, world, overlaps, unwatched>>

----------------------------------------------------------------------------
(* One tick, and the backlog, from one await to the next.                  *)

\* How the work of a job ends, with its write or with an error: a tick lets
\* the next one be scheduled, the backlog goes on with its plan.
Finish(j) ==
  IF j = Seed
  THEN job' = [job EXCEPT ![j] = Planned] /\ UNCHANGED <<timer, armed>>
  ELSE job' = [job EXCEPT ![j] = Idle] /\ Schedule({j})

\* A timer fires.
Tick(t) ==
  /\ t \in armed
  /\ armed' = armed \ {t}
  /\ unwatched' = (unwatched \/ Present = {})
  /\ \/ /\ promised = << >>
        /\ pending # << >>
        /\ BeginCheck(t, Head(pending))
        /\ UNCHANGED promised
     \/ /\ CanIssue
        /\ BeginIssue(t, promised)
        /\ UNCHANGED pending
  /\ UNCHANGED <<tab, joins, inService, parts, seeded, seeding, timer, plan, floor,
                 world, overlaps>>

\* Only under the bound: the tick finds nothing to release, as with a roster that
\* has nobody to sign, and is over.
TickAtBound(t) ==
  /\ t \in armed
  /\ ~CanIssue
  /\ armed' = armed \ {t}
  /\ job' = [job EXCEPT ![t] = Nothing]
  /\ unwatched' = (unwatched \/ Present = {})
  /\ UNCHANGED <<tab, joins, stock, seeded, seeding, timer, plan, floor, world,
                 overlaps>>

Rest(t) ==
  /\ job[t] = Nothing
  /\ Finish(t)
  /\ UNCHANGED <<tab, joins, stock, seeded, seeding, plan, floor, world, overlaps,
                 unwatched>>

\* The backlog's next step; which of its parts were checked long ago, and in
\* what order the dates put the steps, is left open.
SeedNext ==
  /\ job[Seed] = Planned
  /\ Counted # {}
  /\ \/ /\ plan.left > 0
        /\ CanIssue
        /\ BeginIssue(Seed, promised)
        /\ plan' = [plan EXCEPT !.left = @ - 1]
        /\ UNCHANGED pending
     \/ \E r \in plan.issued :
          /\ BeginCheck(Seed, r)
          /\ plan' = [plan EXCEPT !.issued = @ \ {r}]
          /\ UNCHANGED promised
  /\ UNCHANGED <<tab, joins, inService, parts, clock, floor, world, overlaps, unwatched>>

\* The plan is through, or nobody watches any more.
SeedDone ==
  /\ job[Seed] = Planned
  /\ plan.left = 0 \/ ~CanIssue \/ Counted = {}
  /\ job' = [job EXCEPT ![Seed] = Idle]
  /\ plan' = [left |-> 0, issued |-> {}]
  /\ seeding' = FALSE
  /\ Schedule({Seed})
  /\ UNCHANGED <<tab, joins, stock, seeded, floor, world, overlaps, unwatched>>

\* The narrator has answered, and the release is sent.  Its predecessor is the
\* part's newest release now, not when the part was chosen.
Compose(j) ==
  /\ job[j].at = "composing"
  /\ job' = [job EXCEPT ![j] =
               [at |-> "writing", to |-> @.to, part |-> @.part,
                prev |-> IF @.part = 0 THEN 0 ELSE parts[@.part].newest]]
  /\ UNCHANGED <<tab, joins, stock, clock, plan, floor, world, overlaps, unwatched>>

\* Mutant: off by one.
CappedLate(list, cap) == IF Len(list) > cap + 1 THEN Tail(list) ELSE list

\* A list that drops its oldest entry past its cap.
Capped(list, cap) == IF Len(list) > cap THEN Tail(list) ELSE list

\* Mutant: what a further visit points at is not moved on.
ServicedStale(part, r) ==
  IF part # 0 THEN UNCHANGED <<parts, inService>>
  ELSE /\ parts' = [parts EXCEPT ![r] = [newest |-> r, visits |-> 1]]
       /\ inService' = Capped(Append(inService, r), InServiceCap)

\* The part has a newest release: a new part goes into service, one that has
\* made its last visit leaves it.
Serviced(part, r) ==
  IF part = 0
  THEN /\ parts' = [parts EXCEPT ![r] = [newest |-> r, visits |-> 1]]
       /\ inService' = Capped(Append(inService, r), InServiceCap)
  ELSE /\ parts' = [parts EXCEPT ![part] = [newest |-> r, visits |-> @.visits + 1]]
       /\ inService' = IF parts[part].visits + 1 >= MaxVisits
                       THEN Without(inService, part) ELSE inService

\* The PDS writes the release: it is public, and its writer is not told yet.
PdsWrites(j) ==
  /\ job[j].at = "writing"
  /\ released' = Append(released, [prev |-> job[j].prev, told |-> FALSE])
  /\ job' = [job EXCEPT ![j] = [at |-> "written", to |-> @.to, part |-> @.part,
                               release |-> Len(released) + 1]]
  /\ UNCHANGED <<tab, joins, stock, clock, plan, floor, said, errors, overlaps,
                 unwatched>>

\* Releases whose writer still waits for the answer of the PDS.
Unanswered == {job[j].release : j \in {k \in Jobs : job[k].at = "written"}}

\* createRelease is answered: the part is handed over with its paperwork, and
\* perhaps queued to be checked by whoever received it - whatever a visitor has
\* published of it meanwhile.
Written(j) ==
  LET w == job[j]
      r == w.release
  IN  /\ w.at = "written"
      /\ released' = [released EXCEPT ![r].told = TRUE]
      /\ Serviced(w.part, r)
      /\ dock' = HandOver(dock, w.to, r)
      /\ \/ UNCHANGED <<pending, plan>>
         \/ /\ pending' = Capped(Append(pending, r), PendingCap)
            /\ plan' = IF j = Seed THEN [plan EXCEPT !.issued = @ \cup {r}] ELSE plan
      /\ Finish(j)
      /\ UNCHANGED <<tab, joins, promised, seeded, seeding, desk, posts, said,
                     errors, overlaps, unwatched>>

\* An attestation of r is out and its author was told - before the part was
\* handed over, or after.
DealWith(r) ==
  /\ dealt' = dealt \cup {r}
  /\ early' = IF r \in Unanswered THEN early \cup {r} ELSE early \ {r}

\* Mutant: the docks are not told.
CheckedQuietly(j) ==
  /\ job[j].at = "checking"
  /\ LET r == job[j].release IN
     /\ checks' = [checks EXCEPT ![r] = @ + 1]
     /\ DealWith(r)
  /\ Finish(j)
  /\ UNCHANGED <<tab, joins, stock, seeded, seeding, plan, floor, released, errors,
                 overlaps, unwatched>>

\* createAttestation is answered, and the part is off every dock.
Checked(j) ==
  /\ job[j].at = "checking"
  /\ LET r == job[j].release IN
     /\ checks' = [checks EXCEPT ![r] = @ + 1]
     /\ DealWith(r)
     /\ dock' = Settle(dock, r)
  /\ Finish(j)
  /\ UNCHANGED <<tab, joins, stock, seeded, seeding, plan, desk, posts, released,
                 errors, overlaps, unwatched>>

\* The PDS refuses, or cannot be reached, or has written the record and its
\* answer is lost: all one error, counted and not tried again.
WriteFails(j) ==
  /\ job[j].at \in {"writing", "written", "checking"}
  /\ errors < MaxFaults
  /\ errors' = errors + 1
  /\ \/ UNCHANGED checks
     \/ /\ job[j].at = "checking"
        /\ checks' = [checks EXCEPT ![job[j].release] = @ + 1]
  /\ Finish(j)
  /\ UNCHANGED <<tab, joins, stock, seeded, seeding, plan, floor, released, dealt, early,
                 overlaps, unwatched>>

----------------------------------------------------------------------------
(* A visitor at the dock.                                                  *)

\* POST /attest, for any release on the network, up to the PDS's answer.  Only a
\* document that waits on the organization's own dock is verified first.
PostCheck(v, r) ==
  /\ posts < MaxPosts
  /\ ActingAs[v] # Nobody
  /\ desk[v] = 0
  /\ posts' = posts + 1
  /\ desk' = [desk EXCEPT ![v] = r]
  /\ UNCHANGED <<tab, joins, stock, clock, work, dock, world, overlaps, unwatched>>

\* The document verified, if there was one, and the attestation was written.
CheckPublished(v) ==
  /\ desk[v] # 0
  /\ DealWith(desk[v])
  /\ dock' = Settle(dock, desk[v])
  /\ desk' = [desk EXCEPT ![v] = 0]
  /\ UNCHANGED <<tab, joins, stock, clock, work, posts, released, checks, errors,
                 overlaps, unwatched>>

\* It did not verify, or writing ended in an error.
CheckRefused(v) ==
  /\ desk[v] # 0
  /\ desk' = [desk EXCEPT ![v] = 0]
  /\ UNCHANGED <<tab, joins, stock, clock, work, dock, posts, world, overlaps,
                 unwatched>>

\* POST /inbox/clear, only of what waits for the tab's organization.  Nothing is
\* said of it in public, and one dealt with too early is off the dock as well.
ClearArrival(v, r) ==
  /\ ActingAs[v] # Nobody
  /\ Arrival(dock, ActingAs[v], r)
  /\ dock' = Settle(dock, r)
  /\ early' = early \ {r}
  /\ UNCHANGED <<tab, joins, stock, clock, work, desk, posts, released, checks, dealt,
                 errors, overlaps, unwatched>>

----------------------------------------------------------------------------
Init ==
  /\ tab = [v \in Viewers |-> "away"]
  /\ promised = << >>
  /\ pending = << >>
  /\ inService = << >>
  /\ parts = [r \in Release |-> [newest |-> 0, visits |-> 0]]
  /\ seeded = FALSE
  /\ seeding = FALSE
  /\ timer = NoTimer
  /\ armed = {}
  /\ job = [j \in Jobs |-> Idle]
  /\ plan = [left |-> 0, issued |-> {}]
  /\ dock = [h \in Orgs |-> << >>]
  /\ desk = [v \in Viewers |-> 0]
  /\ released = << >>
  /\ checks = [r \in Release |-> 0]
  /\ dealt = {}
  /\ early = {}
  /\ joins = 0
  /\ posts = 0
  /\ errors = 0
  /\ overlaps = 0
  /\ unwatched = FALSE

Visitor ==
  \/ \E v \in Viewers : Ask(v) \/ CloseEarly(v) \/ ViewerLeft(v)
  \/ \E v \in Viewers, r \in DOMAIN released : PostCheck(v, r) \/ ClearArrival(v, r)
  \/ \E v \in Viewers : CheckPublished(v) \/ CheckRefused(v)

Timeout(t) == Tick(t) \/ TickAtBound(t)

Advance(j) == Compose(j) \/ PdsWrites(j) \/ Written(j) \/ Checked(j) \/ WriteFails(j) \/ Rest(j)

SeedRuns == SeedNext \/ SeedDone

Next ==
  \/ Visitor
  \/ \E v \in Viewers : ViewerJoined(v)
  \/ \E t \in Timers : Timeout(t)
  \/ \E j \in Jobs : Advance(j)
  \/ SeedRuns

Spec == Init /\ [][Next]_vars

\* The event loop fires every timer, every awaited answer or error arrives, and
\* a requested stream opens.  No visitor has to do anything.
FairSpec ==
  /\ Spec
  /\ \A v \in Viewers : WF_vars(ViewerJoined(v))
  /\ \A t \in Timers : WF_vars(Timeout(t))
  /\ \A j \in Jobs : WF_vars(Advance(j))
  /\ WF_vars(SeedRuns)

----------------------------------------------------------------------------
(* Properties.                                                             *)

\* Type invariant.
TypeOK ==
  /\ tab \in [Viewers -> {"away", "asking", "lost", "open", "ghost"}]
  /\ promised \in Seq(Orgs) /\ pending \in Seq(Release) /\ inService \in Seq(Release)
  /\ parts \in [Release -> [newest : 0 .. MaxReleases, visits : Nat]]
  /\ {seeded, seeding, unwatched} \subseteq BOOLEAN
  /\ timer \in Timers \cup {NoTimer}
  /\ armed \subseteq Timers
  /\ DOMAIN job = Jobs
  /\ plan.left \in 0 .. BacklogSize /\ plan.issued \subseteq Release
  /\ \A h \in Orgs : dock[h] \in Seq(Release) /\ Len(dock[h]) <= DockCap
  /\ desk \in [Viewers -> 0 .. MaxReleases]
  /\ Len(pending) <= PendingCap /\ Len(inService) <= InServiceCap
  /\ Len(released) <= MaxReleases

\* What will write again: a timer that will fire, or work under way.
Chains == {<<"timer", t>> : t \in armed}
            \cup {<<"work", j>> : j \in {k \in Jobs : job[k] # Idle}}

\* While a viewer is counted the generator always has a next event: no failed
\* write, hurried timer or rejoin leaves it silent (schedule in every finally).
NeverStalls == Counted # {} => Chains # {}

\* A second chain of events begins only when a tab joins while a write or the
\* backlog is under way (viewerJoined and hurry beside a tick in flight), and
\* each such join adds at most one.
ChainsAccounted == Cardinality(Chains) <= 1 + overlaps

\* With no such join, and no tab lost on its way to a stream, a tick begins only
\* while a tab is there: stop clears the one timer there is.
IdlesWithoutOverlap ==
  unwatched => overlaps > 0 \/ \E v \in Viewers : tab[v] \in {"lost", "ghost"}

\* With a single chain, two releases of a part continue from the same release
\* only when the answer to the first of them was lost: a part's history is a line.
HistoriesDoNotFork ==
  overlaps = 0 =>
    \A i, k \in DOMAIN released :
      i < k /\ released[i].prev # 0 /\ released[i].prev = released[k].prev
        => ~released[i].told

\* With a single chain the generator says of a release at most once that it was
\* checked, though the queue and the backlog's plan both name it.
CheckedOnce == overlaps = 0 => \A r \in Release : checks[r] <= 1

\* A release waits on one dock at most; and one that somebody was told they had
\* attested waits on none, whoever it waited for and whatever was handed over in
\* between (app.ts:1103-1106) - unless it was attested between the PDS's write and
\* its answer to the writer, who then hands over a part that was dealt with.
DealtWithIsGone ==
  \A r \in Release, h \in Orgs :
    Arrival(dock, h, r) =>
      /\ r \in dealt => r \in early
      /\ \A g \in Orgs \ {h} : ~Arrival(dock, g, r)

\* An organization that is owed a crate gets one, if somebody keeps watching and
\* no write fails; under the bound it may go on waiting.
PromiseKept ==
  \A h \in Recipients :
    <>[](Counted # {}) =>
      (Contains(promised, h)
         ~> Waiting(dock, h) > 0 \/ errors > 0 \/ (Contains(promised, h) /\ ~CanIssue))

\* When everybody has left for good, every leaked chain runs out.
Quiesces == <>[](Counted = {}) => <>[](Chains = {})
=============================================================================
