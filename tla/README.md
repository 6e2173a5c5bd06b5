# offwing in TLA+

offwing publishes FAA Form 8130-3 releases as records on atproto. An
organization signs a form into its own repository; whoever receives the part
attests what they found; observers index what everybody published and can be
checked against it. This directory models the parts of that system in which
order, failure and time decide whether it is right. Everything is translated
from the source; `PROJECT.json` names, for each definition, the lines it models.

    tlc -workers 2 -config MCIngest.cfg MCIngest     # any cfg with its MC module
    tlapm IngestProofs.tla                           # any ...Proofs module

## 1. The system

| part | source | state it keeps | operations |
|---|---|---|---|
| Ingest consumer | `ingest/consumer.go`, `backfill.go`, `record.go`, `cmd/ingest/main.go` | position on the connection; repositories asked for a profile | connect, verify and handle a commit, backfill a profile, apply, reconnect, restart, reindex |
| Ingest store | `ingest/store.go`, `schema.sql` | PostgreSQL: `release`, `attestation`, `actor`, `ingest_cursor` | one transaction per commit; reset; queries for the watchdog and tests |
| Web index reads | `web/src/postgres.ts`, `memory-index.ts` | none (reads the tables) | feed, chain, accounts, related accounts |
| Feed stream | `web/src/app.ts` 324-424, `views.ts` 1834-1915 | per stream: `since`, `lastWaiting`, polls; per page: cards, `lastSeen`, the EventSource | poll, send, draw, leave, resume |
| Activity generator | `web/src/activity.ts` | viewers, timer, backlog, queues, parts in service | viewerJoined/Left, schedule, hurry, stop, tick, issue, attest |
| Receiving dock | `web/src/dock.ts` | arrivals per organization | handOver, awaiting, arrival, settle |
| Web routes | `web/src/app.ts` | a cookie in the browser; what its tabs still show | issue, verify, disclose, form, attest, inbox, act-as |
| Configuration | `web/src/config.ts`, `mode.ts`, `index.ts` | the mode a process booted in | loadConfig, resolveMode, main |
| Record writer | `web/src/writer.ts` | none: signs in anew for each write; the demonstration's one keeps its network and its index | createRelease, createAttestation |
| Verification pipeline | `core/src/verify/pipeline.ts` | none | verifyBundle's stages, walk of a part's history |
| Verification ports | `core/src/verify/atproto.ts`, `memory.ts` | none (the network) | resolve, fetch a record with its proof |
| Commitment, disclosure | `core/src/commitment.ts`, `disclosure.ts`, `bundle.ts`; `commitment/*.go` | none | Merkle tree over 17 fields, proofs, partial bundles; a Go twin |
| Watchdog | `watchdog/src/db.ts` | none | issuer coverage, cloned serials, dangling links |
| Seed job | `seed/src/index.ts` | what it has written so far | provision, clear, publish |

How they interact:

    PDS repositories --firehose--> ingest --tables--> web index reads --> feed stream --> page
         ^  ^                                   \--> watchdog                             |
         |  +--- record writer <--- activity generator <---- viewerJoined/viewerLeft -----+
         |                              | handOver / settle
         +--- /issue, /attest       receiving dock <--- /attest, /inbox/clear, count (badge)

Go's ingest service is one goroutine over one connection and a database. The
web service is one JavaScript process: what runs between two awaits cannot be
interrupted, everything else overlaps. The two share only the tables.

What is hard in it, and what makes each part right:

- **Ingest**: crashes between any two statements, lost connections, redelivery
  of the last event, an identity directory that answers an old key, records
  re-created, rewritten or duplicated at other URIs, a profile fetched ahead of
  the log. Right means: the tables are a view of what was signed; the cursor
  never claims what was not done; rebuilding gives the same view; what was
  learnt first is kept; whatever is signed gets in.
- **Activity**: a timer chain that several callers restart, a backlog written
  while tabs come and go, writes that fail or whose answer is lost. Right means:
  one chain of events while somebody watches, none when nobody does, histories
  that do not fork, parts checked once, promises kept, nothing dealt with left
  on a dock.
- **Feed**: polls that overlap and fail half way, timestamps that lose
  precision between a database, a server and a browser, pages that pause and
  resume. Right means: nothing passed by, nothing drawn twice or out of order,
  a badge that settles on the truth.
- **Verification**: several questions to a network that changes between any two
  of them, and may not answer. Right means: what verifies was signed and
  published by whom it names, a history is a path of such records, a report is
  whole whichever exit it took, and what is genuine verifies.
- **Commitment, disclosure**: pure but intricate, and applied again and again
  to a copy that is retyped, cut down and passed on. Right means: a copy opens the
  root exactly if it says what was issued, a disclosed field is the committed
  one, and a withheld one cannot be guessed at.
- **Desk**: a browser that shows old pages and changes its viewpoint, two
  requests at once beside the generator, writes that fail, a restart. Right
  means: a crate leaves the list for a cause, an organization vouches for
  what it checked then, and production never invents a network.
- **Reads, watchdog**: numbers over joins, written twice. Right means: a count is of
  what its heading says, the in-memory twin answers like PostgreSQL, and a
  history that stops short is one the watchdog knows of.
- **Seed**: a long script of remote calls, any of which may be the last. Right
  means: nothing stands twice, and what is called complete is whole.

## 2. Modules

| module | models | composes / used by |
|---|---|---|
| `DerivedIndex` | abstract: an index that is a view of published commits | refined by `Ingest` |
| `Ingest` | the ingest service, its database, the PDS and the directory | `MCIngest`, `IngestProofs` |
| `Dock` | the receiving dock, as operators on a map | extended by `Activity` and `Desk` |
| `Activity` | the generator, its dock, the stream as a viewer, two routes | `MCActivity`, `ActivityProofs` |
| `Feed` | the feed query, the stream's polling, the page's script | `MCFeed`, `FeedProofs` |
| `Commitment` | normalization, the Merkle tree, proofs, bundles, as operators | extended by `Disclosure` |
| `Disclosure` | a document from issue to a recipient's check of a part of it | `MCDisclosure`, `DisclosureProofs` |
| `Verify` | the pipeline and both its ports on a changing network | `MCVerify`, `VerifyProofs` |
| `Desk` | booting, viewpoints, the routes that write | `MCDesk`, `DeskProofs` |
| `Reads` | both indexes, the questions asked of them, the watchdog's | `MCReads`, `ReadsProofs` |
| `Seed` | the seed job over the real cast and script | `MCSeed`, `SeedProofs` |
| `...Proofs` | theorems about the module of that name, which each extends | |

### Ingest

`log` is the firehose: commit number s is `log[s]`, with its repository, the key
that signed it (`NoKey`: a signature that never verifies) and its operations.
`held` is what repositories hold, `key` what their DID documents name, `dirKey`
what the directory answers, which may lag. `rows`, `profile` and `cursor` are
the tables; `tx` is the tables as the open transaction sees them. `phase`, `pos`,
`asked` are the process.

One action per step of the code: `Start` (main: Migrate, Reset for reindex, Run),
`Connect` (subscribeURL), `HandleCommit` (verification, up to the decision),
`BackfillProfile` (backfillProfile and BEGIN), `ApplyRecord` once per operation,
`ApplyFails` (UNIQUE (uri)), `ApplyBackfilled`, `CommitTx` (cursor and COMMIT
together), and the ways to stop: `Disconnect` and `Crash` at any phase. The
environment publishes, relays commits nobody signed, rotates keys and lets the
directory catch up. A record is a model value, its CID; a release names its
issuer (`IssuerDID`), and the records of any collection that do not decode are `Malformed`: an
unreadable release is no row, and an unreadable profile leaves the one before it shown
(`Believable`, `HasStation`). `forgotten` is how much of the log the server has stopped
replaying (`DropOldest`); what a consumer then never gets goes to `missed`. Time is the length
of the log, which is all that "observed earlier" depends on.

Left out: wording, handles (resolved again for every commit; they decide
nothing), the content of forms, and how long the backoff is. The backoff's delay
doubles at every disconnect and is never reset (`consumer.go:92`);
a model without real time cannot tell.

### Activity and Dock

One action per stretch of code between two awaits. `timer` is `this.timer`;
`armed` holds the timers that the event loop will still fire, so that a timer that
was overwritten and not cleared goes on living. `job` is what a fired timer's tick,
or the backlog (`Seed`), waits for: the narrator (`composing`), the PDS (`writing`,
`checking`), or its next step (`planned`). A release has two steps, since the record is public
before its writer hears of it: `PdsWrites` makes it so, `Written` is what the generator does with the
answer, and in between a visitor may find the release and attest it (`early` are those dealt
with before they were handed over). `tab` follows a browser tab from asking for
a stream to leaving it; `lost` and `ghost` are a tab closed before its stream's abort
handler was there, then counted for ever. A write that fails may have been written.
Odds (what to do next, who signs, what comes back) are choices. Organizations, and
releases numbered in order of publication, stand for their records.

Left out: dates, forms, misread documents, who signs when it makes no difference,
and `bundleFor`, which changes nothing.

### Feed

`clock` counts instants of the database; `Milli` of them are one instant of a
JavaScript Date. `log[e]` is when event e was observed, `landed` how many are committed.
`page`, `badge`, `lastSeen`, `url` and `es` are the page; `since`, `lastWaiting` and `poll`
the closure of its stream; `wire` what is sent and not received, lost with the
connection. A poll asks (`PollAsk`, with the `since` of that moment), is answered
(`PollRead`), and sends one event at a time (`PollSend`), since the names are awaited
before each; the last event, the new `since` and the badge go together
(`PollSendLast`). `Break` is the network's; an EventSource then opens the same URL
again. `Load` is a reload of the page.

One clock for browser and server is the case most favourable to the code. Event
times are distinct and in order because one ingest process stamps and commits one
commit after another. Left out: records deleted or re-dated while a page is open,
viewpoints, markup.

### Commitment and Disclosure

A value is its body (what it says) and its style (spaces, separators, case, zone: what
normalization undoes, refuses or brings about). Normalizing is not always idempotent in the
code, and so not here: `canonical.ts:40` composes marks before it strips separators and
makes capitals, and a mark that either sets loose (`Loosening`: "parted", "unfolding") is left beside its
letter, for the next pass to join; a timestamp whose offset carries it out of the years that
are read ("edge") is refused the second time. A hash is the term it was made from, so two hashes are
equal exactly when what was hashed is: everything holds up to collisions of SHA-256 and
ambiguities of CBOR, of which nothing is said. The field table is a constant; leaves are
padded to the next power of two, as in the code. `Disclosure` follows two releases:
`Issue`, `Retype` by the holder, `Disclose`, `Amend` and `Misfile` on the way (somebody
changes one thing, or hands it in for the other release), `CheckSlip` and `ShowForm`. The holder's
copy may change only between disclosures (`PutAway` ends one).

### Verify

One step per question put to the network (`ResolveHandle`, `ResolveDid`, `AskKeys`,
`AskProof`, and the walk's own order of the same), then what the code decides from the answer.
Between two steps organizations publish, rewrite, delete, rotate and move handles
(`Change`), and a question may fail (`Asked`, `MayFail`). `job` is the verification: the
document or reference, the stages so far, the walk's links. `job.quiet` and `job.claimed`
record what the network did meanwhile, for the properties. The instant at which keys are judged
is fixed where the code fixes it: after the identity for a document, before the first question for a
trace, after the proof for a record alone. `Ends` are the predecessors at which a walk says it
reached birth: none, and one without a URI in it (`pipeline.ts:682`). A CID is the record itself, a
proof is what the repository's head says with the key it is signed with. Verifications
share no state, so there is one.

### Desk

`env` is a deployment's environment, `proc` what main() made of it. `cookie` is the
browser's, `tabs` the pages it still shows; nothing redraws them, so a button may be
pressed long after. POST /attest is four steps (`Attest`, `AttestCheck`, `AttestWrite`,
`AttestAnswered`: what happens up to each await), two of them at once; the other routes
are one, as nothing they read before their await matters after it. The generator hands
parts over and attests to them, as in `Activity`, in one step each. `Restart` loses the dock and
the requests and boots again from the same environment; `PdsFlips` is the PDS going
away or coming back. `holds` stands for the whole of verifyBundle (module `Verify`); a document that stops
verifying (`Spoil`) does not start again, on which the proof of `CheckedBeforeSaid` relies.

### Reads

Releases and attestations go to `mem` by the demonstration's writer and, through `log`
and the ingest service, to `db`. Every query is an operator on one of them, translated once
from SQL and once from the loops over arrays, and both are asked in every state. A
release names its predecessor by CID only, since that is all that reads join on, and an attestation
any release that is public or on its way, or nothing there is (`Subjects`). `repo` and
a write's two steps are kept because the demonstration's repository is read before an await
and assigned after it.

### Seed

`Script` is everything main() publishes, computed from the cast and the lineages as the
source lists them; `pos` is the line it is at. Every call that changes the PDS is a step,
after any of which `Fail` may end the job; `Deploy` starts the next with another environment.
The web service signs into the same accounts; nothing of that is modelled, and the properties
are about what seed jobs published.

## 3. Runs

A bound is a constant named `Max...`, or the size of a set. CHECK_DEADLOCK is FALSE
everywhere: under the bounds the world may simply stop publishing.

| run | asks | bounds, and why they are enough |
|---|---|---|
| `ingest` | `NoCommitLost`, `RowsSigned`, `FirstLearntIsKept`, `RedeliveryIsNoOp`, refinement of `DerivedIndex` | two repositories, three commits of up to two operations, one fault, one rotation, one commit forgotten, updates and duplicates allowed, the cursor's event resent, two attestations as the records: one content at two URIs, a URI rewritten, a delete and re-create in one commit, a transaction that fails half way and one redelivered |
| `ingest_live` | `CaughtUpAgrees`, `ProfilesSigned`, `ReindexRebuilds`, `SignedCommitsGetIndexed` | one repository with a release, an attestation, two profiles, and a release and a profile that do not decode, a fault, a reindex, one commit forgotten: the backfill ahead of the log, an older profile left shown, a crash in a replay, a replay that starts late |
| `activity` | `NeverStalls`, `ChainsAccounted`, `IdlesWithoutOverlap`, `HistoriesDoNotFork`, `CheckedOnce` | two tabs, three releases, two joins, a fault: two chains, a part released again, queues at their cap |
| `activity_live` | `DealtWithIsGone`, `PromiseKept`, `Quiesces` | the same with a visitor's check, two releases: one attested before its writer is answered |
| `feed` | `NoneSkipped`, `NewestOnTop` | two polls of one stream, three events, a query of two, a page of two cards, five instants, two to the millisecond: a query that leaves one out, a card that is dropped, a resumption within a millisecond |
| `feed_live` | `EveryEventIsDrawn`, `BadgeIsRight` | two events, a badge of zero or one; with more events than the wire's bound a poll could starve on the bound alone |
| `disclosure` | `VerifiedIsCommitted`, `UntouchedVerifies`, `WithheldStaysShut`, `SameDocument` | two releases, five fields, one of each kind, so that five leaves are padded to eight; a retyping and an amendment, requests with doubles, out of order, unknown and empty, spellings that one normalization settles and three that it does not |
| `verify` | `ReportsAreWhole`, `VerifiedWasIssued`, `HistoriesHold`, `GenuineVerifies` | two organizations, three records of two parts, each after another, after nothing, after one elsewhere, one that cannot be read or one without a URI, a walk bounded by two (so that it can be cut short), one change to the network and one failure anywhere in a verification |
| `desk` | `LeavesForCause`, `CheckedBeforeSaid`, `ProductionStaysLive` | one part, two organizations, one tab, two requests at once, a restart and a change of the PDS, in four environments: production, a preview without a PDS, a clone of the repository, production by default. With one part the list never reaches its cap, which `LeavesForCause` allows for; two parts with a cap of one are beyond the time of a run |
| `reads` | `TwinsAgree`, `CoverageWithinTotal`, `PagesAgree`, `QuietPartsTrace` | three organizations, two parts, four releases with any predecessor, two attestations of any of them or of nothing, five records in all, a chain bound of two, a relation limit of one: ties at the limit, both sides of a link one organization, a fork, a dangling link, a history longer than the bound |
| `seed` | `SeededOnce`, `CompleteIsWhole` | four deployments, each with or without a reset, over all 29 organizations and the whole script: fail, fail clearing, complete, complete again |

One run looks for a counterexample, and finds one:

| run | what the source says | what the code does |
|---|---|---|
| `verify_blank` | a blank public field "is absent from the record, and the commitment is what says it was committed to as null" (`fields.ts:198`) | `pipeline.ts:393` compares what is absent with null: a genuine document with a blank public field fails. The instance of `verify` with such a document violates `GenuineVerifies` |

What else modelling turned up is listed in `PROJECT.json` under `findings`, by line. Those
that decided how a property is stated:

- A record rewritten in place stops the firehose (`store.go:165`); a rotated key empties a
  rebuild of what it signed (`consumer.go:178`). `ingest_live` is the instance without either
  (`RecordUpdates`, `MaxRotations`); `ingest` has both, and its safety properties hold.
- A server replays what it still has (`backfill.go:16`), while `schema.sql:3-4` speaks of every row.
  `NoCommitLost` lets the cursor pass what was gone when it was asked for, `ReindexRebuilds` and
  `CaughtUpAgrees` are about an index that missed nothing. A profile that does not decode leaves
  the last readable one shown (`consumer.go:324`), which is what `CaughtUpAgrees` says is shown.
- An identifier or a date that one normalization does not settle gives a document that does not
  open its own root (`canonical.ts:40`). `SameDocument` and `UntouchedVerifies` say for which
  spellings that is so (`Unsettled`), and that all others are safe.
- A part may be attested between the PDS's write and its answer, and is then put on a dock
  (`activity.ts:791`). `DealtWithIsGone` excepts just that, until it is attested or cleared again.
- A record that names a predecessor without a URI ends a history at its birth (`pipeline.ts:682`);
  `HistoriesHold` says of the last record of a history that it names no URI.
- A tab that returns during the backlog leaves two timers (`activity.ts:379`), and one that
  closes while its stream opens is counted for ever (`app.ts:423`). `ChainsAccounted`,
  `IdlesWithoutOverlap`, `HistoriesDoNotFork` and `CheckedOnce` say how far that reaches: each
  unwanted event goes back to a tab that joined while a write was under way, and each
  such join adds at most one chain. `Quiesces` is about chains once no tab is counted.
- A page resumes after the time it last received something (`views.ts:1875`), so an event that
  landed earlier is passed by across a pause. `NoneSkipped` is about one stream.
- The watchdog and `IssuerCoverage` count attestations where the web counts releases
  (`watchdog/db.ts:112`, `store.go:390`). `CoverageWithinTotal` asks of the web's three queries
  that they agree and never exceed the total, and of the other two that they know of a
  check exactly where the web does.
- Two orphans of the seed name a predecessor whose URI leads nowhere and whose CID is another
  part's birth (`seed/index.ts:424`). `CompleteIsWhole` follows URIs; `QuietPartsTrace` is about
  parts whose links stay within the part, and about the page the web draws of them: it gets to
  the part's one origin unless the part has more releases than the page's bound.
- A seed job that fails after its first release is never completed by a plain one
  (`seed/index.ts:366`); `CompleteIsWhole` is about jobs that say they are complete.

`NewestOnTop` is promised only while no poll is so slow that a whole query's worth of newer
events can be read when it sends; TLC shows that beyond that a slow poll can put an
old card on top, or draw again what the page's cap has dropped.

`TwinsAgree` is asked once every write is in both indexes, and of attestations made in
different seconds: two made in the same second of one release are one CID
(`store.go:203`), which each index resolves in its own way. `GenuineVerifies` is asked
of a network that keeps still and answers; the other three of `verify` of every network.

Each property of a passing run has a mutant in `PROJECT.json`: a definition changed the way a
plausible bug would change the code, under which the property fails. The mutated
forms stand beside the definitions they change.

### Fairness

- `Ingest`: weak fairness of what runs without anybody's help: the service manager restarts
  a dead process, Run reconnects, and a delivered commit is handled to its end. Faults are
  bounded, so none recurs for ever. Publishing, rotating and the directory's refresh are not
  fair.
- `Activity`: the event loop fires every timer, an awaited answer or error arrives, and a
  requested stream opens. No visitor has to do anything.
- `Feed`: the interval fires, the index answers (or fails, boundedly often), and what is sent on
  a connection that stays up is received. Nothing has to be published, and nobody has to
  stay.
- The other modules state no liveness. A seed job that fails is not started again by itself,
  a verification ends because its steps are bounded (`HistoriesHold`), and nothing obliges a
  visitor to press a button.

## 4. Proofs

Every theorem is about `Spec` of its module for every value of the constants that its named
assumption allows; no bound of a run appears in them. TLC evaluates each assumption on the
instances it checks. What a theorem states is the property of that name in the runs. Six theorems
have a hypothesis besides, which says where the code keeps the promise:

| theorem | hypothesis | without it |
|---|---|---|
| `CaughtUpIsRight` | `~RecordUpdates`, `~Duplicates` | an update in place stops the firehose, and a content at two URIs has one row (`store.go:165`) |
| `ReindexIsExact` | those, and `MaxRotations = 0` | a rebuild refuses what a key since rotated has signed (`consumer.go:178`) |
| `GenuinePasses` | `NothingBlank`; and `NoneIsNoAnswer`, that an answer is not the value that stands for none | the run `verify_blank` |
| `OneAnswer` | `~Collide`: no two attestations are the same bytes | each index keeps another of the two (`store.go:203`) |
| `NeverSeededTwice`, `CompletedWhole` | no deployment is told to write beside what is there | the code seeds twice, as it says (`seed/index.ts:366`) |

| module | theorem | property |
|---|---|---|
| `IngestProofs` | `TypeCorrect`, `NothingLost`, `OnlySignedRows`, `OnlySignedProfiles` | `TypeOK`, `NoCommitLost`, `RowsSigned`, `ProfilesSigned` |
| | `CaughtUpIsRight`, `ReindexIsExact` | `CaughtUpAgrees`, `ReindexRebuilds` |
| | `KeepsFirstLearnt`, `RedeliveryChangesNothing` (steps) | `FirstLearntIsKept`, `RedeliveryIsNoOp` |
| | `ImplementsIndex` (refinement) | `ImplementsDerivedIndex` |
| `ActivityProofs` | `TypeCorrect`, `NeverStalled`, `NoUncountedChain`, `NoTickUnwatched` | `TypeOK`, `NeverStalls`, `ChainsAccounted`, `IdlesWithoutOverlap` |
| | `NeverCheckedTwice`, `NoForks`, `DealtWithGone` | `CheckedOnce`, `HistoriesDoNotFork`, `DealtWithIsGone` |
| `FeedProofs` | `NothingSkipped`, `NewestFirst` | `NoneSkipped`, `NewestOnTop` |
| `DisclosureProofs` | `NothingStandsIn`, `OneDocumentPerRoot` | `VerifiedIsCommitted`, `SameDocument` |
| | `HonestSlipsVerify`, `SiblingsStayShut` | `UntouchedVerifies`, `WithheldStaysShut` |
| `VerifyProofs` | `WholeReport`, `VerifiedIsIssued`, `HistoriesAreTold` | `ReportsAreWhole`, `VerifiedWasIssued`, `HistoriesHold` |
| | `GenuinePasses` | `GenuineVerifies` |
| `DeskProofs` | `VouchedForChecked`, `OffForCause`, `LiveInProduction` | `CheckedBeforeSaid`, `LeavesForCause`, `ProductionStaysLive` |
| `ReadsProofs` | `CoverageAdds`, `HistoriesEnd`, `OneOrigin` | `CoverageWithinTotal`, `PagesAgree`, `QuietPartsTrace` |
| | `OneAnswer` | `TwinsAgree` |
| `SeedProofs` | `NeverSeededTwice`, `CompletedWhole` | `SeededOnce`, `CompleteIsWhole` |

Each rests on an inductive invariant: its initial case, one lemma per action or group of
actions that disturbs it, a step that puts them together, and a temporal last step.

**Ingest.** `TypeInv` adds to TypeOK that what is published or held at a path is a record of that
path's collection, that keys are numbered by rotations, that a commit in hand is on the
log, and that a transaction is open exactly while one is being applied. NoCommitLost speaks of
the cursor, which moves only in `CommitTx`; `ProgressInv` says what makes that step safe:
everything the connection has passed is applied, refused or gone from the server, but for the commit in hand, and
the connection is behind the cursor by at most the one event an inclusive server sends again.
`SignedInv` and `ProfileInv` state RowsSigned and ProfilesSigned wherever a row or a profile can be on
its way: in the repository, in the backfill's hands, in the open transaction. The
action properties and the refinement come from `ApplyInv`: after k operations of
a transaction each content is where the last of them to name it (`LastWriter`) or the table before it
put it, and the rows at the cursor follow the commit the cursor names. A transaction that
commits is then one step of `DerivedIndex`, whatever crashes and replays came before; every other
step is a stutter or a fresh start. For the other two, `AgreeInv` says that there is a history h of what
the repositories held after each commit of the log (`History`), and that an index that has passed over no signed
commit is where h was at its cursor: its rows are exactly the believable records (`Faithful`), and a
profile shown is the last readable one as of the cursor's commit or, the backfill being ahead of the log, of a
later one (`LeftBy`); so is what the open transaction and the backfill have in hand (`Opened`), and an index
that a reindex discarded, if it had missed nothing, agrees with h as well (`Discarded`). `MissedInv` adds
that an index rebuilt in the place of one that had missed a commit misses one itself, or has not
begun. Caught up, h is what the repositories hold; at equal positions two indexes agree with one point of h.

**Activity.** `ClockInv` is about timers and work: a timer that will fire starts no work already
under way, the last one set will fire or is at work or was stopped with the last viewer,
and armed timers and busy jobs together are at most one more than the joins that overlapped.
NeverStalls, ChainsAccounted and IdlesWithoutOverlap follow. `DataInv` has the types with every queue and
dock at its cap at most, and promises that fit in the bound on releases. `AwayInv` says that a
release whose writer still waits for the answer is on no dock, in no list and no part's newest,
and has one writer; `GoneInv`, that a release is on one dock at most, and that what was dealt with is on
none unless it was dealt with before it was handed over. `OnceInv` and `LineInv` hold while no chain
overlaps: what is queued or planned was not checked, and what is being checked is neither any
more; a release being written continues the newest of its part, so does the one just
written while its writer waits, and nothing that was continued, its writer knowing of it, is
the newest of a part again. The assumption on `Timers` is that there are more than `MaxJoins`, so that an id is
free whenever setTimeout is called.

**Feed.** `FeedIs` says of the query, from ranks, that its rows are the newest first and that a row left
out has a whole limit of newer ones. `StreamInv` says that everything between where a stream
started and where it stands has been sent, or is in a poll's rows yet to be sent, or was left out by
such a query; two polls move `since` past different things, and both leave it below what
neither has sent (`SharpBelow`: `since` is a whole number of milliseconds, at or below the last
event's instant). `PageInv` is about the page while no poll was too slow: its cards descend (`Descending`), what is on the
wire will be drawn above them all or has a card by then and is not yet pushed off (`Fits`), what was
sent is on either (`Shows`), and nothing is missing below a card back to the instant a
resumption would start from (`Closed`).

**Disclosure.** Operators first. Levels of the tree are a recursive function; what it computes is proved
by taking a least counterexample (`LeastNat`, from the well-foundedness of `<` on Nat), since the
library's induction theorem cannot be instantiated here. `PowerStep` and `PowerGrows` bound the next power
of two, `LevelWidths` halves it at each level, `RootCommits` says that trees with one root have the same
leaves, `FoldSound` that a proof that folds to a root of the table's tree starts at the leaf it
names, `FoldComplete` that the proof the code makes does fold. `SettledField` says that normalizing again
changes nothing but the spellings that once does not settle (`Unsettled`). Hashes are terms, so this is up
to collisions of SHA-256. The invariant says that a paper has a value and a nonce for
every field (`PaperOK`), that a slip nobody amended is one made of the values and nonces of some
copy (`SlipOK`), and what an answer came to (`AnswerOK`).

**Verify.** `VerifyInv` says of the job: the stages so far are the first ones in order, the links
are a path of published records, each named by the one before it, and what is asked next is what the
last of them names (`PathOK`, `NextOK`); a server that has signed with a key of its own since before the
verification is known by that key, with which no record is signed (`KeysOK`); and past the
first stage the handle was that of the repository and the record the document's, unless a stage has
failed (`HeadOK`). A change to the network keeps it because what was published once stays so. That the network may change between any two
questions is why the theorem says "was issued", not "is". `GenuineInv` adds what is true of a genuine
document: records were issued one after another, each naming an earlier one unless it was put
in the place of another, and a document handed out says what a record issued for it says
(`IssuedOK`); and a verification of which nothing has gone wrong (`Clean`: the network kept still and
answered, no record was rewritten, all are of one part and their number fits the walk's bound) has
failed no stage, holds the key in force of whoever it is asking, and stands no higher than the
records left once those it has walked are taken off (`Right`), so that the walk reaches birth.
`VerifyAssumption` says for this that the URIs are the numbers from one in the order of issue, and
that no URI or document is one of the values that stand for a malformed or absent one.

**Desk.** CheckedBeforeSaid speaks of what was published; `CheckInv` adds that a request whose document did not
verify when it was sent is still at its check and that the document does not verify now (a
record that is spoilt stays so). `CauseInv` adds to LeavesForCause that a part is on the list of whom
it was sent to and of nobody else, that lists are no longer than what was handed over, so
that a list at its cap has a full cap of others behind it, and that a request that was
written has been heard in public, so that its answer takes the crate off for a cause.
ProductionStaysLive is inductive by itself.

**Reads.** The tables hold no CID twice, an attestation's CID says what it is of, and an organization
with a release is known (`Tables`). From that, counts over joins are compared through injections and
surjections. `ChainIs` says what the recursive query returns, again from a least
counterexample: one row a depth, each the one the row before names, until the bound or a CID
nobody has. `NumInv` adds that releases are numbered as they are published, so that a history of a quiet part
descends through releases of the part: the page that draws it gets to an origin, or has as many of
them as the bound lets it show. `TwinInv` is about both indexes at once: the
index in memory holds what was published and is not on its way to it (`MemInv`), the tables what
ingest has seen (`DbInv`), neither anything else, and no two records have one CID (`ApartInv`). So both hold
the same rows once all is in both. What is modelled twice (the issuers' table, an organization's
three numbers, its relations, who is known, a history) is then answered twice from one set: counts
through bijections, lists because both orders are the one in which records were observed, and histories because each
depth has at most one row.

**Seed.** What stands was cleared before the profiles were written, and while a job publishes it is the script
up to `pos`. `FarInv` adds how far a job has come: who has an account and a profile, and that the
lines before `pos` have been published by this job and no other release stands (`Told`). A job that
is complete has told the whole script, for all of the cast, and `CompleteIsWhole` then follows from
what the script is. That the script issues no certificate twice, attests only what it issues, and links
each release to one of its own part which nothing else continues, or makes it the only origin of that
part, is `ScriptAssumption`: a statement without constants or variables about the cast and lineages as the
source lists them, which TLC evaluates in full.

Five definitions have a form the provers can work with, equal to the obvious one: `Dock!Without`
(SelectSeq), `Disclosure!Wanted` and `Feed!FeedOf` (a sorted selection) give each entry its rank among
those kept; `Seed!NextOf` takes the least index of those wanted (the head of a SelectSeq);
`Reads!walk` is the recursive query as a function of the depth. `FIELDS` and
`Requests` are sequences with their domains stated.

Every invariant and action property of the runs, and the refinement, is stated by one of these theorems.
Only model-checked is liveness (`SignedCommitsGetIndexed`, `PromiseKept`, `Quiesces`, `EveryEventIsDrawn`,
`BadgeIsRight`), since the prover does not reason about fairness or ENABLED; and `GenuineVerifies` with a
blank field, `CaughtUpAgrees` with records updated in place and the like are false, as the findings say.

## 5. Plan

Done, in this order: `Ingest` with `DerivedIndex` and `IngestProofs`; `Dock`, `Activity`; `Feed`;
`Commitment`, `Disclosure`; `Verify`; `Desk`; `Reads`; `Seed`; their proofs, last those of what the
indexes agree on, of a genuine document and of a complete demonstration.

What would come next is more of the code, not more about it: the watchdog's pages, the routes that only
read, and the Go copy of the commitment.

## 6. Not modelled, and why

- Rendering, wording and catalogue data keep no state that outlives a request; of `views.ts`
  the feed page's script and what its buttons offer are modelled, of `shell.ts` nothing.
- Narration and synthetic forms: the narrator's prose is time that passes, and a form's
  contents decide nothing in the modules that publish them.
- The Go copy of the commitment (`commitment/*.go`) computes what `Commitment` does for the
  conformance vectors; no running service calls it.
- Queries that only filter (by URI, DID or handle; the parts list) and the watchdog's pages.
- `Store.Chain` in Go, a third copy of the chain query that only tests call.
- SHA-256, CBOR, signatures and repositories' own trees: a hash or a proof is a term.
- Durations: the reconnect backoff (`consumer.go:92`) doubles at every disconnect and is never
  reset, which a model without real time cannot tell.
- The spike is an experiment outside the running system.
