-------------------------------- MODULE Reads -------------------------------
(***************************************************************************)
(* What a reader is told (web/postgres.ts, web/memory-index.ts, the pages  *)
(* of web/app.ts, watchdog/db.ts, and IssuerCoverage of ingest/store.go).  *)
(* Organizations publish through the demonstration's writer, which appends *)
(* to an index in memory; beside it, an ingest service that takes the same *)
(* commits off the firehose fills the tables PostgreSQL answers from.  One *)
(* set of questions, answered twice.                                       *)
(***************************************************************************)
EXTENDS Integers, Sequences, FiniteSets, SequencesExt, FiniteSetsExt

CONSTANTS
  Orgs,             \* organizations, by DID: numbers, for their order
  Parts,            \* part and serial numbers
  MaxChainDepth,    \* MAX_CHAIN_DEPTH
  RelatedLimit      \* RELATED_LIMIT

CONSTANTS
  MaxReleases,      \* bound: releases published
  MaxAttestations,  \* bound: attestations published
  MaxRecords,       \* bound: both together
  MaxWrites,        \* bound: writes under way at once
  Collide           \* may two attestations be the same bytes?

ASSUME ReadsAssumption ==
  /\ {1, 2} \subseteq Orgs /\ Orgs \subseteq Nat
  /\ {MaxChainDepth, RelatedLimit, MaxWrites} \subseteq Nat \ {0}
  /\ MaxReleases \in Nat \ {0, 1}
  /\ {MaxAttestations, MaxRecords} \subseteq Nat
  /\ Collide \in BOOLEAN

VARIABLES
  repo,             \* organization -> records its repository holds
  log,              \* the firehose: records in the order they were committed
  writes,           \* writes under way: [rec, base, step]
  mem,              \* MemoryIndex: releases, attestations, handles
  db,               \* PostgreSQL: release, attestation and actor tables
  seen              \* how much of the firehose is in it

vars == <<repo, log, writes, mem, db, seen>>

None    == 0                 \* no predecessor
Missing == MaxReleases + 1   \* the CID of a release nobody published

\* prev is a CID and no more: reads join on it and ignore the URI beside it.
Release(cid, by, part, prev) ==
  [kind |-> "release", cid |-> cid, by |-> by, part |-> part, prev |-> prev]

\* An attestation's bytes do not name its author: what tells two of the same
\* release apart is the second they were made in.
Attestation(by, subject, second) ==
  [kind |-> "attestation", cid |-> <<subject, second>>, by |-> by, subject |-> subject]

Published(k) == {i \in DOMAIN log : log[i].kind = k}
Underway(k)  == {w \in writes : w.rec.kind = k /\ w.step = "commit"}

----------------------------------------------------------------------------
(* The demonstration's network, its writer and its index.                  *)

\* What an index says of an organization before it has published: nothing.
EmptyIndex == [releases |-> << >>, attestations |-> << >>, handles |-> {}]

Holds(rows, cid) == \E i \in DOMAIN rows : rows[i].cid = cid

addRelease(index, row) ==
  IF Holds(index.releases, row.cid) THEN index
  ELSE [index EXCEPT !.releases = Append(@, row)]

addAttestation(index, row) ==
  IF Holds(index.attestations, row.cid) THEN index
  ELSE [index EXCEPT !.attestations = Append(@, row)]

\* The handle and the profile of an organization, however often it writes.
setActor(index, did) == [index EXCEPT !.handles = @ \cup {did}]

Observe(index, rec) ==
  IF rec.kind = "release"
  THEN addRelease(setActor(index, rec.by), rec)
  ELSE addAttestation(setActor(index, rec.by), rec)

\* The two certificates of the demonstration, told to the index at start-up.
Birth    == Release(1, 1, CHOOSE p \in Parts : TRUE, None)
Overhaul == Release(2, 2, Birth.part, Birth.cid)

Begin(rec) ==
  /\ Cardinality(writes) < MaxWrites
  /\ Len(log) + Cardinality(Underway("release") \cup Underway("attestation")) < MaxRecords
  /\ writes' = writes \cup {[rec |-> rec, base |-> repo[rec.by], step |-> "commit"]}
  /\ UNCHANGED <<repo, log, mem, db, seen>>

\* A release of a part, with any predecessor a form can name.
createRelease(by, part, prev) ==
  LET cid == Cardinality(Published("release")) + Cardinality(Underway("release")) + 1
  IN  /\ cid <= MaxReleases
      /\ Begin(Release(cid, by, part, prev))

\* The seconds attestations are made in, each in its own unless they may collide.
Seconds ==
  IF Collide THEN {1}
  ELSE {Cardinality(Published("attestation")) + Cardinality(Underway("attestation")) + 1}

\* POST /attest asks nothing of the CID: the release may be on its way, or nowhere.
Subjects ==
  {Missing} \cup {log[i].cid : i \in Published("release")}
            \cup {w.rec.cid : w \in Underway("release")}

createAttestation(by, subject, second) ==
  /\ Cardinality(Published("attestation")) + Cardinality(Underway("attestation"))
       < MaxAttestations
  /\ Begin(Attestation(by, subject, second))

\* org.repo = await org.repo.applyWrites(...): the repository as it was when the
\* write began, and the record.
Commit(w) ==
  /\ w.step = "commit"
  /\ repo' = [repo EXCEPT ![w.rec.by] = w.base \cup {w.rec}]
  /\ log' = Append(log, w.rec)
  /\ writes' = (writes \ {w}) \cup {[w EXCEPT !.step = "index"]}
  /\ UNCHANGED <<mem, db, seen>>

\* Back in the writer, which appends the row itself.
Index(w) ==
  /\ w.step = "index"
  /\ mem' = Observe(mem, w.rec)
  /\ writes' = writes \ {w}
  /\ UNCHANGED <<repo, log, db, seen>>

release     == db.release
attestation == db.attestation
actor       == db.actor

\* ON CONFLICT (cid) keeps the row, and the author it was first seen under.
upsert(table, rec) ==
  IF \E r \in table : r.cid = rec.cid THEN table ELSE table \cup {rec}

\* The ingest service takes the next commit.
Ingest ==
  /\ seen < Len(log)
  /\ seen' = seen + 1
  /\ LET rec == log[seen + 1]
     IN  \/ /\ rec.kind = "release"
            /\ db' = [release |-> upsert(release, rec), attestation |-> attestation,
                      actor |-> actor \cup {rec.by}]
         \/ /\ rec.kind = "attestation"
            /\ db' = [release |-> release, attestation |-> upsert(attestation, rec),
                      actor |-> actor \cup {rec.by}]
  /\ UNCHANGED <<repo, log, writes, mem>>

----------------------------------------------------------------------------
(* Questions, as SQL asks them.                                            *)

\* The rows the recursive query has at each depth, up to the bound.
walk(cid, maxDepth) ==
  LET Row(c) == {r \in release : r.cid = c}
      from[depth \in 1 .. maxDepth] ==
        IF depth = 1 THEN Row(cid)
        ELSE UNION {Row(r.prev) : r \in from[depth - 1]}
  IN  from

\* A row of each depth that has one.
RowsOf(from) ==
  [depth \in 1 .. Cardinality({d \in DOMAIN from : from[d] # {}}) |->
     CHOOSE r \in from[depth] : TRUE]

\* Mutant: the walk goes one link past its bound.
chainPast(cid, maxDepth) == RowsOf(walk(cid, maxDepth + 1))

chain(cid, maxDepth) == RowsOf(walk(cid, maxDepth))

\* attestation JOIN release
Covers == {c \in attestation \X release : c[2].cid = c[1].subject}
IssuedBy(did) == {r \in release : r.by = did}

\* Mutant: counts attestations, so that a column can read '4 of 3'.
issuerStatsByRecord ==
  {[did |-> d, releases |-> Cardinality(IssuedBy(d)),
    attested |-> Cardinality({c[1] : c \in {x \in Covers : x[2].by = d}})] :
     d \in {a \in actor : IssuedBy(a) # {}}}

issuerStats ==
  {[did |-> d, releases |-> Cardinality(IssuedBy(d)),
    attested |-> Cardinality({c[2] : c \in {x \in Covers : x[2].by = d}})] :
     d \in {a \in actor : IssuedBy(a) # {}}}

accountStats(did) ==
  [releases |-> Cardinality(IssuedBy(did)),
   attested |-> Cardinality({r \in IssuedBy(did) : \E a \in attestation : a.subject = r.cid}),
   checks   |-> Cardinality({a \in attestation : a.by = did})]

\* ROW_NUMBER() OVER (PARTITION BY kind ORDER BY n DESC, did) <= limit
Ranked(tally, limit) ==
  {r \in tally :
     Cardinality({x \in tally : /\ x.kind = r.kind
                                /\ x.n > r.n \/ (x.n = r.n /\ x.did < r.did)}) < limit}

relatedAccounts(did, limit) ==
  LET n(kind, other) == Cardinality(
        CASE kind = "vouchedFor" -> {c \in Covers : c[2].by = did /\ c[1].by = other}
          [] kind = "vouchedBy"  -> {c \in Covers : c[1].by = did /\ c[2].by = other}
          [] kind = "earlier" -> {l \in IssuedBy(did) \X IssuedBy(other) : l[2].cid = l[1].prev}
          [] kind = "later"   -> {l \in IssuedBy(did) \X IssuedBy(other) : l[2].prev = l[1].cid})
      kinds == {"vouchedFor", "vouchedBy", "earlier", "later"}
  IN  Ranked({[kind |-> x[1], did |-> x[2], n |-> n(x[1], x[2])] :
                x \in {y \in kinds \X (Orgs \ {did}) : n(y[1], y[2]) > 0}}, limit)

releasesForPart(part) == {r \in release : r.part = part}

----------------------------------------------------------------------------
(* The same questions, as the arrays of the index in memory answer them.   *)

Rows(index)    == {index.releases[i] : i \in DOMAIN index.releases}
Checks(index)  == {index.attestations[i] : i \in DOMAIN index.attestations}
ByCid(index, c) == {r \in Rows(index) : r.cid = c}

\* while (cursor && out.length < maxDepth)
MemChain(index, cid, maxDepth) ==
  LET out[n \in 0 .. maxDepth] ==
        IF n = 0 THEN << >>
        ELSE LET so     == out[n - 1]
                 cursor == IF so = << >> THEN cid ELSE Last(so).prev
             IN  IF Len(so) < n - 1 \/ ByCid(index, cursor) = {} THEN so
                 ELSE Append(so, CHOOSE r \in ByCid(index, cursor) : TRUE)
  IN  out[maxDepth]

MemIssuerStats(index) ==
  {[did |-> d,
    releases |-> Cardinality({r \in Rows(index) : r.by = d}),
    attested |-> Cardinality({a.subject : a \in
                   {x \in Checks(index) : \E r \in ByCid(index, x.subject) : r.by = d}})] :
     d \in {r.by : r \in Rows(index)}}

MemAccountStats(index, did) ==
  LET mine    == {r \in Rows(index) : r.by = did}
      covered == {a.subject : a \in Checks(index)}
  IN  [releases |-> Cardinality(mine),
       attested |-> Cardinality({r \in mine : r.cid \in covered}),
       checks   |-> Cardinality({a \in Checks(index) : a.by = did})]

\* Mutant: a station that certified a part twice is related to itself.
AddsSelf(tallied, did) == tallied

\* add: no organization is related to itself.
Adds(tallied, did) == {t \in tallied : t[2] # did}

\* One entry for each add(kind, other), then a tally of them.
MemRelatedAccounts(index, did, limit) ==
  LET mine == {r \in Rows(index) : r.by = did}
      vouched ==
        {<<"vouchedFor", a.by, a>> : a \in
           {x \in Checks(index) : \E r \in mine : r.cid = x.subject}}
        \cup UNION {{<<"vouchedBy", r.by, a>> : r \in ByCid(index, a.subject)} :
           a \in {x \in Checks(index) : x.by = did}}
      linked ==
        (UNION {{<<"earlier", p.by, r>> : p \in ByCid(index, r.prev)} : r \in mine})
        \cup {<<"later", r.by, r>> : r \in
           {x \in Rows(index) : \E m \in mine : m.cid = x.prev}}
      tallied == Adds(vouched \cup linked, did)
  IN  Ranked({[kind |-> t[1], did |-> t[2],
               n |-> Cardinality({x \in tallied : x[1] = t[1] /\ x[2] = t[2]})] :
                t \in tallied}, limit)

----------------------------------------------------------------------------
(* Pages, and the watchdog's.                                              *)

\* The page of a part walks back from one of its releases.
PartPage(r) ==
  LET links == chain(r.cid, MaxChainDepth)
  IN  [chain |-> links, reachedBirth |-> Last(links).prev = None]

\* Mutant: an origin for each station that claims one.
clonedSerialsByStation ==
  {p \in Parts : Cardinality({r.by : r \in {x \in releasesForPart(p) : x.prev = None}}) > 1}

clonedSerials ==
  {p \in Parts : Cardinality({r \in releasesForPart(p) : r.prev = None}) > 1}

danglingLinks == {r \in release : r.prev # None /\ \A p \in release : p.cid # r.prev}

\* The watchdog counts what was said of an organization's releases.
issuers ==
  {[did |-> d, releases |-> Cardinality(IssuedBy(d)),
    attested |-> Cardinality({c[1].cid : c \in {x \in Covers : x[2].by = d}})] :
     d \in {a \in actor : IssuedBy(a) # {}}}

\* The join is counted before the attestations are told apart.
IssuerCoverage ==
  {[did |-> d,
    releases |-> Cardinality({x \in Covers : x[2].by = d})
                 + Cardinality({r \in IssuedBy(d) : \A a \in attestation : a.subject # r.cid}),
    attested |-> Cardinality({c[1].cid : c \in {x \in Covers : x[2].by = d}})] :
     d \in {r.by : r \in release}}

----------------------------------------------------------------------------
Init ==
  /\ log = <<Birth, Overhaul>>
  /\ repo = [o \in Orgs |-> {log[i] : i \in {j \in DOMAIN log : log[j].by = o}}]
  /\ mem = Observe(Observe(EmptyIndex, Birth), Overhaul)
  /\ writes = {}
  /\ db = [release |-> {}, attestation |-> {}, actor |-> {}]
  /\ seen = 0

Next ==
  \/ \E o \in Orgs, p \in Parts :
       \E prev \in {None, Missing} \cup {r.cid : r \in Rows(mem)} : createRelease(o, p, prev)
  \/ \E o \in Orgs, subject \in Subjects, second \in Seconds :
       createAttestation(o, subject, second)
  \/ \E w \in writes : Commit(w) \/ Index(w)
  \/ Ingest

Spec == Init /\ [][Next]_vars

----------------------------------------------------------------------------
(* Properties.                                                             *)

\* Once everything published is in both, the index in memory and PostgreSQL give
\* one answer to every question, whatever the order records came in (ReadIndex).
TwinsAgree ==
  writes = {} /\ seen = Len(log) =>
    /\ MemIssuerStats(mem) = issuerStats
    /\ mem.handles = actor
    /\ \A o \in Orgs :
         /\ MemAccountStats(mem, o) = accountStats(o)
         /\ MemRelatedAccounts(mem, o, RelatedLimit) = relatedAccounts(o, RelatedLimit)
    /\ \A r \in release : MemChain(mem, r.cid, MaxChainDepth) = chain(r.cid, MaxChainDepth)

\* No screen of the web says '4 of 3' of an organization's releases, its table of
\* issuers and the organization's own page say the same; and the watchdog and
\* IssuerCoverage, which count checks, know of one exactly where the web does.
CoverageWithinTotal ==
  /\ \A s \in issuerStats :
       /\ s.attested <= s.releases
       /\ accountStats(s.did).attested = s.attested
       /\ accountStats(s.did).releases = s.releases
       /\ \A t \in issuers \cup IssuerCoverage :
            t.did = s.did => /\ t.attested >= s.attested
                             /\ (t.attested = 0) = (s.attested = 0)
  /\ {s.did : s \in issuerStats} = {s.did : s \in issuers}
  /\ {s.did : s \in issuerStats} = {s.did : s \in IssuerCoverage}

\* A history on a part's page that does not reach birth either stopped at the
\* bound, or ends at a release the watchdog lists as pointing at nothing; and
\* links one release to the next (GET /part, danglingLinks).
PagesAgree ==
  \A r \in release :
    LET page == PartPage(r)
    IN  /\ \A i \in 2 .. Len(page.chain) : page.chain[i - 1].prev = page.chain[i].cid
        /\ \/ page.reachedBirth
           \/ Len(page.chain) = MaxChainDepth
           \/ Last(page.chain) \in danglingLinks

\* A part the watchdog has nothing to say about, and whose releases follow
\* releases of the same part, has one origin: whichever of its releases a page
\* starts from, it gets to that origin if the part has no more releases than a
\* page shows, and stops at the bound otherwise (clonedSerials, danglingLinks,
\* GET /part).
QuietPartsTrace ==
  \A p \in Parts \ clonedSerials :
    (/\ releasesForPart(p) \cap danglingLinks = {}
     /\ \A r \in releasesForPart(p), q \in release : q.cid = r.prev => q.part = p)
    => \A r1, r2 \in releasesForPart(p) :
         /\ \/ PartPage(r1).reachedBirth
            \/ /\ Cardinality(releasesForPart(p)) > MaxChainDepth
               /\ Len(PartPage(r1).chain) = MaxChainDepth
         /\ PartPage(r1).reachedBirth /\ PartPage(r2).reachedBirth =>
              Last(PartPage(r1).chain) = Last(PartPage(r2).chain)
=============================================================================
