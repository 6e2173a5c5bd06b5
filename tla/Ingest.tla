------------------------------- MODULE Ingest -------------------------------
(***************************************************************************)
(* The ingest service: one consumer that reads a PDS's firehose, believes  *)
(* only the commits it can verify, and keeps a PostgreSQL index of them.   *)
(*                                                                         *)
(*   ingest/consumer.go  Run, connectAndConsume, handleCommit              *)
(*   ingest/backfill.go  the station profile the firehose will not replay  *)
(*   ingest/store.go     ApplyCommit, one transaction per commit; Reset    *)
(*   cmd/ingest/main.go  start, restart and reindex                        *)
(*                                                                         *)
(* Around it, as the environment: the PDS, which appends commits to its    *)
(* log and may stop replaying the oldest, and the identity directory, whose*)
(* cache of a repository's signing key may lag behind a rotation.          *)
(***************************************************************************)
EXTENDS Integers, Sequences

CONSTANTS
  Repos,            \* repositories, by DID
  Rkeys,            \* record keys releases and attestations are published at
  Releases,         \* release records, by CID
  Attestations,     \* attestation records, by CID
  Profiles,         \* contents of a station record
  Malformed,        \* the records that do not decode, of any collection
  IssuerDID,        \* the issuer each release names; None: none of Repos
  None              \* no value: an absent record, row, CID or issuer

CONSTANTS
  MaxSeq,           \* bound: length of the firehose
  MaxOps,           \* bound: operations in one commit
  MaxRotations,     \* bound: key rotations, over all repositories
  MaxForgotten,     \* bound: commits the server stops replaying
  MaxFaults,        \* bound: lost connections, failed transactions, crashes
  MaxReindex        \* bound: starts that rebuild the index

CONSTANTS
  RecordUpdates,    \* may a release or attestation be updated in place?
  Duplicates,       \* may one content live at two URIs?
  InclusiveCursor   \* does the server resend the event the cursor names?

Contents == Releases \cup Attestations
Self     == <<"station", "self">>
Paths    == ({"release", "attestation"} \X Rkeys) \cup {Self}
Uris     == Repos \X Paths
Keys     == 1 .. MaxRotations + 1
NoKey    == 0                 \* signs a commit that never verifies

Row == [uri : Uris, author : Repos, observed : 1 .. MaxSeq, seq : 1 .. MaxSeq]

\* An actor row is told apart by the profile it shows.  Its handle is left out:
\* it is for reading, resolved again for every commit, and decides nothing.

\* The records of the collection path p is in.
RecordsAt(p) ==
  CASE p = Self -> Profiles
    [] p[1] = "release" -> Releases
    [] p[1] = "attestation" -> Attestations

ASSUME IngestAssumption ==
  /\ Contents \cap Profiles = {}
  /\ Releases \cap Attestations = {}
  /\ None \notin Contents \cup Profiles \cup Repos \cup Uris \cup Row
  /\ Malformed \subseteq Contents \cup Profiles
  /\ IssuerDID \in [Releases -> Repos \cup {None}]
  /\ {MaxSeq, MaxOps} \subseteq Nat \ {0}
  /\ {MaxRotations, MaxForgotten, MaxFaults, MaxReindex} \subseteq Nat
  /\ {RecordUpdates, Duplicates, InclusiveCursor} \subseteq BOOLEAN

VARIABLES
  log,              \* the firehose: commit number s is log[s]
  forgotten,        \* the server replays only the commits after this one
  held,             \* URI -> the record its repository holds, or None
  key,              \* repository -> the key its DID document names
  dirKey            \* repository -> the key the identity directory answers

VARIABLES
  rows,             \* release and attestation tables: CID -> row, or None
  profile,          \* actor table: DID -> the profile it shows, or None
  cursor            \* ingest_cursor: last seq durably applied, -1 if none

VARIABLES
  phase,            \* where the consumer is
  pos,              \* the last seq delivered on this connection
  asked,            \* askedForProfile: repositories asked in this process
  fetched,          \* the profile backfilled for this commit, or None
  tx,               \* the open transaction: the tables as it sees them, or None
  next              \* the operation of the commit it applies next

VARIABLES
  rotations, faults, reindexes,
  applied,          \* history: seqs applied since the index was created
  skipped,          \* history: seqs passed over as unverifiable since then
  missed,           \* history: seqs the server no longer had when it was asked
  before            \* history: the index as the last reindex discarded it

pds      == <<log, forgotten, held, key, dirKey>>
db       == <<rows, profile, cursor>>
process  == <<phase, pos, asked, fetched, tx, next>>
history  == <<applied, skipped, missed, before>>
bounds   == <<rotations, faults, reindexes>>
vars     == <<pds, db, process, bounds, history>>

----------------------------------------------------------------------------
(* The PDS and the directory.                                              *)

Op == [action : {"create", "update", "delete"}, path : Paths,
       cid : Contents \cup Profiles \cup {None}]

\* The operations repository r can commit now: a create needs a free path, an
\* update or a delete an occupied one.
OpsOf(r) ==
  {op \in Op :
     LET at == held[<<r, op.path>>] IN
     \/ /\ op.action = "create"
        /\ at = None
        /\ op.cid \in RecordsAt(op.path)
     \/ /\ op.action = "update"
        /\ at # None
        /\ op.path = Self \/ RecordUpdates
        /\ op.cid \in RecordsAt(op.path) \ {at}
     \/ /\ op.action = "delete"
        /\ at # None
        /\ op.cid = None}

\* Sequences of at most MaxOps of them, no path twice.
CommitsOf(r) ==
  UNION {{ops \in [1 .. n -> OpsOf(r)] :
            \A i, j \in 1 .. n : i # j => ops[i].path # ops[j].path}
         : n \in 1 .. MaxOps}

HeldAfter(r, ops) ==
  [u \in Uris |->
     IF u[1] = r /\ \E i \in DOMAIN ops : ops[i].path = u[2]
     THEN ops[CHOOSE i \in DOMAIN ops : ops[i].path = u[2]].cid
     ELSE held[u]]

\* A repository's owner publishes a commit, signed with its current key.
Publish(r) ==
  /\ Len(log) < MaxSeq
  /\ \E ops \in CommitsOf(r) :
       /\ log' = Append(log, [repo |-> r, key |-> key[r], ops |-> ops])
       /\ held' = HeldAfter(r, ops)
       /\ \/ Duplicates
          \/ \A u, v \in Uris : u # v /\ held'[u] \in Contents => held'[u] # held'[v]
  /\ UNCHANGED <<forgotten, key, dirKey, db, process, bounds, history>>

\* The server relays a commit the owner did not sign, or a malformed one.
PublishUnverifiable(r) ==
  /\ Len(log) < MaxSeq
  /\ \E op \in OpsOf(r) :
       log' = Append(log, [repo |-> r, key |-> NoKey, ops |-> <<op>>])
  /\ UNCHANGED <<forgotten, held, key, dirKey, db, process, bounds, history>>

\* r's DID document names a new key.  Whether the directory had the old one
\* cached, and goes on answering it, is left open.
RotateKey(r) ==
  /\ rotations < MaxRotations
  /\ rotations' = rotations + 1
  /\ key' = [key EXCEPT ![r] = @ + 1]
  /\ \/ UNCHANGED dirKey
     \/ dirKey' = [dirKey EXCEPT ![r] = key'[r]]
  /\ UNCHANGED <<log, forgotten, held, db, process, faults, reindexes, history>>

\* The directory's cached entry for r expires.
RefreshDirectory(r) ==
  /\ dirKey' = [dirKey EXCEPT ![r] = key[r]]
  /\ dirKey' # dirKey
  /\ UNCHANGED <<log, forgotten, held, key, db, process, bounds, history>>

\* The server drops the oldest commit it still replays: "a rebuilt index replays
\* only what the server still holds" (backfill.go:16-18).
DropOldest ==
  /\ forgotten < MaxForgotten
  /\ forgotten < Len(log)
  /\ forgotten' = forgotten + 1
  /\ UNCHANGED <<log, held, key, dirKey, db, process, bounds, history>>

\* c.now(): time is told by how much has been published.
Now == Len(log)

----------------------------------------------------------------------------
(* Pure parts of the consumer.                                             *)

\* Bugs the code does not have, for the mutants of PROJECT.json: asking for the
\* event after the last one; not treating a new index apart; believing whatever
\* the server relays.
SubscribeFromNext(c) == IF c >= 0 THEN c + 1 ELSE 0
SubscribeFromStored(c) == c
VerifiesAll(m) == TRUE

\* subscribeURL sends the last applied seq, and 0 for a new index; the server
\* replays what follows it.
SubscribeFrom(c) ==
  LET sent == IF c >= 0 THEN c ELSE 0 IN
  IF InclusiveCursor /\ sent > 0 THEN sent - 1 ELSE sent

\* VerifyCommitSignature and VerifyCommitMessage, against the key the
\* directory answers today.
Verifies(m) == m.key = dirKey[m.repo]

\* A record found at r decodes, and does not claim somebody else's issue.
Believable(r, c) == c \notin Malformed /\ (c \in Releases => IssuerDID[c] = r)

\* extractRecords keeps a delete, and a believable record; what does not decode,
\* an update included, it skips.
Indexable(m, op) == op.action = "delete" \/ Believable(m.repo, op.cid)

\* The operation writes to the release or the attestation table.
HasRow(m, op) == Indexable(m, op) /\ op.action # "delete" /\ op.path # Self

HasStation(op) ==
  op.action # "delete" /\ op.path = Self /\ op.cid \notin Malformed

HasRecords(m) == \E i \in DOMAIN m.ops : Indexable(m, m.ops[i])

HasProfile(r) == profile[r] # None

\* Mutants: a profile already shown is not written over; a re-announced row is
\* dated anew.
FillStation(ps, r, p) == [ps EXCEPT ![r] = IF @ = None THEN p ELSE @]
ReplaceRow(rs, u, c, now) ==
  [rs EXCEPT ![c] = [uri |-> u, author |-> u[1], observed |-> now, seq |-> pos]]

\* upsertStation: the record in hand overwrites what the row showed.
UpsertStation(ps, r, p) == [ps EXCEPT ![r] = p]

\* UNIQUE (uri): another content has a row at u.
UriTaken(rs, u, c) == \E d \in Contents \ {c} : rs[d] # None /\ rs[d].uri = u

\* upsertRelease and upsertAttestation: the first observation stays.
UpsertRow(rs, u, c, now) ==
  [rs EXCEPT ![c] =
     IF rs[c] = None
     THEN [uri |-> u, author |-> u[1], observed |-> now, seq |-> pos]
     ELSE [rs[c] EXCEPT !.uri = u, !.seq = pos]]

\* deleteRecord.  A station's URI is in neither table.
DeleteUri(rs, u) ==
  [c \in Contents |-> IF rs[c] # None /\ rs[c].uri = u THEN None ELSE rs[c]]

----------------------------------------------------------------------------
(* The process: start, connect, and the ways to stop.                      *)

NotHandling ==
  /\ fetched' = None
  /\ tx' = None
  /\ next' = 0

\* rows as the readers of the index see them: where each content is.
IndexedAt(rs) == [c \in Contents |-> IF rs[c] = None THEN None ELSE rs[c].uri]

NoRows == [c \in Contents |-> None]

\* A reset that forgets to forget the cursor; a failed transaction that leaves
\* what it had written.
ResetRowsOnly ==
  /\ rows' = NoRows
  /\ profile' = [r \in Repos |-> None]
  /\ UNCHANGED cursor
ReconnectWithoutRollback ==
  /\ phase' = "connecting"
  /\ pos' = 0
  /\ NotHandling
  /\ rows' = IF tx = None THEN rows ELSE tx.rows
  /\ UNCHANGED <<profile, cursor, asked>>

\* Reset drops the tables, and Migrate makes them again, empty.
Reset ==
  /\ rows' = NoRows
  /\ profile' = [r \in Repos |-> None]
  /\ cursor' = -1

\* main: Migrate, then Reset when the command is reindex, then Run.  The
\* directory's cache starts empty with the process.
Start(reindex) ==
  /\ phase = "down"
  /\ phase' = "connecting"
  /\ IF reindex
     THEN /\ reindexes < MaxReindex
          /\ reindexes' = reindexes + 1
          /\ Reset
          /\ before' = [cursor |-> cursor, index |-> IndexedAt(rows),
                        whole |-> missed = {}]
          /\ applied' = {}
          /\ skipped' = {}
          /\ missed' = {}
     ELSE UNCHANGED <<db, history, reindexes>>
  /\ dirKey' = key
  /\ UNCHANGED <<log, forgotten, held, key, pos, asked, fetched, tx, next,
                 rotations, faults>>

Connect ==
  /\ phase = "connecting"
  /\ phase' = "streaming"
  /\ pos' = SubscribeFrom(cursor)
  /\ UNCHANGED <<pds, db, asked, fetched, tx, next, bounds, history>>

\* What Run does with any error of connectAndConsume: the connection closes,
\* an open transaction rolls back, and after the backoff it connects again.
Reconnect ==
  /\ phase' = "connecting"
  /\ pos' = 0
  /\ NotHandling
  /\ UNCHANGED <<db, asked>>

\* The socket or the database fails under the consumer.
Disconnect ==
  /\ faults < MaxFaults
  /\ faults' = faults + 1
  /\ phase \in {"streaming", "verified", "applying"}
  /\ Reconnect
  /\ UNCHANGED <<pds, rotations, reindexes, history>>

\* The process dies or is shut down; what it asked for dies with it.
Crash ==
  /\ faults < MaxFaults
  /\ faults' = faults + 1
  /\ phase # "down"
  /\ phase' = "down"
  /\ pos' = 0
  /\ asked' = {}
  /\ NotHandling
  /\ UNCHANGED <<pds, db, rotations, reindexes, history>>

----------------------------------------------------------------------------
(* handleCommit.                                                           *)

\* The last event before the one the server delivers next.
Delivered == IF pos < forgotten THEN forgotten ELSE pos

\* The next event the server still has arrives.  A commit that does not verify
\* is passed over: the cursor stays, the connection goes on.
HandleCommit ==
  /\ phase = "streaming"
  /\ Delivered < Len(log)
  /\ pos' = Delivered + 1
  /\ missed' = missed \cup ((pos + 1 .. Delivered) \ applied)
  /\ IF Verifies(log[pos'])
     THEN /\ phase' = "verified"
          /\ UNCHANGED skipped
     ELSE /\ skipped' = skipped \cup ({pos'} \ applied)
          /\ UNCHANGED phase
  /\ UNCHANGED <<pds, db, asked, fetched, tx, next, bounds, applied, before>>

\* The key that signed the head of r's repository, which getRecord serves; a
\* repository without a commit has none.
HeadKey(r) ==
  LET signed == {s \in DOMAIN log : log[s].repo = r /\ log[s].key # NoKey}
  IN  IF signed = {} THEN NoKey
      ELSE log[CHOOSE s \in signed : \A t \in signed : t <= s].key

\* fetchStation: the profile the repository holds now, whatever the position in
\* the log, if it decodes and the commit it comes with verifies; None for any
\* failure.
FetchStation(r) ==
  {None} \cup {p \in {held[<<r, Self>>]} \ Malformed : HeadKey(r) = dirKey[r]}

\* backfillProfile, and the BEGIN of ApplyCommit.  A fetch that fails is final
\* for this process; HasProfile's own query failing is not.
BackfillProfile ==
  /\ phase = "verified"
  /\ LET r == log[pos].repo IN
     IF HasRecords(log[pos]) /\ r \notin asked /\ ~HasProfile(r)
     THEN \/ /\ asked' = asked \cup {r}
             /\ fetched' \in FetchStation(r)
          \/ UNCHANGED <<asked, fetched>>
     ELSE UNCHANGED <<asked, fetched>>
  /\ phase' = "applying"
  /\ tx' = [rows |-> rows, profile |-> profile, now |-> Now]
  /\ next' = 1
  /\ UNCHANGED <<pds, db, pos, bounds, history>>

\* The tables after a record, by its kind.
WithRecord(t, m, op) ==
  LET u == <<m.repo, op.path>> IN
  CASE op.action = "delete" -> [t EXCEPT !.rows = DeleteUri(t.rows, u)]
    [] HasRow(m, op)        -> [t EXCEPT !.rows = UpsertRow(t.rows, u, op.cid, t.now)]
    [] HasStation(op)       -> [t EXCEPT !.profile = UpsertStation(t.profile, m.repo, op.cid)]
    [] OTHER                -> t

\* The record's URI is another row's.
Refused(t, m, op) == HasRow(m, op) /\ UriTaken(t.rows, <<m.repo, op.path>>, op.cid)

\* ApplyCommit writes the next record inside its transaction.
ApplyRecord ==
  /\ phase = "applying"
  /\ next \in DOMAIN log[pos].ops
  /\ ~Refused(tx, log[pos], log[pos].ops[next])
  /\ tx' = WithRecord(tx, log[pos], log[pos].ops[next])
  /\ next' = next + 1
  /\ UNCHANGED <<pds, db, phase, pos, asked, fetched, bounds, history>>

\* UNIQUE (uri) refuses the row: the transaction and the connection are lost.
ApplyFails ==
  /\ phase = "applying"
  /\ next \in DOMAIN log[pos].ops
  /\ Refused(tx, log[pos], log[pos].ops[next])
  /\ Reconnect
  /\ UNCHANGED <<pds, bounds, history>>

\* The backfilled profile was appended after the commit's own records.
ApplyBackfilled ==
  /\ phase = "applying"
  /\ next = Len(log[pos].ops) + 1
  /\ fetched # None
  /\ tx' = [tx EXCEPT !.profile = UpsertStation(@, log[pos].repo, fetched)]
  /\ fetched' = None
  /\ UNCHANGED <<pds, db, phase, pos, asked, next, bounds, history>>

\* The cursor moves in the same transaction as the rows.
CommitTx ==
  /\ phase = "applying"
  /\ next = Len(log[pos].ops) + 1
  /\ fetched = None
  /\ rows' = tx.rows
  /\ profile' = tx.profile
  /\ cursor' = pos
  /\ phase' = "streaming"
  /\ NotHandling
  /\ applied' = applied \cup {pos}
  /\ skipped' = skipped \ {pos}
  /\ UNCHANGED <<pds, pos, asked, bounds, missed, before>>

----------------------------------------------------------------------------
Init ==
  /\ log = << >>
  /\ forgotten = 0
  /\ held = [u \in Uris |-> None]
  /\ key = [r \in Repos |-> 1]
  /\ dirKey = key
  /\ rows = NoRows
  /\ profile = [r \in Repos |-> None]
  /\ cursor = -1
  /\ phase = "down"
  /\ pos = 0
  /\ asked = {}
  /\ fetched = None
  /\ tx = None
  /\ next = 0
  /\ rotations = 0
  /\ faults = 0
  /\ reindexes = 0
  /\ applied = {}
  /\ skipped = {}
  /\ missed = {}
  /\ before = None

Environment ==
  \/ \E r \in Repos : \/ Publish(r)
                      \/ PublishUnverifiable(r)
                      \/ RotateKey(r)
                      \/ RefreshDirectory(r)
  \/ DropOldest
  \/ Disconnect
  \/ Crash
  \/ Start(TRUE)

\* What runs without anybody's help: the service manager restarts the
\* process, Run reconnects, and a delivered commit is handled to its end.
Consumer ==
  \/ Start(FALSE)
  \/ Connect
  \/ HandleCommit
  \/ BackfillProfile
  \/ ApplyRecord
  \/ ApplyFails
  \/ ApplyBackfilled
  \/ CommitTx

Next == Environment \/ Consumer

Spec == Init /\ [][Next]_vars

FairSpec == Spec /\ WF_vars(Consumer)

----------------------------------------------------------------------------
(* Properties.                                                             *)

\* The shape of every variable.
TypeOK ==
  /\ log \in Seq([repo : Repos, key : Keys \cup {NoKey}, ops : Seq(Op)])
  /\ forgotten \in 0 .. Len(log)
  /\ held \in [Uris -> Contents \cup Profiles \cup {None}]
  /\ key \in [Repos -> Keys]
  /\ dirKey \in [Repos -> Keys]
  /\ rows \in [Contents -> Row \cup {None}]
  /\ profile \in [Repos -> Profiles \cup {None}]
  /\ cursor \in -1 .. MaxSeq
  /\ phase \in {"down", "connecting", "streaming", "verified", "applying"}
  /\ pos \in 0 .. Len(log)
  /\ asked \in SUBSET Repos
  /\ fetched \in Profiles \cup {None}
  /\ tx \in [rows : [Contents -> Row \cup {None}],
             profile : [Repos -> Profiles \cup {None}],
             now : 1 .. MaxSeq] \cup {None}
  /\ next \in Nat
  /\ rotations \in Nat
  /\ faults \in Nat
  /\ reindexes \in Nat
  /\ applied \in SUBSET (1 .. MaxSeq)
  /\ skipped \in SUBSET (1 .. MaxSeq)
  /\ missed \in SUBSET (1 .. MaxSeq)
  /\ before \in [cursor : -1 .. MaxSeq,
                 index : [Contents -> Uris \cup {None}],
                 whole : BOOLEAN] \cup {None}

\* What commit m does that the index should believe.
WritesOf(m) ==
  {<<<<m.repo, m.ops[i].path>>, m.ops[i].cid>> :
     i \in {j \in DOMAIN m.ops : HasRow(m, m.ops[j])}}

DeletesOf(m) ==
  {<<m.repo, m.ops[i].path>> :
     i \in {j \in DOMAIN m.ops : m.ops[j].action = "delete"}}

ProfilesOf(m) ==
  {m.ops[i].cid : i \in {j \in DOMAIN m.ops : HasStation(m.ops[j])}}

\* No commit is lost: the cursor never claims a commit that was neither
\* applied, with all its rows, nor refused because it did not verify, nor gone
\* from the server by the time it was asked for - through crashes, failed
\* transactions, reconnects and redelivery (store.go:79-85).
NoCommitLost ==
  /\ \A s \in 1 .. cursor : s \in applied \cup skipped \cup missed
  /\ \A s \in applied : s <= cursor
  /\ \A s \in missed : s <= forgotten /\ s \notin applied

\* "Nothing here is believed without a signature" (backfill.go:34-37): each
\* row is where the commit its seq names put it, that commit was signed by the
\* repository in its URI and applied; and the author the row names published
\* it too, whichever repository the URI has moved to since.
RowsSigned ==
  \A c \in {d \in Contents : rows[d] # None} :
    /\ rows[c].seq \in applied
    /\ log[rows[c].seq].key # NoKey
    /\ <<rows[c].uri, c>> \in WritesOf(log[rows[c].seq])
    /\ \E s \in DOMAIN log :
         /\ log[s].key # NoKey
         /\ log[s].repo = rows[c].author
         /\ \E w \in WritesOf(log[s]) : w[2] = c

\* The same for profiles, which come off the log and from the backfill: each
\* was published, and signed, by the repository it describes.
ProfilesSigned ==
  \A r \in {q \in Repos : HasProfile(q)} :
    \E s \in DOMAIN log : /\ log[s].key # NoKey
                        /\ log[s].repo = r
                        /\ profile[r] \in ProfilesOf(log[s])

\* A reader of the index never sees part of a commit, a commit out of order, or
\* a row no commit accounts for: the service implements DerivedIndex.
IndexView ==
  INSTANCE DerivedIndex WITH
    Content   <- Contents,
    Absent    <- None,
    published <- [s \in DOMAIN log |->
                    [writes |-> WritesOf(log[s]), deletes |-> DeletesOf(log[s])]],
    index     <- IndexedAt(rows),
    upTo      <- cursor

ImplementsDerivedIndex == IndexView!Spec

\* What was learnt first is kept: while a row stays, no replay, reconnect or
\* duplicate moves its observation time (store.go:154-157), unless the very
\* commit deleted it first.
FirstLearntIsKept ==
  [][phase = "applying" =>
       \A c \in Contents :
         /\ rows[c] # None
         /\ rows'[c] # None
         /\ rows[c].uri \notin DeletesOf(log[pos])
         => /\ rows'[c].observed = rows[c].observed
            /\ rows'[c].author = rows[c].author]_vars

\* "Replaying the final event is a no-op" (consumer.go:115-117): applying the
\* commit the cursor already names changes no row.
RedeliveryIsNoOp ==
  [][pos = cursor /\ phase = "applying" => rows' = rows]_vars

\* Everything published has been read, and whatever its owner signed was
\* believed.
CaughtUp == \A s \in DOMAIN log : s \in applied \/ log[s].key = NoKey

\* The last profile that r signed and that decodes, of the first n commits of
\* log l.
Stations(l, r, n) ==
  {s \in 1 .. n : l[s].repo = r /\ l[s].key # NoKey /\ ProfilesOf(l[s]) # {}}

LastStation(l, r, n) ==
  IF Stations(l, r, n) = {} THEN None
  ELSE LET last == CHOOSE s \in Stations(l, r, n) :
                     \A t \in Stations(l, r, n) : t <= s
       IN  CHOOSE p \in ProfilesOf(l[last]) : TRUE

\* Once caught up, the index and the repositories agree - however often the
\* consumer stopped on the way.  Each row is where its repository holds it, and no
\* believable record is missing (schema.sql:3-6).  A repository is shown with the
\* last profile it published that decodes ("a later one supersedes an earlier
\* one", store.go:224-226), although a backfill may have run ahead of the log and
\* the log then behind it.  That is not always the profile it holds: a delete
\* leaves the old one shown, and so does an update the consumer cannot read
\* (consumer.go:324-330).
CaughtUpAgrees ==
  CaughtUp =>
    /\ \A u \in Uris, c \in Contents :
         (rows[c] # None /\ rows[c].uri = u) <=> (held[u] = c /\ Believable(u[1], c))
    /\ \A r \in Repos : profile[r] = LastStation(log, r, Len(log))

\* "Every row is reconstructible by replaying the firehose" (schema.sql:3-4), of
\* what the server still replays: a rebuilt index that missed nothing, and has
\* come as far as the discarded one had, holds the same records at the same URIs.
ReindexRebuilds ==
  before # None /\ missed = {} /\ cursor = before.cursor =>
    IndexedAt(rows) = before.index

\* A commit its owner signed is indexed in the end, whatever was written by
\* others before it (consumer.go:171-174, record.go:92-95), through crashes and
\* rebuilds, unless the server stops replaying it first.
SignedCommitsGetIndexed ==
  \A s \in 1 .. MaxSeq :
    (s \in DOMAIN log /\ log[s].key # NoKey) ~> (s \in applied \/ s <= forgotten)
=============================================================================
