---------------------------- MODULE IngestProofs ----------------------------
(***************************************************************************)
(* What holds of the ingest service for every number of repositories,      *)
(* records, commits, rotations, faults and rebuilds: its type invariant;   *)
(* that no commit is lost; that nothing is believed without a signature;   *)
(* what one transaction does, so that what was learnt first is kept and a  *)
(* redelivery changes nothing; that the service implements DerivedIndex;   *)
(* and that a caught up or a rebuilt index is the right one.               *)
(***************************************************************************)
EXTENDS Ingest, WellFoundedInduction, TLAPS

Commit == [repo : Repos, key : Keys \cup {NoKey}, ops : Seq(Op)]
Tables == [Contents -> Row \cup {None}]
Names  == [Repos -> Profiles \cup {None}]
Tx     == [rows : Tables, profile : Names, now : 1 .. MaxSeq]

\* The record an operation names belongs in its collection.
FitsPath(op) == op.action # "delete" => op.cid \in RecordsAt(op.path)

\* What TypeOK needs to be inductive: a record is only ever published and held
\* in its own collection, keys are numbered by rotations, a commit in hand is on
\* the log, and there is a transaction exactly while one is being applied.
TypeInv ==
  /\ TypeOK
  /\ Len(log) <= MaxSeq
  /\ \A s \in DOMAIN log : \A i \in DOMAIN log[s].ops : FitsPath(log[s].ops[i])
  /\ \A r \in Repos, p \in Paths : held[<<r, p>>] \in RecordsAt(p) \cup {None}
  /\ rotations <= MaxRotations
  /\ \A r \in Repos : key[r] <= rotations + 1
  /\ cursor <= Len(log)
  /\ phase \in {"verified", "applying"} => pos >= 1
  /\ phase = "applying" => tx \in Tx

----------------------------------------------------------------------------
(* Operators.                                                              *)

LEMMA RecordsAtTyped ==
  ASSUME NEW p \in Paths
  PROVE  /\ RecordsAt(p) \subseteq Contents \cup Profiles
         /\ p = Self => RecordsAt(p) = Profiles
         /\ p # Self => RecordsAt(p) \subseteq Contents
  BY DEF Paths, RecordsAt, Self, Contents

\* A set of naturals has a least one.
LEMMA LeastNat ==
  ASSUME NEW T, T \subseteq Nat, T # {}
  PROVE  \E n \in T : \A m \in T : n <= m
  <1> DEFINE R == OpToRel(<, Nat)
  <1>1. IsWellFoundedOn(R, Nat)
    BY NatLessThanWellFounded
  <1> HIDE DEF R
  <1>2. PICK n \in T : \A m \in T : ~(<<m, n>> \in R)
    BY <1>1, WFMin
  <1>3. \A m \in T : ~(m < n)
    BY <1>2 DEF R, OpToRel
  <1> QED BY <1>3

\* Every operation the PDS accepts is well typed and fits its path.
LEMMA OpsTyped ==
  ASSUME NEW r, NEW op \in OpsOf(r)
  PROVE  /\ op \in Op
         /\ FitsPath(op)
         /\ op.cid \in RecordsAt(op.path) \cup {None}
  BY RecordsAtTyped DEF OpsOf, Op, FitsPath

LEMMA CommitsTyped ==
  ASSUME MaxOps \in Nat, NEW r, NEW ops \in CommitsOf(r)
  PROVE  /\ ops \in Seq(Op)
         /\ \A i \in DOMAIN ops : /\ ops[i] \in Op
                                  /\ FitsPath(ops[i])
                                  /\ ops[i].cid \in RecordsAt(ops[i].path) \cup {None}
  <1>1. PICK n \in 1 .. MaxOps : ops \in [1 .. n -> OpsOf(r)]
    BY DEF CommitsOf
  <1>2. \A i \in DOMAIN ops : ops[i] \in OpsOf(r)
    BY <1>1
  <1>3. \A i \in DOMAIN ops : /\ ops[i] \in Op
                              /\ FitsPath(ops[i])
                              /\ ops[i].cid \in RecordsAt(ops[i].path) \cup {None}
    BY <1>2, OpsTyped
  <1>4. ops \in [1 .. n -> Op]
    BY <1>1, <1>3
  <1> QED BY <1>3, <1>4

LEMMA UpsertRowTyped ==
  ASSUME NEW rs \in Tables, NEW u \in Uris, NEW c, NEW now \in 1 .. MaxSeq,
         pos \in 1 .. MaxSeq
  PROVE  UpsertRow(rs, u, c, now) \in Tables
  <1>1. [uri |-> u, author |-> u[1], observed |-> now, seq |-> pos] \in Row
    BY DEF Row, Uris
  <1>2. ASSUME NEW row \in Row PROVE [row EXCEPT !.uri = u, !.seq = pos] \in Row
    BY <1>2 DEF Row
  <1>3. ASSUME c \in Contents, rs[c] # None PROVE rs[c] \in Row
    BY <1>3 DEF Tables
  <1> QED
    BY <1>1, <1>2, <1>3 DEF UpsertRow, Tables

LEMMA DeleteUriTyped ==
  ASSUME NEW rs \in Tables, NEW u
  PROVE  DeleteUri(rs, u) \in Tables
  BY DEF DeleteUri, Tables

\* A commit on the log, and its operations.
LEMMA CommitsOnLog ==
  ASSUME TypeInv, NEW s \in DOMAIN log
  PROVE  /\ log[s] \in Commit
         /\ log[s].repo \in Repos
         /\ \A i \in DOMAIN log[s].ops : log[s].ops[i] \in Op /\ FitsPath(log[s].ops[i])
  <1>1. log \in Seq(Commit)
    BY DEF TypeInv, TypeOK, Commit
  <1>2. log[s] \in Commit
    BY <1>1
  <1>3. log[s].ops \in Seq(Op) /\ log[s].repo \in Repos
    BY <1>2 DEF Commit
  <1>4. \A i \in DOMAIN log[s].ops : log[s].ops[i] \in Op
    BY <1>3
  <1> QED BY <1>2, <1>3, <1>4 DEF TypeInv

\* The commit being handled, and its transaction.
LEMMA InHand ==
  ASSUME TypeInv, phase \in {"verified", "applying"}
  PROVE  /\ Len(log) \in 1 .. MaxSeq
         /\ pos \in DOMAIN log
         /\ pos \in 1 .. MaxSeq
         /\ phase = "applying" => tx \in Tx
  <1>1. log \in Seq(Commit) /\ Len(log) \in Nat /\ DOMAIN log = 1 .. Len(log)
    BY DEF TypeInv, TypeOK, Commit
  <1> QED BY <1>1, IngestAssumption DEF TypeInv, TypeOK

----------------------------------------------------------------------------
(* Type correctness.                                                       *)

LEMMA TypeInit == Init => TypeInv
  <1> SUFFICES ASSUME Init PROVE TypeInv
    OBVIOUS
  <1> USE IngestAssumption
  <1>1. key = [r \in Repos |-> 1] /\ dirKey = key
    BY DEF Init
  <1>2. 1 \in Keys
    BY DEF Keys
  <1>3. held = [u \in Uris |-> None] /\ log = << >>
    BY DEF Init
  <1>4. Uris = Repos \X Paths
    BY DEF Uris
  <1>5. TypeOK
    BY <1>1, <1>2, <1>3 DEF Init, TypeOK, NoRows
  <1> QED
    BY <1>1, <1>3, <1>4, <1>5 DEF Init, TypeInv

\* The log and the repositories change, well typed, and nothing else does.
LEMMA LogGrowsTyped ==
  ASSUME TypeInv,
         log' \in Seq(Commit), Len(log') = Len(log) + 1, Len(log) < MaxSeq,
         \A s \in DOMAIN log' : \A i \in DOMAIN log'[s].ops : FitsPath(log'[s].ops[i]),
         held' \in [Uris -> Contents \cup Profiles \cup {None}],
         \A r \in Repos, p \in Paths : held'[<<r, p>>] \in RecordsAt(p) \cup {None},
         UNCHANGED <<forgotten, key, dirKey, db, process, bounds, history>>
  PROVE  TypeInv'
  <1> USE IngestAssumption
  <1>1. Len(log) \in Nat /\ pos \in 0 .. Len(log) /\ cursor \in -1 .. MaxSeq
        /\ forgotten \in 0 .. Len(log) /\ cursor <= Len(log) /\ MaxSeq \in Nat
    BY DEF TypeInv, TypeOK
  <1>2. UNCHANGED <<forgotten, key, dirKey, rows, profile, cursor, phase, pos, asked,
                    fetched, tx, next, rotations, faults, reindexes, applied, skipped,
                    missed, before>>
    BY DEF db, process, bounds, history
  <1>3. forgotten' \in 0 .. Len(log') /\ pos' \in 0 .. Len(log') /\ cursor' <= Len(log') /\ Len(log') <= MaxSeq
    BY <1>1, <1>2
  <1>4. TypeOK'
    BY <1>2, <1>3 DEF TypeInv, TypeOK, Commit
  <1> QED
    BY <1>2, <1>3, <1>4 DEF TypeInv

LEMMA PublishTyped ==
  ASSUME TypeInv, NEW r \in Repos, Publish(r) PROVE TypeInv'
  <1> USE IngestAssumption
  <1> DEFINE New(ops) == [repo |-> r, key |-> key[r], ops |-> ops]
  <1>1. PICK ops \in CommitsOf(r) : /\ log' = Append(log, New(ops))
                                    /\ held' = HeldAfter(r, ops)
    BY DEF Publish
  <1>2. /\ ops \in Seq(Op)
        /\ \A i \in DOMAIN ops : /\ ops[i] \in Op
                                 /\ FitsPath(ops[i])
                                 /\ ops[i].cid \in RecordsAt(ops[i].path) \cup {None}
    BY CommitsTyped
  <1>3. New(ops) \in Commit
    BY <1>2 DEF Commit, TypeInv, TypeOK
  <1>4. log \in Seq(Commit) /\ Len(log) \in Nat /\ Len(log) < MaxSeq
    BY DEF TypeInv, TypeOK, Commit, Publish
  <1>5. /\ log' \in Seq(Commit)
        /\ Len(log') = Len(log) + 1
        /\ DOMAIN log' = 1 .. Len(log) + 1
        /\ \A s \in DOMAIN log : log'[s] = log[s]
        /\ log'[Len(log) + 1] = New(ops)
    BY <1>1, <1>3, <1>4
  <1>6. \A s \in DOMAIN log' : \A i \in DOMAIN log'[s].ops : FitsPath(log'[s].ops[i])
    BY <1>2, <1>4, <1>5, SMTT(30) DEF TypeInv
  <1>7. \A q \in Repos, p \in Paths : held'[<<q, p>>] \in RecordsAt(p) \cup {None}
    <2> SUFFICES ASSUME NEW q \in Repos, NEW p \in Paths
                 PROVE  held'[<<q, p>>] \in RecordsAt(p) \cup {None}
      OBVIOUS
    <2>1. <<q, p>> \in Uris
      BY DEF Uris
    <2>2. CASE q = r /\ \E i \in DOMAIN ops : ops[i].path = p
      <3>1. PICK i \in DOMAIN ops : held'[<<q, p>>] = ops[i].cid /\ ops[i].path = p
        BY <1>1, <2>1, <2>2 DEF HeldAfter
      <3> QED BY <1>2, <3>1
    <2>3. CASE ~(q = r /\ \E i \in DOMAIN ops : ops[i].path = p)
      <3>1. held'[<<q, p>>] = held[<<q, p>>]
        BY <1>1, <2>1, <2>3 DEF HeldAfter
      <3> QED BY <3>1 DEF TypeInv
    <2> QED BY <2>2, <2>3
  <1>8. held' \in [Uris -> Contents \cup Profiles \cup {None}]
    <2>1. held' = [u \in Uris |-> held'[u]]
      BY <1>1 DEF HeldAfter
    <2>2. \A u \in Uris : held'[u] \in Contents \cup Profiles \cup {None}
      BY <1>7, RecordsAtTyped DEF Uris
    <2> QED BY <2>1, <2>2
  <1> QED
    BY <1>4, <1>5, <1>6, <1>7, <1>8, LogGrowsTyped DEF Publish

LEMMA PublishUnverifiableTyped ==
  ASSUME TypeInv, NEW r \in Repos, PublishUnverifiable(r) PROVE TypeInv'
  <1> USE IngestAssumption
  <1>1. PICK op \in OpsOf(r) :
          log' = Append(log, [repo |-> r, key |-> NoKey, ops |-> <<op>>])
    BY DEF PublishUnverifiable
  <1> DEFINE m == [repo |-> r, key |-> NoKey, ops |-> <<op>>]
  <1>2. m \in Commit /\ \A i \in DOMAIN m.ops : FitsPath(m.ops[i])
    BY OpsTyped DEF Commit
  <1>3. log \in Seq(Commit) /\ Len(log) \in Nat /\ Len(log) < MaxSeq
    BY DEF TypeInv, TypeOK, Commit, PublishUnverifiable
  <1>4. /\ log' \in Seq(Commit)
        /\ Len(log') = Len(log) + 1
        /\ \A s \in DOMAIN log' : IF s \in DOMAIN log THEN log'[s] = log[s]
                                                      ELSE log'[s] = m
    BY <1>1, <1>2, <1>3
  <1>5. \A s \in DOMAIN log' : \A i \in DOMAIN log'[s].ops : FitsPath(log'[s].ops[i])
    BY <1>2, <1>4 DEF TypeInv
  <1>6. UNCHANGED <<forgotten, held, key, dirKey, db, process, bounds, history>>
    BY DEF PublishUnverifiable
  <1>7. /\ held' \in [Uris -> Contents \cup Profiles \cup {None}]
        /\ \A q \in Repos, p \in Paths : held'[<<q, p>>] \in RecordsAt(p) \cup {None}
    BY <1>6 DEF TypeInv, TypeOK
  <1> QED
    BY <1>3, <1>4, <1>5, <1>6, <1>7, LogGrowsTyped

LEMMA KeysTyped ==
  ASSUME TypeInv, NEW r \in Repos, RotateKey(r) \/ RefreshDirectory(r)
  PROVE  TypeInv'
  <1> USE IngestAssumption
  <1>1. UNCHANGED <<log, forgotten, held, db, process, history>>
    BY DEF RotateKey, RefreshDirectory
  <1>2. /\ rotations' \in Nat /\ faults' \in Nat /\ reindexes' \in Nat
        /\ rotations' <= MaxRotations
        /\ \A q \in Repos : key'[q] \in Keys /\ key'[q] <= rotations' + 1
        /\ key' \in [Repos -> Keys]
        /\ dirKey' \in [Repos -> Keys]
    <2>1. CASE RotateKey(r)
      <3>1. /\ MaxRotations \in Nat
            /\ rotations \in Nat /\ faults' \in Nat /\ reindexes' \in Nat
            /\ rotations' = rotations + 1 /\ rotations < MaxRotations
        BY <2>1 DEF RotateKey, TypeInv, TypeOK
      <3>2. /\ \A q \in Repos : key[q] \in 1 .. MaxRotations + 1 /\ key[q] <= rotations + 1
            /\ key \in [Repos -> Keys] /\ dirKey \in [Repos -> Keys]
        BY DEF TypeInv, TypeOK, Keys
      <3>3. key' = [key EXCEPT ![r] = key[r] + 1]
        BY <2>1 DEF RotateKey
      <3>4. \A q \in Repos : key'[q] \in Keys /\ key'[q] <= rotations' + 1
        BY <3>1, <3>2, <3>3 DEF Keys
      <3>5. key' \in [Repos -> Keys]
        BY <3>2, <3>3, <3>4
      <3>6. dirKey' \in [Repos -> Keys]
        BY <2>1, <3>2, <3>4 DEF RotateKey
      <3> QED BY <3>1, <3>4, <3>5, <3>6
    <2>2. CASE RefreshDirectory(r)
      BY <2>2 DEF RefreshDirectory, TypeInv, TypeOK, bounds
    <2> QED BY <2>1, <2>2
  <1> QED
    BY <1>1, <1>2 DEF TypeInv, TypeOK, db, process, history, Tx

LEMMA DropOldestTyped == ASSUME TypeInv, DropOldest PROVE TypeInv'
  <1>1. /\ UNCHANGED <<log, held, key, dirKey, db, process, bounds, history>>
        /\ Len(log) \in Nat /\ forgotten \in 0 .. Len(log) /\ forgotten < Len(log)
        /\ forgotten' = forgotten + 1
    BY DEF DropOldest, TypeInv, TypeOK
  <1>2. forgotten' \in 0 .. Len(log')
    BY <1>1
  <1> QED
    BY <1>1, <1>2 DEF TypeInv, TypeOK, db, process, bounds, history, Tx

LEMMA StartTyped ==
  ASSUME TypeInv, NEW reindex, Start(reindex) PROVE TypeInv'
  <1> USE IngestAssumption
  <1>1. /\ UNCHANGED <<log, forgotten, held, key, pos, asked, fetched, tx, next,
                       rotations, faults>>
        /\ dirKey' = key
        /\ phase' = "connecting"
    BY DEF Start
  <1>2. /\ rows' \in Tables
        /\ profile' \in Names
        /\ cursor' \in -1 .. MaxSeq /\ cursor' <= Len(log)
        /\ reindexes' \in Nat
        /\ applied' \in SUBSET (1 .. MaxSeq)
        /\ skipped' \in SUBSET (1 .. MaxSeq)
        /\ missed' \in SUBSET (1 .. MaxSeq)
        /\ before' \in [cursor : -1 .. MaxSeq,
                        index : [Contents -> Uris \cup {None}],
                        whole : BOOLEAN] \cup {None}
    <2>1. CASE reindex
      <3>1. IndexedAt(rows) \in [Contents -> Uris \cup {None}]
        BY DEF IndexedAt, TypeInv, TypeOK, Row
      <3>2. Len(log) \in Nat /\ cursor \in -1 .. MaxSeq
        BY DEF TypeInv, TypeOK
      <3>3. (missed = {}) \in BOOLEAN
        OBVIOUS
      <3>4. /\ before' = [cursor |-> cursor, index |-> IndexedAt(rows),
                          whole |-> missed = {}]
            /\ applied' = {} /\ skipped' = {} /\ missed' = {}
            /\ reindexes' = reindexes + 1 /\ cursor' = -1
            /\ rows' = NoRows /\ profile' = [r \in Repos |-> None]
        BY <2>1 DEF Start, Reset
      <3>5. before' \in [cursor : -1 .. MaxSeq,
                         index : [Contents -> Uris \cup {None}], whole : BOOLEAN]
        BY <3>1, <3>2, <3>3, <3>4
      <3> QED
        BY <3>2, <3>4, <3>5 DEF NoRows, TypeInv, TypeOK, Tables, Names
    <2>2. CASE ~reindex
      BY <2>2 DEF Start, db, history, TypeInv, TypeOK, Tables, Names
    <2> QED BY <2>1, <2>2
  <1> QED
    BY <1>1, <1>2 DEF TypeInv, TypeOK, Tables, Names

\* Connecting, and every way of losing the connection.
LEMMA ConnectionTyped ==
  ASSUME TypeInv, Connect \/ Disconnect \/ Crash \/ ApplyFails PROVE TypeInv'
  <1> USE IngestAssumption
  <1>1. UNCHANGED <<pds, db, rotations, reindexes, history>>
    BY DEF Connect, Disconnect, Crash, ApplyFails, Reconnect, bounds, db
  <1>2. SubscribeFrom(cursor) \in 0 .. Len(log) /\ 0 \in 0 .. Len(log)
    BY DEF SubscribeFrom, TypeInv, TypeOK
  <1>3. /\ phase' \in {"down", "connecting", "streaming"}
        /\ pos' \in 0 .. Len(log)
        /\ asked' \in SUBSET Repos
        /\ fetched' \in Profiles \cup {None}
        /\ tx' \in Tx \cup {None}
        /\ next' \in Nat
        /\ faults' \in Nat
    <2>1. faults \in Nat /\ asked \in SUBSET Repos
      BY DEF TypeInv, TypeOK
    <2>2. CASE Connect
      BY <1>2, <2>1, <2>2
         DEF Connect, TypeInv, TypeOK, bounds, Tx, Tables, Names
    <2>3. CASE Disconnect
      BY <1>2, <2>1, <2>3 DEF Disconnect, Reconnect, NotHandling
    <2>4. CASE Crash
      BY <1>2, <2>1, <2>4 DEF Crash, NotHandling
    <2>5. CASE ApplyFails
      BY <1>2, <2>1, <2>5 DEF ApplyFails, Reconnect, NotHandling, bounds
    <2> QED BY <2>2, <2>3, <2>4, <2>5
  <1> QED
    BY <1>1, <1>3 DEF TypeInv, TypeOK, pds, db, history, Tx, Tables, Names

\* The event the server delivers next is on the log.
LEMMA NextDelivered ==
  ASSUME TypeInv, HandleCommit
  PROVE  /\ Delivered \in Nat /\ pos' = Delivered + 1
         /\ pos' \in 1 .. Len(log) /\ pos' \in DOMAIN log
  <1>1. /\ Len(log) \in Nat /\ DOMAIN log = 1 .. Len(log)
        /\ pos \in 0 .. Len(log) /\ forgotten \in 0 .. Len(log)
    BY DEF TypeInv, TypeOK
  <1>2. Delivered \in 0 .. Len(log) /\ Delivered < Len(log) /\ pos' = Delivered + 1
    BY <1>1 DEF HandleCommit, Delivered
  <1> QED BY <1>1, <1>2

LEMMA HandleCommitTyped == ASSUME TypeInv, HandleCommit PROVE TypeInv'
  <1> USE IngestAssumption
  <1>1. /\ Len(log) \in Nat /\ Len(log) <= MaxSeq /\ pos' \in 1 .. Len(log)
        /\ missed' \in SUBSET (1 .. MaxSeq)
    <2>1. /\ Len(log) \in Nat /\ Len(log) <= MaxSeq /\ MaxSeq \in Nat
          /\ pos \in 0 .. Len(log) /\ forgotten \in 0 .. Len(log)
          /\ missed \in SUBSET (1 .. MaxSeq)
      BY DEF TypeInv, TypeOK
    <2>2. /\ Delivered \in 0 .. Len(log) /\ Delivered < Len(log) /\ pos' = Delivered + 1
          /\ missed' = missed \cup ((pos + 1 .. Delivered) \ applied)
      BY <2>1 DEF HandleCommit, Delivered
    <2>3. pos' \in 1 .. Len(log)
      BY <2>1, <2>2
    <2>4. pos + 1 .. Delivered \subseteq 1 .. MaxSeq
      BY <2>1, <2>2
    <2>5. missed' \in SUBSET (1 .. MaxSeq)
      BY <2>1, <2>2, <2>4, Zenon
    <2> QED BY <2>1, <2>3, <2>5
  <1>2. phase' \in {"verified", "streaming"} /\ skipped' \in SUBSET (1 .. MaxSeq)
    <2>1. skipped \in SUBSET (1 .. MaxSeq) /\ pos' \in 1 .. MaxSeq
      BY <1>1, SMTT(30) DEF TypeInv, TypeOK
    <2>2. CASE Verifies(log[pos'])
      BY <2>1, <2>2 DEF HandleCommit
    <2>3. CASE ~Verifies(log[pos'])
      BY <2>1, <2>3 DEF HandleCommit
    <2> QED BY <2>2, <2>3
  <1>3. UNCHANGED <<pds, db, asked, fetched, tx, next, bounds, applied, before>>
    BY DEF HandleCommit
  <1>4. pos' \in 0 .. Len(log') /\ pos' >= 1
    BY <1>1, <1>3 DEF pds
  <1>5. TypeOK'
    BY <1>1, <1>2, <1>3, <1>4 DEF TypeInv, TypeOK, pds, db, bounds
  <1> QED
    BY <1>2, <1>3, <1>4, <1>5 DEF TypeInv, pds, db, bounds

LEMMA BackfillProfileTyped == ASSUME TypeInv, BackfillProfile PROVE TypeInv'
  <1> USE IngestAssumption
  <1> DEFINE r == log[pos].repo
  <1>1. Len(log) \in 1 .. MaxSeq /\ pos \in DOMAIN log /\ r \in Repos
    BY InHand, CommitsOnLog DEF BackfillProfile
  <1>2. held[<<r, Self>>] \in Profiles \cup {None}
    BY <1>1, RecordsAtTyped DEF TypeInv, Paths
  <1>3. asked' \in SUBSET Repos /\ fetched' \in Profiles \cup {None}
    BY <1>1, <1>2 DEF BackfillProfile, FetchStation, TypeInv, TypeOK
  <1>4. tx' \in Tx
    BY <1>1 DEF BackfillProfile, Tx, Tables, Names, Now, TypeInv, TypeOK
  <1>5. /\ phase' = "applying" /\ next' = 1 /\ phase = "verified"
        /\ UNCHANGED <<pds, db, pos, bounds, history>>
    BY DEF BackfillProfile
  <1> QED
    BY <1>3, <1>4, <1>5 DEF TypeInv, TypeOK, pds, db, bounds, history, Tx, Tables, Names

LEMMA WithRecordTyped ==
  ASSUME NEW t \in Tx, NEW m \in Commit, NEW op \in Op, FitsPath(op),
         pos \in 1 .. MaxSeq
  PROVE  WithRecord(t, m, op) \in Tx
  <1> DEFINE u == <<m.repo, op.path>>
  <1>1. /\ t.rows \in Tables /\ t.profile \in Names /\ t.now \in 1 .. MaxSeq
        /\ m.repo \in Repos /\ u \in Uris
    BY DEF Tx, Commit, Op, Uris
  <1>2. ASSUME NEW rs \in Tables PROVE [t EXCEPT !.rows = rs] \in Tx
    BY <1>2 DEF Tx
  <1>3. ASSUME NEW ps \in Names PROVE [t EXCEPT !.profile = ps] \in Tx
    BY <1>3 DEF Tx
  <1>4. [t EXCEPT !.rows = DeleteUri(t.rows, u)] \in Tx
    BY <1>1, <1>2, DeleteUriTyped
  <1>5. [t EXCEPT !.rows = UpsertRow(t.rows, u, op.cid, t.now)] \in Tx
    BY <1>1, <1>2, UpsertRowTyped
  <1>6. ASSUME HasStation(op)
        PROVE  [t EXCEPT !.profile = UpsertStation(t.profile, m.repo, op.cid)] \in Tx
    <2>1. op.cid \in Profiles
      BY <1>6, RecordsAtTyped DEF FitsPath, Op, HasStation
    <2>2. UpsertStation(t.profile, m.repo, op.cid) \in Names
      BY <1>1, <2>1 DEF UpsertStation, Names
    <2> QED BY <1>3, <2>2
  <1> QED
    BY <1>4, <1>5, <1>6 DEF WithRecord

LEMMA ApplyRecordTyped == ASSUME TypeInv, ApplyRecord PROVE TypeInv'
  <1> USE IngestAssumption
  <1>1. pos \in DOMAIN log /\ pos \in 1 .. MaxSeq /\ tx \in Tx
    BY InHand DEF ApplyRecord
  <1>2. log[pos] \in Commit /\ log[pos].ops[next] \in Op /\ FitsPath(log[pos].ops[next])
    BY <1>1, CommitsOnLog DEF ApplyRecord
  <1>3. tx' \in Tx
    BY <1>1, <1>2, WithRecordTyped DEF ApplyRecord
  <1>4. next' \in Nat
    BY DEF ApplyRecord, TypeInv, TypeOK
  <1>5. UNCHANGED <<log, forgotten, held, key, dirKey, rows, profile, cursor, phase,
                    pos, asked, fetched, rotations, faults, reindexes, applied, skipped,
                    missed, before>>
    BY DEF ApplyRecord, pds, db, bounds, history
  <1>6. TypeOK'
    BY <1>3, <1>4, <1>5 DEF TypeInv, TypeOK, Tx, Tables, Names
  <1> QED
    BY <1>3, <1>5, <1>6 DEF TypeInv

LEMMA ApplyBackfilledTyped == ASSUME TypeInv, ApplyBackfilled PROVE TypeInv'
  <1> USE IngestAssumption
  <1>1. tx \in Tx /\ fetched \in Profiles
    BY DEF ApplyBackfilled, TypeInv, TypeOK
  <1>2. UpsertStation(tx.profile, log[pos].repo, fetched) \in Names
    BY <1>1 DEF UpsertStation, Tx, Names
  <1>3. tx' \in Tx
    BY <1>1, <1>2 DEF ApplyBackfilled, Tx
  <1>4. fetched' = None /\ UNCHANGED <<pds, db, phase, pos, asked, next, bounds, history>>
    BY DEF ApplyBackfilled
  <1> QED
    BY <1>3, <1>4 DEF TypeInv, TypeOK, pds, db, bounds, history, Tx, Tables, Names

LEMMA CommitTxTyped == ASSUME TypeInv, CommitTx PROVE TypeInv'
  <1> USE IngestAssumption
  <1>1. tx \in Tx /\ pos \in 1 .. Len(log) /\ pos \in 1 .. MaxSeq
    BY DEF CommitTx, TypeInv, TypeOK
  <1>2. /\ rows' \in Tables
        /\ profile' \in Names
        /\ cursor' \in 1 .. MaxSeq /\ cursor' <= Len(log)
        /\ applied' \in SUBSET (1 .. MaxSeq)
        /\ skipped' \in SUBSET (1 .. MaxSeq)
    <2>1. applied \in SUBSET (1 .. MaxSeq) /\ skipped \in SUBSET (1 .. MaxSeq)
      BY DEF TypeInv, TypeOK
    <2>2. /\ rows' = tx.rows /\ profile' = tx.profile /\ cursor' = pos
          /\ applied' = applied \cup {pos} /\ skipped' = skipped \ {pos}
      BY DEF CommitTx
    <2> QED BY <1>1, <2>1, <2>2 DEF Tx
  <1>3. /\ phase' = "streaming" /\ fetched' = None /\ tx' = None /\ next' = 0
        /\ UNCHANGED <<pds, pos, asked, bounds, missed, before>>
    BY DEF CommitTx, NotHandling
  <1>4. cursor' \in -1 .. MaxSeq /\ cursor' <= Len(log')
    BY <1>2, <1>3 DEF pds
  <1>5. TypeOK'
    BY <1>2, <1>3, <1>4 DEF TypeInv, TypeOK, pds, bounds, Tables, Names
  <1> QED
    BY <1>3, <1>4, <1>5 DEF TypeInv, pds, bounds

LEMMA TypeStep == TypeInv /\ [Next]_vars => TypeInv'
  <1> SUFFICES ASSUME TypeInv, [Next]_vars PROVE TypeInv'
    OBVIOUS
  <1>1. ASSUME NEW r \in Repos,
               \/ Publish(r) \/ PublishUnverifiable(r)
               \/ RotateKey(r) \/ RefreshDirectory(r)
        PROVE  TypeInv'
    BY <1>1, PublishTyped, PublishUnverifiableTyped, KeysTyped
  <1>2. CASE Start(TRUE) \/ Start(FALSE)
    BY <1>2, StartTyped
  <1>3. CASE Disconnect \/ Crash \/ Connect \/ ApplyFails
    BY <1>3, ConnectionTyped
  <1>4. CASE HandleCommit
    BY <1>4, HandleCommitTyped
  <1>5. CASE BackfillProfile
    BY <1>5, BackfillProfileTyped
  <1>6. CASE ApplyRecord
    BY <1>6, ApplyRecordTyped
  <1>7. CASE ApplyBackfilled
    BY <1>7, ApplyBackfilledTyped
  <1>8. CASE CommitTx
    BY <1>8, CommitTxTyped
  <1>9. CASE UNCHANGED vars
    BY <1>9 DEF TypeInv, TypeOK, vars, pds, db, process, bounds, history, Tx, Tables,
       Names
  <1> QED
    BY <1>1, <1>2, <1>3, <1>4, <1>5, <1>6, <1>7, <1>8, <1>9, DropOldestTyped
       DEF Next, Environment, Consumer

\* Every variable keeps the shape TypeOK gives it, in every behaviour of the
\* service (consumer.go, store.go): no step of it, however interleaved with the
\* publishers, the directory and the faults, takes it outside these sets.
THEOREM TypeCorrect == Spec => []TypeOK
  <1>1. TypeInv => TypeOK
    BY DEF TypeInv
  <1> QED
    BY TypeInit, TypeStep, <1>1, PTL DEF Spec

----------------------------------------------------------------------------
(* No commit is lost.                                                      *)

Settled(n) == \A s \in 1 .. n : s \in applied \cup skipped \cup missed

\* Why NoCommitLost survives a step: everything the connection has delivered
\* is settled, but for the commit in hand, which the server still had, and it
\* never runs behind the cursor by more than the one event an inclusive server
\* sends again.
ProgressInv ==
  /\ NoCommitLost
  /\ phase = "streaming" => Settled(pos) /\ pos >= cursor - 1
  /\ phase \in {"verified", "applying"} =>
       Settled(pos - 1) /\ pos >= cursor /\ pos \notin missed

LEMMA ProgressInit == Init => ProgressInv
  BY DEF Init, ProgressInv, NoCommitLost

LEMMA ConnectProgress == ASSUME TypeInv, ProgressInv, Connect PROVE ProgressInv'
  <1>1. cursor \in Int /\ UNCHANGED <<forgotten, cursor, applied, skipped, missed>>
    BY DEF Connect, pds, db, history, TypeInv, TypeOK
  <1>2. /\ pos' \in Nat /\ pos' >= cursor - 1 /\ (pos' <= cursor \/ pos' = 0)
    BY <1>1 DEF Connect, SubscribeFrom
  <1>3. Settled(pos)'
    BY <1>1, <1>2 DEF ProgressInv, NoCommitLost, Settled
  <1> QED
    BY <1>1, <1>2, <1>3 DEF ProgressInv, NoCommitLost, Connect

LEMMA HandleProgress == ASSUME TypeInv, ProgressInv, HandleCommit PROVE ProgressInv'
  <1>1. /\ cursor \in Int /\ pos \in Nat /\ forgotten \in Nat
        /\ applied \subseteq Nat
        /\ Settled(pos) /\ pos >= cursor - 1 /\ NoCommitLost
        /\ UNCHANGED <<forgotten, cursor, applied>>
    BY DEF HandleCommit, pds, db, TypeInv, TypeOK, ProgressInv
  <1>2. /\ Delivered \in Nat /\ Delivered >= pos /\ Delivered >= forgotten
        /\ Delivered = pos \/ Delivered = forgotten
        /\ pos' = Delivered + 1
        /\ missed' = missed \cup ((pos + 1 .. Delivered) \ applied)
    BY <1>1 DEF HandleCommit, Delivered
  <1>3. /\ \A s \in 1 .. Delivered : s \in applied \cup skipped \cup missed'
        /\ missed \subseteq missed' /\ pos' \notin missed' /\ pos' >= cursor
        /\ \A s \in missed' : s <= forgotten /\ s \notin applied
    <2>1. \A s \in 1 .. Delivered : s \in 1 .. pos \/ s \in pos + 1 .. Delivered
      BY <1>1, <1>2
    <2>2. \A s \in missed' : s <= forgotten /\ s \notin applied
      BY <1>1, <1>2 DEF NoCommitLost
    <2>3. pos' > forgotten /\ pos' >= cursor
      BY <1>1, <1>2
    <2>4. pos' \notin missed'
      BY <1>1, <1>2, <2>2, <2>3
    <2> QED BY <1>1, <1>2, <2>1, <2>2, <2>3, <2>4 DEF Settled
  <1>4. skipped \subseteq skipped' /\ pos' - 1 = Delivered
    BY <1>2 DEF HandleCommit
  <1>5. NoCommitLost'
    BY <1>1, <1>3, <1>4 DEF NoCommitLost
  <1>6. CASE Verifies(log[pos'])
    <2>1. phase' = "verified"
      BY <1>6 DEF HandleCommit
    <2>2. Settled(pos - 1)'
      BY <1>1, <1>3, <1>4 DEF Settled
    <2> QED
      BY <1>1, <1>3, <1>5, <2>1, <2>2 DEF ProgressInv
  <1>7. CASE ~Verifies(log[pos'])
    <2>1. phase' = "streaming" /\ skipped' = skipped \cup ({pos'} \ applied)
      BY <1>7 DEF HandleCommit
    <2>2. \A s \in 1 .. pos' : s \in 1 .. Delivered \/ s = pos'
      BY <1>2
    <2>3. Settled(pos)'
      BY <1>1, <1>3, <1>4, <2>1, <2>2 DEF Settled
    <2> QED
      BY <1>1, <1>2, <1>3, <1>5, <2>1, <2>3 DEF ProgressInv
  <1> QED BY <1>6, <1>7

LEMMA CommitTxProgress == ASSUME TypeInv, ProgressInv, CommitTx PROVE ProgressInv'
  <1>1. /\ cursor \in Int /\ pos \in Nat /\ applied \subseteq Nat
        /\ Settled(pos - 1) /\ pos >= cursor /\ pos \notin missed
        /\ \A s \in applied : s <= cursor
        /\ \A s \in missed : s <= forgotten /\ s \notin applied
    BY DEF CommitTx, TypeInv, TypeOK, ProgressInv, NoCommitLost
  <1>2. /\ cursor' = pos /\ pos' = pos /\ phase' = "streaming"
        /\ applied' = applied \cup {pos}
        /\ skipped' = skipped \ {pos}
        /\ UNCHANGED <<forgotten, missed>>
    BY DEF CommitTx, pds
  <1>3. Settled(pos)'
    BY <1>1, <1>2 DEF Settled
  <1>4. /\ \A s \in applied' : s <= cursor'
        /\ \A s \in missed' : s <= forgotten' /\ s \notin applied'
    BY <1>1, <1>2
  <1> QED
    BY <1>1, <1>2, <1>3, <1>4 DEF ProgressInv, NoCommitLost, Settled

LEMMA StartProgress ==
  ASSUME TypeInv, ProgressInv, NEW reindex, Start(reindex) PROVE ProgressInv'
  <1>1. CASE reindex
    BY <1>1 DEF Start, Reset, ProgressInv, NoCommitLost
  <1>2. CASE ~reindex
    BY <1>2 DEF Start, db, history, ProgressInv, NoCommitLost, Settled
  <1> QED BY <1>1, <1>2

LEMMA ProgressStep == TypeInv /\ ProgressInv /\ [Next]_vars => ProgressInv'
  <1> SUFFICES ASSUME TypeInv, ProgressInv, [Next]_vars PROVE ProgressInv'
    OBVIOUS
  <1> USE DEF ProgressInv, NoCommitLost, Settled
  <1>1. ASSUME NEW r \in Repos,
               \/ Publish(r) \/ PublishUnverifiable(r)
               \/ RotateKey(r) \/ RefreshDirectory(r)
        PROVE  ProgressInv'
    BY <1>1 DEF Publish, PublishUnverifiable, RotateKey, RefreshDirectory, db, process,
       history
  <1>2. CASE Start(TRUE) \/ Start(FALSE)
    BY <1>2, StartProgress
  <1>3. CASE Disconnect \/ Crash \/ ApplyFails
    BY <1>3 DEF Disconnect, Crash, ApplyFails, Reconnect, pds, db, history
  <1>4. CASE BackfillProfile
    BY <1>4 DEF BackfillProfile, pds, db, history
  <1>5. CASE ApplyRecord \/ ApplyBackfilled
    BY <1>5 DEF ApplyRecord, ApplyBackfilled, pds, db, history
  <1>6. CASE UNCHANGED vars
    BY <1>6 DEF vars, pds, db, process, history
  <1>7. CASE DropOldest
    <2>1. /\ forgotten \in Nat /\ forgotten' = forgotten + 1 /\ missed \subseteq Nat
          /\ UNCHANGED <<cursor, phase, pos, applied, skipped, missed>>
      BY <1>7 DEF DropOldest, db, process, history, TypeInv, TypeOK
    <2> QED BY <2>1
  <1> QED
    BY <1>1, <1>2, <1>3, <1>4, <1>5, <1>6, <1>7, ConnectProgress, HandleProgress,
       CommitTxProgress
    DEF Next, Environment, Consumer

\* No commit is lost, with any number of repositories, commits, crashes,
\* reconnects and rebuilds: the cursor in the database never claims a commit
\* that was neither applied with all its rows, nor refused, nor gone from the
\* server when it was asked for (store.go:79-85, consumer.go:105-138,
\* backfill.go:16-18).
THEOREM NothingLost == Spec => []NoCommitLost
  <1>1. ProgressInv => NoCommitLost
    BY DEF ProgressInv
  <1> QED
    BY TypeInit, TypeStep, ProgressInit, ProgressStep, <1>1, PTL DEF Spec

----------------------------------------------------------------------------
(* Nothing is believed without a signature.                                *)

\* What the log shows for a row of content c: a signed commit put it where it
\* is, and the author it names published it.
Evidence(c, row) ==
  /\ row.seq \in DOMAIN log
  /\ log[row.seq].key # NoKey
  /\ <<row.uri, c>> \in WritesOf(log[row.seq])
  /\ \E s \in DOMAIN log : /\ log[s].key # NoKey
                           /\ log[s].repo = row.author
                           /\ \E w \in WritesOf(log[s]) : w[2] = c

Evident(rs, done) ==
  \A c \in Contents : rs[c] # None => rs[c].seq \in done /\ Evidence(c, rs[c])

\* RowsSigned, of the tables and of the transaction in progress.
SignedInv ==
  /\ Evident(rows, applied)
  /\ phase \in {"verified", "applying"} => log[pos].key # NoKey
  /\ phase = "applying" => Evident(tx.rows, applied \cup {pos})

LEMMA SignedInit == Init => SignedInv
  BY DEF Init, SignedInv, Evident, NoRows

\* The log only grows, so evidence is never lost.
LEMMA EvidenceKept ==
  ASSUME TypeInv,
         Len(log') = Len(log) + 1,
         \A s \in DOMAIN log : s \in DOMAIN log' /\ log'[s] = log[s],
         UNCHANGED <<db, process, history>>, SignedInv
  PROVE  SignedInv'
  <1>1. ASSUME NEW c, NEW row, Evidence(c, row) PROVE Evidence(c, row)'
    BY <1>1 DEF Evidence
  <1>2. ASSUME NEW rs, NEW done, Evident(rs, done) PROVE Evident(rs, done)'
    BY <1>1, <1>2 DEF Evident
  <1>3. UNCHANGED <<rows, applied, phase, pos, tx>>
    BY DEF db, process, history
  <1>4. phase \in {"verified", "applying"} => log'[pos] = log[pos]
    BY InHand
  <1>5. Evident(rows, applied)'
    BY <1>2, <1>3 DEF SignedInv, Evident, Evidence
  <1>6. phase = "applying" => Evident(tx.rows, applied \cup {pos})'
    BY <1>2, <1>3 DEF SignedInv, Evident, Evidence
  <1> QED
    BY <1>3, <1>4, <1>5, <1>6 DEF SignedInv

LEMMA PublishSigned ==
  ASSUME TypeInv, SignedInv, NEW r \in Repos, Publish(r) \/ PublishUnverifiable(r)
  PROVE  SignedInv'
  <1>1. PICK m : log' = Append(log, m)
    BY DEF Publish, PublishUnverifiable
  <1>2. log \in Seq(Commit)
    BY DEF TypeInv, TypeOK, Commit
  <1>3. /\ Len(log') = Len(log) + 1
        /\ \A s \in DOMAIN log : s \in DOMAIN log' /\ log'[s] = log[s]
    BY <1>1, <1>2
  <1>4. UNCHANGED <<db, process, history>>
    BY DEF Publish, PublishUnverifiable
  <1> QED BY <1>3, <1>4, EvidenceKept

\* A verified commit has a key, because the directory answers with one.
LEMMA HandleSigned == ASSUME TypeInv, SignedInv, HandleCommit PROVE SignedInv'
  <1>1. UNCHANGED <<log, rows, applied>> /\ phase' \in {"verified", "streaming"}
    BY DEF HandleCommit, pds, db
  <1>2. Evident(rows, applied)'
    BY <1>1 DEF SignedInv, Evident, Evidence
  <1>3. phase' = "verified" => log'[pos'].key # NoKey
    <2>1. ASSUME phase' = "verified" PROVE Verifies(log[pos'])
      BY <2>1 DEF HandleCommit
    <2>2. pos' \in DOMAIN log
      BY NextDelivered
    <2>3. dirKey[log[pos'].repo] \in Keys
      BY <2>2, CommitsOnLog DEF TypeInv, TypeOK
    <2> QED BY <1>1, <2>1, <2>3, IngestAssumption DEF Verifies, Keys, NoKey
  <1> QED
    BY <1>1, <1>2, <1>3 DEF SignedInv

LEMMA BackfillSigned == ASSUME SignedInv, BackfillProfile PROVE SignedInv'
  <1>1. /\ phase = "verified" /\ phase' = "applying"
        /\ UNCHANGED <<log, rows, pos, applied>>
        /\ tx'.rows = rows
    BY DEF BackfillProfile, pds, db, history
  <1>2. Evident(rows, applied)' /\ Evident(rows, applied \cup {pos})'
    BY <1>1 DEF SignedInv, Evident, Evidence
  <1> QED
    BY <1>1, <1>2 DEF SignedInv, Evident, Evidence

\* The row an operation writes is evident from the very commit.
LEMMA UpsertEvident ==
  ASSUME NEW rs \in Tables, NEW now, NEW i \in DOMAIN log[pos].ops,
         pos \in DOMAIN log, log[pos].key # NoKey,
         HasRow(log[pos], log[pos].ops[i]),
         Evident(rs, applied \cup {pos})
  PROVE  LET op == log[pos].ops[i] IN
         Evident(UpsertRow(rs, <<log[pos].repo, op.path>>, op.cid, now),
                 applied \cup {pos})
  <1> DEFINE m  == log[pos]
             op == m.ops[i]
             u  == <<m.repo, op.path>>
             after == UpsertRow(rs, u, op.cid, now)
  <1>1. <<u, op.cid>> \in WritesOf(m)
    BY DEF WritesOf
  <1> SUFFICES ASSUME NEW c \in Contents, after[c] # None
               PROVE  after[c].seq \in applied \cup {pos} /\ Evidence(c, after[c])
    BY DEF Evident
  <1>2. CASE c # op.cid
    BY <1>2 DEF UpsertRow, Tables, Evident
  <1>3. CASE c = op.cid /\ rs[c] = None
    <2>1. after[c] = [uri |-> u, author |-> m.repo, observed |-> now, seq |-> pos]
      BY <1>3 DEF UpsertRow, Tables
    <2>2. \E w \in WritesOf(m) : w[2] = c
      BY <1>1, <1>3
    <2>3. after[c].uri = u /\ after[c].seq = pos /\ after[c].author = m.repo
      BY <2>1
    <2>4. \E s \in DOMAIN log : /\ log[s].key # NoKey
                                /\ log[s].repo = after[c].author
                                /\ \E w \in WritesOf(log[s]) : w[2] = c
      BY <2>2, <2>3
    <2> QED BY <1>1, <1>3, <2>3, <2>4 DEF Evidence
  <1>4. CASE c = op.cid /\ rs[c] # None
    <2>1. rs[c] \in Row /\ Evidence(c, rs[c])
      BY <1>4 DEF Tables, Evident
    <2>2. after[c] = [rs[c] EXCEPT !.uri = u, !.seq = pos]
      BY <1>4 DEF UpsertRow, Tables
    <2>3. after[c].uri = u /\ after[c].seq = pos /\ after[c].author = rs[c].author
      BY <2>1, <2>2 DEF Row
    <2> QED BY <1>1, <1>4, <2>1, <2>3 DEF Evidence
  <1> QED BY <1>2, <1>3, <1>4

LEMMA ApplyRecordSigned == ASSUME TypeInv, SignedInv, ApplyRecord PROVE SignedInv'
  <1> DEFINE m == log[pos]
             i == next
             u == <<m.repo, m.ops[i].path>>
  <1>1. /\ phase = "applying" /\ i \in DOMAIN m.ops
        /\ tx' = WithRecord(tx, m, m.ops[i])
        /\ UNCHANGED <<log, rows, phase, pos, applied>>
    BY DEF ApplyRecord, pds, db, history
  <1>2. pos \in DOMAIN log /\ tx \in Tx /\ tx.rows \in Tables
    BY <1>1, InHand DEF Tx
  <1>3. m.key # NoKey /\ Evident(tx.rows, applied \cup {pos})
    BY <1>1 DEF SignedInv
  <1>4. Evident(tx'.rows, applied \cup {pos})
    <2>1. CASE m.ops[i].action = "delete"
      <3>1. tx'.rows = DeleteUri(tx.rows, u)
        BY <1>1, <1>2, <2>1 DEF WithRecord, Tx, HasRow, HasStation
      <3> QED BY <1>3, <3>1 DEF DeleteUri, Evident
    <2>2. CASE HasRow(m, m.ops[i])
      <3>1. tx'.rows = UpsertRow(tx.rows, u, m.ops[i].cid, tx.now)
        BY <1>1, <1>2, <2>2 DEF WithRecord, Tx, HasRow, HasStation
      <3> QED BY <1>1, <1>2, <1>3, <2>2, <3>1, UpsertEvident
    <2>3. CASE m.ops[i].action # "delete" /\ ~HasRow(m, m.ops[i])
      <3>1. tx'.rows = tx.rows
        BY <1>1, <1>2, <2>3 DEF WithRecord, Tx
      <3> QED BY <1>3, <3>1
    <2> QED BY <2>1, <2>2, <2>3 DEF HasRow
  <1>5. Evident(rows, applied)' /\ Evident(tx.rows, applied \cup {pos})'
    BY <1>1, <1>4 DEF SignedInv, Evident, Evidence
  <1> QED
    BY <1>1, <1>3, <1>5 DEF SignedInv

LEMMA ApplyBackfilledSigned ==
  ASSUME TypeInv, SignedInv, ApplyBackfilled PROVE SignedInv'
  <1>1. /\ phase = "applying" /\ tx \in Tx /\ tx'.rows = tx.rows
        /\ UNCHANGED <<log, rows, phase, pos, applied>>
    BY InHand DEF ApplyBackfilled, pds, db, history, Tx
  <1> QED
    BY <1>1 DEF SignedInv, Evident, Evidence

LEMMA CommitTxSigned == ASSUME SignedInv, CommitTx PROVE SignedInv'
  <1>1. /\ phase = "applying" /\ phase' = "streaming"
        /\ rows' = tx.rows /\ applied' = applied \cup {pos} /\ UNCHANGED log
    BY DEF CommitTx, pds
  <1> QED
    BY <1>1 DEF SignedInv, Evident, Evidence

LEMMA SignedStep == TypeInv /\ SignedInv /\ [Next]_vars => SignedInv'
  <1> SUFFICES ASSUME TypeInv, SignedInv, [Next]_vars PROVE SignedInv'
    OBVIOUS
  <1>1. ASSUME NEW r \in Repos, Publish(r) \/ PublishUnverifiable(r)
        PROVE  SignedInv'
    BY <1>1, PublishSigned
  <1>2. ASSUME NEW r \in Repos, RotateKey(r) \/ RefreshDirectory(r)
        PROVE  SignedInv'
    BY <1>2 DEF RotateKey, RefreshDirectory, db, process, history, SignedInv, Evident,
       Evidence
  <1>3. ASSUME NEW reindex, Start(reindex) PROVE SignedInv'
    <2>1. CASE reindex
      BY <1>3, <2>1 DEF Start, Reset, NoRows, SignedInv, Evident
    <2>2. CASE ~reindex
      BY <1>3, <2>2 DEF Start, db, history, SignedInv, Evident, Evidence
    <2> QED BY <2>1, <2>2
  <1>4. CASE Connect \/ Disconnect \/ Crash \/ ApplyFails
    <2>1. /\ UNCHANGED <<log, rows, applied>>
          /\ phase' \in {"streaming", "connecting", "down"}
      BY <1>4 DEF Connect, Disconnect, Crash, ApplyFails, Reconnect, pds, db, history
    <2> QED BY <2>1 DEF SignedInv, Evident, Evidence
  <1>5. CASE UNCHANGED vars \/ DropOldest
    BY <1>5 DEF vars, DropOldest, pds, db, process, history, SignedInv, Evident, Evidence
  <1> QED
    BY <1>1, <1>2, <1>3, <1>4, <1>5, HandleSigned, BackfillSigned, ApplyRecordSigned,
       ApplyBackfilledSigned, CommitTxSigned
    DEF Next, Environment, Consumer

\* "Nothing here is believed without a signature" (backfill.go:34-37), for any
\* number of repositories, keys and records: a row is never in the index
\* without a signed, applied commit that put it where it is, and one by the
\* author it names.
THEOREM OnlySignedRows == Spec => []RowsSigned
  <1>1. SignedInv => RowsSigned
    BY DEF SignedInv, Evident, Evidence, RowsSigned
  <1> QED
    BY TypeInit, TypeStep, SignedInit, SignedStep, <1>1, PTL DEF Spec

----------------------------------------------------------------------------
(* What one transaction does.                                              *)

\* A commit names no path twice.
Distinct(m) ==
  \A i, j \in DOMAIN m.ops : i # j => m.ops[i].path # m.ops[j].path

UriOf(m, i) == <<m.repo, m.ops[i].path>>

Writes(m, i, c) == HasRow(m, m.ops[i]) /\ m.ops[i].cid = c

\* Operation i is the last of the first n to write content c.
LastWriter(m, n, i, c) ==
  /\ i \in 1 .. n
  /\ Writes(m, i, c)
  /\ \A j \in 1 .. n : j > i => ~Writes(m, j, c)

Unwritten(m, n, c) == \A i \in 1 .. n : ~Writes(m, i, c)

\* Some of the first n operations deletes u.
Deleted(m, n, u) ==
  \E i \in 1 .. n : m.ops[i].action = "delete" /\ UriOf(m, i) = u

\* Row o of content c has become r by the first n operations of commit m, which is
\* number s: if none wrote it, it is as it was, unless its URI was deleted; if some did, it is where
\* the last of them put it, with what was learnt of it before.
BecameAt(m, s, n, c, o, r) ==
  \/ /\ Unwritten(m, n, c)
     /\ o # None /\ Deleted(m, n, o.uri) => r = None
     /\ o = None \/ ~Deleted(m, n, o.uri) => r = o
  \/ /\ r # None
     /\ r.seq = s
     /\ \E i \in 1 .. n : LastWriter(m, n, i, c) /\ r.uri = UriOf(m, i)
     /\ o # None /\ ~Deleted(m, n, o.uri) => /\ r.observed = o.observed
                                            /\ r.author = o.author

Became(m, s, n, old, new) == \A c \in Contents : BecameAt(m, s, n, c, old[c], new[c])

\* Row r of content c, when commit m, number s, is the last to have been applied.
FollowsAt(m, s, c, r) ==
  \/ /\ Unwritten(m, Len(m.ops), c)
     /\ r # None => ~Deleted(m, Len(m.ops), r.uri)
  \/ /\ r # None
     /\ r.seq = s
     /\ \E i \in 1 .. Len(m.ops) :
          LastWriter(m, Len(m.ops), i, c) /\ r.uri = UriOf(m, i)

Follows(m, s, rs) == \A c \in Contents : FollowsAt(m, s, c, rs[c])

\* Where an open transaction is, and what the last one left.
ApplyInv ==
  /\ \A s \in DOMAIN log : Distinct(log[s])
  /\ cursor \in DOMAIN log => Follows(log[cursor], cursor, rows)
  /\ phase = "applying" =>
       /\ next \in 1 .. Len(log[pos].ops) + 1
       /\ Became(log[pos], pos, next - 1, rows, tx.rows)

\* Two operations of one commit are at two URIs.
LEMMA UrisDiffer ==
  ASSUME NEW m, Distinct(m), NEW i \in DOMAIN m.ops, NEW j \in DOMAIN m.ops, i # j
  PROVE  UriOf(m, i) # UriOf(m, j)
  BY DEF Distinct, UriOf

\* One more operation, and what it changes of the definitions above.
LEMMA OneMore ==
  ASSUME NEW m, NEW n \in Nat
  PROVE  /\ \A c : Unwritten(m, n + 1, c) <=> Unwritten(m, n, c) /\ ~Writes(m, n + 1, c)
         /\ \A c, i : LastWriter(m, n, i, c) /\ ~Writes(m, n + 1, c)
                        => LastWriter(m, n + 1, i, c)
         /\ \A c : Writes(m, n + 1, c) => LastWriter(m, n + 1, n + 1, c)
         /\ \A u : Deleted(m, n + 1, u) <=>
                     \/ Deleted(m, n, u)
                     \/ m.ops[n + 1].action = "delete" /\ UriOf(m, n + 1) = u
  <1>1. \A i : i \in 1 .. n + 1 <=> i \in 1 .. n \/ i = n + 1
    OBVIOUS
  <1>2. \A c : Unwritten(m, n + 1, c) <=> Unwritten(m, n, c) /\ ~Writes(m, n + 1, c)
    BY <1>1 DEF Unwritten
  <1>3. \A c, i : LastWriter(m, n, i, c) /\ ~Writes(m, n + 1, c)
                    => LastWriter(m, n + 1, i, c)
    BY <1>1 DEF LastWriter
  <1>4. \A c : Writes(m, n + 1, c) => LastWriter(m, n + 1, n + 1, c)
    BY <1>1 DEF LastWriter
  <1>5. \A u : Deleted(m, n + 1, u) <=>
                 \/ Deleted(m, n, u)
                 \/ m.ops[n + 1].action = "delete" /\ UriOf(m, n + 1) = u
    BY <1>1 DEF Deleted
  <1> QED BY <1>2, <1>3, <1>4, <1>5

\* A deletion takes the next row away, and no row this commit wrote.
LEMMA DeleteBecame ==
  ASSUME NEW m, NEW s, NEW n \in Nat, NEW old \in Tables, NEW rs \in Tables,
         Distinct(m), 1 .. n + 1 \subseteq DOMAIN m.ops,
         m.ops[n + 1].action = "delete",
         Became(m, s, n, old, rs)
  PROVE  Became(m, s, n + 1, old, DeleteUri(rs, UriOf(m, n + 1)))
  <1> DEFINE u   == UriOf(m, n + 1)
             new == DeleteUri(rs, u)
  <1>1. \A c : ~Writes(m, n + 1, c)
    BY DEF Writes, HasRow
  <1>2. \A c \in Contents : new[c] = IF rs[c] # None /\ rs[c].uri = u THEN None ELSE rs[c]
    BY DEF DeleteUri
  <1> HIDE DEF u, new
  <1>3. \A v : Deleted(m, n + 1, v) <=> Deleted(m, n, v) \/ v = u
    BY OneMore DEF u
  <1> SUFFICES ASSUME NEW c \in Contents
               PROVE  BecameAt(m, s, n + 1, c, old[c], new[c])
    BY DEF Became, new, u
  <1>4. CASE /\ Unwritten(m, n, c)
             /\ old[c] # None /\ Deleted(m, n, old[c].uri) => rs[c] = None
             /\ old[c] = None \/ ~Deleted(m, n, old[c].uri) => rs[c] = old[c]
    <2>1. Unwritten(m, n + 1, c)
      BY <1>1, <1>4, OneMore
    <2> QED BY <1>2, <1>3, <1>4, <2>1 DEF BecameAt
  <1>5. ASSUME rs[c] # None, rs[c].seq = s,
               NEW i \in 1 .. n, LastWriter(m, n, i, c), rs[c].uri = UriOf(m, i),
               old[c] # None /\ ~Deleted(m, n, old[c].uri) =>
                 /\ rs[c].observed = old[c].observed
                 /\ rs[c].author = old[c].author
        PROVE  BecameAt(m, s, n + 1, c, old[c], new[c])
    <2>1. i \in 1 .. n + 1 /\ i # n + 1 /\ n + 1 \in 1 .. n + 1
      BY <1>5
    <2>2. UriOf(m, i) # u
      BY <2>1, UrisDiffer DEF u
    <2>3. new[c] = rs[c]
      BY <1>2, <1>5, <2>2
    <2>4. LastWriter(m, n + 1, i, c)
      BY <1>1, <1>5, OneMore
    <2> QED BY <1>3, <1>5, <2>1, <2>3, <2>4 DEF BecameAt
  <1> QED BY <1>4, <1>5 DEF Became, BecameAt

\* An upsert moves its content to where it is now, and keeps what was learnt.
LEMMA UpsertBecame ==
  ASSUME NEW m, NEW n \in Nat, NEW old \in Tables, NEW rs \in Tables, NEW now,
         HasRow(m, m.ops[n + 1]), m.ops[n + 1].cid \in Contents,
         UriOf(m, n + 1) \in Uris, now \in 1 .. MaxSeq, pos \in 1 .. MaxSeq,
         Became(m, pos, n, old, rs)
  PROVE  Became(m, pos, n + 1, old,
                UpsertRow(rs, UriOf(m, n + 1), m.ops[n + 1].cid, now))
  <1> DEFINE u   == UriOf(m, n + 1)
             d   == m.ops[n + 1].cid
             new == UpsertRow(rs, u, d, now)
  <1>1. \A c : Writes(m, n + 1, c) <=> c = d
    BY DEF Writes
  <1>2. \A c \in Contents : c # d => new[c] = rs[c]
    BY DEF UpsertRow, Tables
  <1>3. new[d] # None
    <2>1. new \in Tables
      BY UpsertRowTyped
    <2>2. new[d] = IF rs[d] = None
                   THEN [uri |-> u, author |-> u[1], observed |-> now, seq |-> pos]
                   ELSE [rs[d] EXCEPT !.uri = u, !.seq = pos]
      BY DEF UpsertRow, Tables
    <2>3. [uri |-> u, author |-> u[1], observed |-> now, seq |-> pos] \in Row
      BY DEF Row, Uris
    <2>4. ASSUME rs[d] # None
          PROVE  [rs[d] EXCEPT !.uri = u, !.seq = pos] \in Row
      <3>1. rs[d] \in Row
        BY <2>4 DEF Tables
      <3> QED BY <3>1 DEF Row
    <2> QED BY <2>2, <2>3, <2>4, IngestAssumption
  <1>4. /\ new[d].uri = u
        /\ new[d].seq = pos
        /\ rs[d] # None => /\ new[d].observed = rs[d].observed
                           /\ new[d].author = rs[d].author
    <2>1. CASE rs[d] = None
      <3>1. new[d] = [uri |-> u, author |-> u[1], observed |-> now, seq |-> pos]
        BY <2>1 DEF UpsertRow, Tables
      <3> QED BY <2>1, <3>1
    <2>2. CASE rs[d] # None
      <3>1. new[d] = [rs[d] EXCEPT !.uri = u, !.seq = pos] /\ rs[d] \in Row
        BY <2>2 DEF UpsertRow, Tables
      <3> QED BY <2>2, <3>1 DEF Row
    <2> QED BY <2>1, <2>2
  <1> HIDE DEF u, d, new
  <1>5. \A v : Deleted(m, n + 1, v) <=> Deleted(m, n, v)
    BY OneMore DEF HasRow
  <1>6. ASSUME NEW c \in Contents
        PROVE  BecameAt(m, pos, n + 1, c, old[c], new[c])
    <2>1. CASE c # d
      <3>1. new[c] = rs[c] /\ ~Writes(m, n + 1, c)
        BY <1>1, <1>2, <2>1
      <3>2. /\ Unwritten(m, n + 1, c) <=> Unwritten(m, n, c)
            /\ \A i \in 1 .. n : i \in 1 .. n + 1 /\ (LastWriter(m, n, i, c) => LastWriter(m, n + 1, i, c))
        BY <3>1, OneMore
      <3> QED BY <1>5, <3>1, <3>2 DEF Became, BecameAt
    <2>2. CASE c = d
      <3>1. LastWriter(m, n + 1, n + 1, c) /\ n + 1 \in 1 .. n + 1
        BY <1>1, <2>2, OneMore
      <3>2. new[c].uri = UriOf(m, n + 1)
        BY <1>4, <2>2 DEF u
      <3>3. old[c] # None /\ ~Deleted(m, n, old[c].uri) =>
              /\ rs[c] # None
              /\ rs[c].observed = old[c].observed
              /\ rs[c].author = old[c].author
        BY DEF Became, BecameAt
      <3> QED BY <1>3, <1>4, <1>5, <2>2, <3>1, <3>2, <3>3 DEF BecameAt
    <2> QED BY <2>1, <2>2
  <1> QED BY <1>6 DEF Became, u, d, new

\* A record that has no row changes none.
LEMMA OtherBecame ==
  ASSUME NEW m, NEW s, NEW n \in Nat, NEW old, NEW rs,
         ~HasRow(m, m.ops[n + 1]), m.ops[n + 1].action # "delete",
         Became(m, s, n, old, rs)
  PROVE  Became(m, s, n + 1, old, rs)
  <1>1. \A c : ~Writes(m, n + 1, c)
    BY DEF Writes
  <1>2. \A v : Deleted(m, n + 1, v) <=> Deleted(m, n, v)
    BY OneMore
  <1>3. \A c : /\ Unwritten(m, n + 1, c) <=> Unwritten(m, n, c)
               /\ \A i \in 1 .. n : i \in 1 .. n + 1 /\ (LastWriter(m, n, i, c) => LastWriter(m, n + 1, i, c))
    BY <1>1, OneMore
  <1> QED BY <1>2, <1>3 DEF Became, BecameAt

LEMMA ApplyInit == Init => ApplyInv
  BY DEF Init, ApplyInv

\* The log only grows, so nothing said of a commit on it changes.
LEMMA ApplyKept ==
  ASSUME TypeInv, TypeInv', ApplyInv,
         \A s \in DOMAIN log : log'[s] = log[s],
         \A s \in DOMAIN log' : s \in DOMAIN log \/ Distinct(log'[s]),
         UNCHANGED <<rows, cursor, pos, tx, next>>, phase' = phase
  PROVE  ApplyInv'
  <1>1. cursor \in DOMAIN log' => cursor \in DOMAIN log
    <2>1. /\ DOMAIN log = 1 .. Len(log) /\ Len(log) \in Nat
          /\ cursor \in Int /\ cursor <= Len(log)
      BY DEF TypeInv, TypeOK
    <2>2. DOMAIN log' = 1 .. Len(log') /\ Len(log') \in Nat
      BY DEF TypeInv, TypeOK
    <2> QED BY <2>1, <2>2
  <1>2. phase = "applying" => pos \in DOMAIN log
    BY InHand
  <1>3. \A s \in DOMAIN log' : Distinct(log'[s])
    BY DEF ApplyInv
  <1>4. cursor' \in DOMAIN log' => Follows(log'[cursor'], cursor', rows')
    BY <1>1 DEF ApplyInv
  <1>5. phase' = "applying" => /\ next' \in 1 .. Len(log'[pos'].ops) + 1
                               /\ Became(log'[pos'], pos', next' - 1, rows', tx'.rows)
    BY <1>2 DEF ApplyInv
  <1> QED BY <1>3, <1>4, <1>5 DEF ApplyInv

LEMMA PublishApply ==
  ASSUME TypeInv, TypeInv', ApplyInv,
         NEW r \in Repos, Publish(r) \/ PublishUnverifiable(r)
  PROVE  ApplyInv'
  <1>1. PICK m : log' = Append(log, m) /\ Distinct(m)
    <2>1. CASE Publish(r)
      <3>1. PICK ops \in CommitsOf(r) :
              log' = Append(log, [repo |-> r, key |-> key[r], ops |-> ops])
        BY <2>1 DEF Publish
      <3>2. Distinct([repo |-> r, key |-> key[r], ops |-> ops])
        BY DEF CommitsOf, Distinct
      <3> QED BY <3>1, <3>2
    <2>2. CASE PublishUnverifiable(r)
      <3>1. PICK op \in OpsOf(r) :
              log' = Append(log, [repo |-> r, key |-> NoKey, ops |-> <<op>>])
        BY <2>2 DEF PublishUnverifiable
      <3>2. Distinct([repo |-> r, key |-> NoKey, ops |-> <<op>>])
        BY DEF Distinct
      <3> QED BY <3>1, <3>2
    <2> QED BY <2>1, <2>2
  <1>2. log \in Seq(Commit)
    BY DEF TypeInv, TypeOK, Commit
  <1>3. /\ \A s \in DOMAIN log : log'[s] = log[s]
        /\ \A s \in DOMAIN log' : s \in DOMAIN log \/ log'[s] = m
    BY <1>1, <1>2
  <1>4. UNCHANGED <<db, process>>
    BY DEF Publish, PublishUnverifiable
  <1> QED BY <1>1, <1>3, <1>4, ApplyKept DEF db, process

\* Every step of the consumer but those that write, and the environment's.
LEMMA BackfillApply ==
  ASSUME TypeInv, TypeInv', ApplyInv, BackfillProfile PROVE ApplyInv'
  <1>1. /\ phase = "verified" /\ phase' = "applying" /\ next' = 1
        /\ UNCHANGED <<log, rows, cursor, pos>>
        /\ tx'.rows = rows
    BY DEF BackfillProfile, pds, db
  <1>2. pos \in DOMAIN log
    BY <1>1, InHand
  <1>3. Len(log[pos].ops) \in Nat
    BY <1>2, CommitsOnLog DEF Commit
  <1>4. Became(log[pos], pos, 0, rows, rows)
    BY DEF Became, BecameAt, Unwritten, Deleted
  <1>5. next' - 1 = 0 /\ next' \in 1 .. Len(log[pos].ops) + 1
    BY <1>1, <1>3
  <1> QED BY <1>1, <1>4, <1>5 DEF ApplyInv

LEMMA ApplyRecordApply ==
  ASSUME TypeInv, TypeInv', ApplyInv, ApplyRecord PROVE ApplyInv'
  <1> DEFINE m == log[pos]
             n == next - 1
             op == m.ops[next]
  <1>1. /\ phase = "applying" /\ next \in DOMAIN m.ops
        /\ tx' = WithRecord(tx, m, op) /\ next' = next + 1
        /\ UNCHANGED <<log, rows, cursor, phase, pos>>
    BY DEF ApplyRecord, pds, db
  <1>2. pos \in DOMAIN log /\ pos \in 1 .. MaxSeq /\ tx \in Tx /\ tx.rows \in Tables
        /\ rows \in Tables /\ tx.now \in 1 .. MaxSeq
    BY <1>1, InHand DEF Tx, TypeInv, TypeOK, Tables
  <1>3. /\ m \in Commit /\ m.repo \in Repos
        /\ op \in Op /\ FitsPath(op)
        /\ m.ops \in Seq(Op)
    BY <1>1, <1>2, CommitsOnLog DEF Commit
  <1>4. /\ Len(m.ops) \in Nat /\ DOMAIN m.ops = 1 .. Len(m.ops)
        /\ next \in 1 .. Len(m.ops)
    BY <1>1, <1>3
  <1>5. n \in Nat /\ n + 1 = next /\ 1 .. n + 1 \subseteq DOMAIN m.ops
        /\ next' \in 1 .. Len(m.ops) + 1 /\ next' - 1 = n + 1
    BY <1>1, <1>4
  <1>6. Became(m, pos, n, rows, tx.rows) /\ Distinct(m)
    BY <1>1, <1>2 DEF ApplyInv
  <1>7. op.path \in Paths /\ UriOf(m, n + 1) = <<m.repo, op.path>>
        /\ UriOf(m, n + 1) \in Uris
    BY <1>3, <1>5 DEF Op, UriOf, Uris
  <1> HIDE DEF n
  <1>8. Became(m, pos, n + 1, rows, tx'.rows)
    <2>1. CASE op.action = "delete"
      <3>1. tx'.rows = DeleteUri(tx.rows, UriOf(m, n + 1))
        BY <1>1, <1>2, <1>7, <2>1 DEF WithRecord, Tx, HasRow, HasStation
      <3> QED BY <1>2, <1>5, <1>6, <2>1, <3>1, DeleteBecame
    <2>2. CASE HasRow(m, op)
      <3>1. tx'.rows = UpsertRow(tx.rows, UriOf(m, n + 1), op.cid, tx.now)
        BY <1>1, <1>2, <1>7, <2>2 DEF WithRecord, Tx, HasRow, HasStation
      <3>2. op.cid \in Contents
        BY <1>3, <1>7, <2>2, RecordsAtTyped DEF HasRow, FitsPath
      <3> QED BY <1>2, <1>5, <1>6, <1>7, <2>2, <3>1, <3>2, UpsertBecame
    <2>3. CASE op.action # "delete" /\ ~HasRow(m, op)
      <3>1. tx'.rows = tx.rows
        BY <1>1, <1>2, <2>3 DEF WithRecord, Tx
      <3> QED BY <1>5, <1>6, <2>3, <3>1, OtherBecame
    <2> QED BY <2>1, <2>2, <2>3 DEF HasRow
  <1> QED BY <1>1, <1>5, <1>8 DEF ApplyInv

\* The tables a whole commit has made follow it.
LEMMA BecameFollows ==
  ASSUME NEW m, NEW s, NEW old, NEW new, Became(m, s, Len(m.ops), old, new)
  PROVE  Follows(m, s, new)
  BY DEF Became, BecameAt, Follows, FollowsAt

LEMMA CommitTxApply ==
  ASSUME TypeInv, ApplyInv, CommitTx PROVE ApplyInv'
  <1>1. /\ phase = "applying" /\ phase' = "streaming"
        /\ next = Len(log[pos].ops) + 1
        /\ UNCHANGED <<log, pos>> /\ rows' = tx.rows /\ cursor' = pos
    BY DEF CommitTx, pds
  <1>2. Len(log[pos].ops) \in Nat
    BY <1>1, InHand, CommitsOnLog DEF Commit
  <1>3. next - 1 = Len(log[pos].ops)
    BY <1>1, <1>2
  <1>4. Became(log[pos], pos, Len(log[pos].ops), rows, tx.rows)
    BY <1>1, <1>3 DEF ApplyInv
  <1> QED BY <1>1, <1>4, BecameFollows DEF ApplyInv

LEMMA ApplyStep == TypeInv /\ ApplyInv /\ [Next]_vars => ApplyInv'
  <1> SUFFICES ASSUME TypeInv, ApplyInv, [Next]_vars PROVE ApplyInv'
    OBVIOUS
  <1>1. TypeInv'
    BY TypeStep
  <1>2. ASSUME NEW r \in Repos, RotateKey(r) \/ RefreshDirectory(r) PROVE ApplyInv'
    BY <1>2 DEF RotateKey, RefreshDirectory, db, process, ApplyInv
  <1>3. ASSUME NEW reindex, Start(reindex) PROVE ApplyInv'
    <2>1. UNCHANGED log /\ phase' = "connecting"
      BY <1>3 DEF Start
    <2>2. CASE reindex
      <3>1. cursor' = -1
        BY <1>3, <2>2 DEF Start, Reset
      <3>2. cursor' \notin DOMAIN log'
        BY <1>1, <3>1, SMTT(30) DEF TypeInv, TypeOK
      <3> QED BY <2>1, <3>2 DEF ApplyInv
    <2>3. CASE ~reindex
      BY <1>3, <2>1, <2>3 DEF Start, db, ApplyInv
    <2> QED BY <2>2, <2>3
  <1>4. CASE Connect \/ Disconnect \/ Crash \/ ApplyFails \/ HandleCommit
    <2>1. UNCHANGED <<log, rows, cursor>> /\ phase' # "applying"
      BY <1>4 DEF Connect, Disconnect, Crash, ApplyFails, HandleCommit, Reconnect, pds, db
    <2> QED BY <2>1 DEF ApplyInv
  <1>5. CASE ApplyBackfilled
    <2>1. /\ UNCHANGED <<log, rows, cursor, phase, pos, next>>
          /\ phase = "applying" /\ tx'.rows = tx.rows
      BY <1>5, InHand DEF ApplyBackfilled, pds, db, Tx
    <2> QED BY <2>1 DEF ApplyInv
  <1>6. CASE UNCHANGED vars \/ DropOldest
    BY <1>6 DEF vars, DropOldest, pds, db, process, ApplyInv
  <1> QED
    BY <1>1, <1>2, <1>3, <1>4, <1>5, <1>6, PublishApply, BackfillApply, ApplyRecordApply,
       CommitTxApply
    DEF Next, Environment, Consumer

\* Only a reindex and a committed transaction touch the tables.
LEMMA RowsChange ==
  ASSUME [Next]_vars, rows' # rows
  PROVE  Start(TRUE) \/ CommitTx
  <1>1. CASE UNCHANGED vars
    BY <1>1 DEF vars, db
  <1> QED
    BY <1>1 DEF Next, Environment, Consumer, Publish, PublishUnverifiable, RotateKey,
       RefreshDirectory, DropOldest, Disconnect, Crash, Start, Connect, HandleCommit,
       BackfillProfile, ApplyRecord, ApplyFails, ApplyBackfilled, Reconnect, db

\* What the transaction has when it commits.
LEMMA Committed ==
  ASSUME TypeInv, ApplyInv, CommitTx
  PROVE  /\ pos \in DOMAIN log
         /\ rows \in Tables /\ rows' \in Tables
         /\ rows' = tx.rows
         /\ Distinct(log[pos])
         /\ Len(log[pos].ops) \in Nat /\ DOMAIN log[pos].ops = 1 .. Len(log[pos].ops)
         /\ Became(log[pos], pos, Len(log[pos].ops), rows, rows')
  <1>1. /\ phase = "applying" /\ next = Len(log[pos].ops) + 1 /\ rows' = tx.rows
    BY DEF CommitTx
  <1>2. pos \in DOMAIN log /\ tx \in Tx
    BY <1>1, InHand
  <1>3. log[pos].ops \in Seq(Op)
    BY <1>2, CommitsOnLog DEF Commit
  <1>4. Len(log[pos].ops) \in Nat /\ DOMAIN log[pos].ops = 1 .. Len(log[pos].ops)
    BY <1>3
  <1>5. next - 1 = Len(log[pos].ops)
    BY <1>1, <1>4
  <1> QED BY <1>1, <1>2, <1>4, <1>5 DEF ApplyInv, Tx, TypeInv, TypeOK, Tables

\* Where a URI is deleted by a commit and where it is written, as the model
\* states it and as the invariant counts it.
LEMMA DeletedDef ==
  ASSUME NEW m, Len(m.ops) \in Nat, DOMAIN m.ops = 1 .. Len(m.ops)
  PROVE  \A u : Deleted(m, Len(m.ops), u) <=> u \in DeletesOf(m)
  BY DEF Deleted, DeletesOf, UriOf

\* A writer and a deleter of one commit are never at one URI.
LEMMA WrittenNotDeleted ==
  ASSUME NEW m, Distinct(m), NEW n \in Nat, 1 .. n \subseteq DOMAIN m.ops,
         NEW c, NEW i \in 1 .. n, Writes(m, i, c)
  PROVE  ~Deleted(m, n, UriOf(m, i))
  <1> SUFFICES ASSUME NEW j \in 1 .. n, m.ops[j].action = "delete",
                      UriOf(m, j) = UriOf(m, i)
               PROVE  FALSE
    BY DEF Deleted
  <1>1. i = j
    BY UrisDiffer
  <1> QED BY <1>1 DEF Writes, HasRow

\* What was learnt first is kept, for any number of repositories, records and
\* operations in a commit, and through every replay, reconnect and duplicate:
\* applying a commit moves no row's observation time and renames no author,
\* unless that commit deletes the row's URI (store.go:154-157).
THEOREM KeepsFirstLearnt == Spec => FirstLearntIsKept
  <1>1. TypeInv /\ ApplyInv /\ [Next]_vars =>
          [phase = "applying" =>
             \A c \in Contents :
               /\ rows[c] # None
               /\ rows'[c] # None
               /\ rows[c].uri \notin DeletesOf(log[pos])
               => /\ rows'[c].observed = rows[c].observed
                  /\ rows'[c].author = rows[c].author]_vars
    <2> SUFFICES ASSUME TypeInv, ApplyInv, [Next]_vars, phase = "applying",
                        NEW c \in Contents, rows[c] # None, rows'[c] # None,
                        rows[c].uri \notin DeletesOf(log[pos])
                 PROVE  /\ rows'[c].observed = rows[c].observed
                        /\ rows'[c].author = rows[c].author
      OBVIOUS
    <2>1. CASE CommitTx
      BY <2>1, Committed, DeletedDef DEF Became, BecameAt
    <2>2. CASE ~CommitTx
      BY <2>2, RowsChange DEF Start
    <2> QED BY <2>1, <2>2
  <1> QED
    BY TypeInit, TypeStep, ApplyInit, ApplyStep, <1>1, PTL DEF Spec, FirstLearntIsKept

\* Applied once more, the commit the cursor names leaves every row as it was.
LEMMA AppliedAgain ==
  ASSUME TypeInv, ApplyInv, CommitTx, pos = cursor PROVE rows' = rows
  <1> DEFINE m == log[pos]
             n == Len(m.ops)
  <1>1. /\ pos \in DOMAIN log /\ rows \in Tables /\ rows' \in Tables
        /\ Distinct(m) /\ n \in Nat /\ 1 .. n \subseteq DOMAIN m.ops
        /\ Became(m, pos, n, rows, rows')
    BY Committed
  <1>2. Follows(m, pos, rows)
    BY <1>1 DEF ApplyInv
  <1> HIDE DEF m, n
  <1>3. ASSUME NEW c \in Contents PROVE rows'[c] = rows[c]
    <2>1. BecameAt(m, pos, n, c, rows[c], rows'[c]) /\ FollowsAt(m, pos, c, rows[c])
      BY <1>1, <1>2 DEF Became, Follows
    <2>2. CASE Unwritten(m, n, c)
      BY <2>1, <2>2 DEF BecameAt, FollowsAt, LastWriter, Unwritten, n
    <2>3. CASE ~Unwritten(m, n, c)
      <3>1. PICK i \in 1 .. n : LastWriter(m, n, i, c) /\ rows[c].uri = UriOf(m, i)
        BY <2>1, <2>3 DEF FollowsAt, n
      <3>2. PICK j \in 1 .. n : LastWriter(m, n, j, c) /\ rows'[c].uri = UriOf(m, j)
        BY <2>1, <2>3 DEF BecameAt
      <3>3. i = j
        BY <3>1, <3>2 DEF LastWriter
      <3>4. ~Deleted(m, n, rows[c].uri)
        BY <1>1, <3>1, WrittenNotDeleted DEF LastWriter
      <3>5. /\ rows[c] # None /\ rows'[c] # None
            /\ rows[c].seq = rows'[c].seq
            /\ rows[c].observed = rows'[c].observed
            /\ rows[c].author = rows'[c].author
        BY <2>1, <2>3, <3>4 DEF BecameAt, FollowsAt, n
      <3>6. rows[c] \in Row /\ rows'[c] \in Row
        BY <1>1, <3>5 DEF Tables
      <3> QED BY <3>1, <3>2, <3>3, <3>5, <3>6 DEF Row
    <2> QED BY <2>2, <2>3
  <1> QED BY <1>1, <1>3 DEF Tables

\* "Replaying the final event is a no-op" (consumer.go:115-117), whatever the
\* event holds: when the commit the cursor names is delivered and applied once
\* more, every row comes out as it was - no observation time, author, URI or
\* sequence number moves, and no row comes or goes.
THEOREM RedeliveryChangesNothing == Spec => RedeliveryIsNoOp
  <1>1. TypeInv /\ ApplyInv /\ [Next]_vars =>
          [pos = cursor /\ phase = "applying" => rows' = rows]_vars
    <2> SUFFICES ASSUME TypeInv, ApplyInv, [Next]_vars, phase = "applying", pos = cursor
                 PROVE  rows' = rows
      OBVIOUS
    <2>1. CASE CommitTx
      BY <2>1, AppliedAgain
    <2>2. CASE ~CommitTx
      BY <2>2, RowsChange DEF Start
    <2> QED BY <2>1, <2>2
  <1> QED
    BY TypeInit, TypeStep, ApplyInit, ApplyStep, <1>1, PTL DEF Spec, RedeliveryIsNoOp

----------------------------------------------------------------------------
(* The service implements the index it promises its readers.               *)

\* What DerivedIndex sees of a log.
PublishedOf(l) ==
  [s \in DOMAIN l |-> [writes |-> WritesOf(l[s]), deletes |-> DeletesOf(l[s])]]

LEMMA PublishedLen ==
  ASSUME NEW l, l \in Seq(Commit)
  PROVE  Len(PublishedOf(l)) = Len(l) /\ DOMAIN PublishedOf(l) = DOMAIN l
  <1>1. Len(l) \in Nat /\ DOMAIN l = 1 .. Len(l)
    OBVIOUS
  <1> QED BY <1>1 DEF PublishedOf

\* A row's URI is not None.
LEMMA IndexedUri ==
  ASSUME NEW rs \in Tables, NEW c \in Contents, rs[c] # None
  PROVE  IndexedAt(rs)[c] = rs[c].uri /\ rs[c].uri \in Uris /\ rs[c].uri # None
  BY IngestAssumption DEF Tables, Row, IndexedAt

\* A committed transaction reflects its commit, and nothing else.
LEMMA CommitReflects ==
  ASSUME TypeInv, ApplyInv, CommitTx
  PROVE  LET m == log[pos] IN
         /\ \A w \in WritesOf(m) : <<IndexedAt(rows')[w[2]], w[2]>> \in WritesOf(m)
         /\ \A c \in Contents :
              /\ IndexedAt(rows')[c] \notin DeletesOf(m)
              /\ \/ IndexedAt(rows')[c] = IndexedAt(rows)[c]
                 \/ IndexedAt(rows')[c] = None /\ IndexedAt(rows)[c] \in DeletesOf(m)
                 \/ <<IndexedAt(rows')[c], c>> \in WritesOf(m)
  <1> DEFINE m == log[pos]
             n == Len(m.ops)
  <1>1. /\ pos \in DOMAIN log /\ rows \in Tables /\ rows' \in Tables
        /\ Distinct(m) /\ n \in Nat /\ DOMAIN m.ops = 1 .. n
        /\ Became(m, pos, n, rows, rows')
    BY Committed
  <1>2. \A i \in DOMAIN m.ops : m.ops[i] \in Op /\ FitsPath(m.ops[i]) /\ m.repo \in Repos
    BY <1>1, CommitsOnLog
  <1>3. \A i \in DOMAIN m.ops : \A c :
          Writes(m, i, c) => <<UriOf(m, i), c>> \in WritesOf(m)
    BY DEF Writes, WritesOf, UriOf
  <1>4. \A w \in WritesOf(m) : \E i \in DOMAIN m.ops : Writes(m, i, w[2])
    BY DEF Writes, WritesOf
  <1>5. \A i \in DOMAIN m.ops : \A c : Writes(m, i, c) => c \in Contents
    BY <1>2, RecordsAtTyped DEF Writes, HasRow, FitsPath, Op
  <1>6. \A u : Deleted(m, n, u) <=> u \in DeletesOf(m)
    BY <1>1, DeletedDef
  <1>7. None \notin DeletesOf(m)
    BY <1>2, IngestAssumption DEF DeletesOf, Uris, Op
  <1> HIDE DEF m, n
  <1>8. ASSUME NEW c \in Contents, ~Unwritten(m, n, c)
        PROVE  /\ <<IndexedAt(rows')[c], c>> \in WritesOf(m)
               /\ IndexedAt(rows')[c] \notin DeletesOf(m)
    <2>1. PICK i \in 1 .. n : /\ LastWriter(m, n, i, c)
                              /\ rows'[c] # None /\ rows'[c].uri = UriOf(m, i)
      BY <1>1, <1>8 DEF Became, BecameAt
    <2>2. IndexedAt(rows')[c] = UriOf(m, i)
      BY <1>1, <2>1, IndexedUri
    <2>3. ~Deleted(m, n, UriOf(m, i))
      BY <1>1, <2>1, WrittenNotDeleted DEF LastWriter
    <2> QED BY <1>1, <1>3, <1>6, <2>1, <2>2, <2>3 DEF LastWriter
  <1>9. ASSUME NEW c \in Contents, Unwritten(m, n, c)
        PROVE  /\ IndexedAt(rows')[c] \notin DeletesOf(m)
               /\ \/ IndexedAt(rows')[c] = IndexedAt(rows)[c]
                  \/ IndexedAt(rows')[c] = None /\ IndexedAt(rows)[c] \in DeletesOf(m)
    <2>1. /\ rows[c] # None /\ Deleted(m, n, rows[c].uri) => rows'[c] = None
          /\ rows[c] = None \/ ~Deleted(m, n, rows[c].uri) => rows'[c] = rows[c]
      BY <1>1, <1>9 DEF Became, BecameAt, LastWriter, Unwritten
    <2>2. rows[c] = None => IndexedAt(rows)[c] = None
      BY DEF IndexedAt
    <2>3. rows'[c] = None => IndexedAt(rows')[c] = None
      BY DEF IndexedAt
    <2>4. rows[c] # None => IndexedAt(rows)[c] = rows[c].uri
      BY <1>1, IndexedUri
    <2>5. rows'[c] # None => IndexedAt(rows')[c] = rows'[c].uri
      BY <1>1, IndexedUri
    <2> QED BY <1>6, <1>7, <2>1, <2>2, <2>3, <2>4, <2>5
  <1>10. \A w \in WritesOf(m) : <<IndexedAt(rows')[w[2]], w[2]>> \in WritesOf(m)
    <2> SUFFICES ASSUME NEW w \in WritesOf(m)
                 PROVE  <<IndexedAt(rows')[w[2]], w[2]>> \in WritesOf(m)
      OBVIOUS
    <2>1. PICK i \in DOMAIN m.ops : Writes(m, i, w[2])
      BY <1>4
    <2>2. w[2] \in Contents /\ ~Unwritten(m, n, w[2])
      BY <1>1, <1>5, <2>1 DEF Unwritten
    <2> QED BY <1>8, <2>2
  <1> QED BY <1>8, <1>9, <1>10 DEF m

\* The service implements DerivedIndex, whatever the repositories publish and
\* whenever it is stopped: to a reader of the database it only ever observes
\* one whole commit further on or once more, or forgets everything to rebuild
\* (store.go:79-85, schema.sql:3-6).
THEOREM ImplementsIndex == Spec => ImplementsDerivedIndex
  <1>1. Init => IndexView!Init
    BY DEF Init, IndexView!Init, IndexView!Empty, IndexedAt, NoRows
  <1>2. TypeInv /\ TypeInv' /\ ProgressInv /\ ApplyInv /\ [Next]_vars
          => [IndexView!Next]_(IndexView!vars)
    <2> SUFFICES ASSUME TypeInv, TypeInv', ProgressInv, ApplyInv, [Next]_vars
                 PROVE  IndexView!Next \/ UNCHANGED IndexView!vars
      OBVIOUS
    <2>1. ASSUME NEW r \in Repos, Publish(r) \/ PublishUnverifiable(r)
          PROVE  IndexView!Publish
      <3>1. PICK m : log' = Append(log, m)
        BY <2>1 DEF Publish, PublishUnverifiable
      <3>2. log \in Seq(Commit) /\ log' \in Seq(Commit)
        BY DEF TypeInv, TypeOK, Commit
      <3>3. /\ Len(log') = Len(log) + 1
            /\ \A s \in DOMAIN log : s \in DOMAIN log' /\ log'[s] = log[s]
        BY <3>1, <3>2
      <3>4. UNCHANGED <<rows, cursor>>
        BY <2>1 DEF Publish, PublishUnverifiable, db
      <3>5. Len(PublishedOf(log')) = Len(PublishedOf(log)) + 1
        BY <3>2, <3>3, PublishedLen
      <3>6. \A s \in DOMAIN PublishedOf(log) : PublishedOf(log')[s] = PublishedOf(log)[s]
        BY <3>3 DEF PublishedOf
      <3> QED BY <3>4, <3>5, <3>6 DEF IndexView!Publish, PublishedOf
    <2>2. CASE CommitTx
      <3>1. /\ UNCHANGED log /\ cursor' = pos /\ pos >= cursor
            /\ pos \in DOMAIN log
        BY <2>2, Committed DEF CommitTx, pds, ProgressInv
      <3>2. IndexView!Observe(pos)
        BY <2>2, <3>1, CommitReflects DEF IndexView!Observe, IndexView!Reflects
      <3> QED BY <3>1, <3>2 DEF IndexView!Next
    <2>3. CASE Start(TRUE)
      BY <2>3 DEF Start, Reset, IndexedAt, NoRows, IndexView!Next, IndexView!Forget,
         IndexView!Empty
    <2>4. CASE UNCHANGED <<log, rows, cursor>>
      BY <2>4 DEF IndexView!vars
    <2>5. CASE UNCHANGED vars \/ DropOldest
      BY <2>4, <2>5 DEF vars, DropOldest, pds, db
    <2>6. ASSUME NEW r \in Repos, RotateKey(r) \/ RefreshDirectory(r)
          PROVE  UNCHANGED <<log, rows, cursor>>
      BY <2>6 DEF RotateKey, RefreshDirectory, db
    <2>7. CASE Disconnect \/ Crash \/ Start(FALSE) \/ Connect \/ HandleCommit
               \/ BackfillProfile \/ ApplyRecord \/ ApplyFails \/ ApplyBackfilled
      <3>1. UNCHANGED <<log, rows, cursor>>
        BY <2>7 DEF Disconnect, Crash, Start, Connect, HandleCommit, BackfillProfile,
           ApplyRecord, ApplyFails, ApplyBackfilled, Reconnect, pds, db
      <3> QED BY <2>4, <3>1
    <2> QED
      BY <2>1, <2>2, <2>3, <2>4, <2>5, <2>6, <2>7
      DEF Next, Environment, Consumer, IndexView!Next
  <1> QED
    BY TypeInit, TypeStep, ProgressInit, ProgressStep, ApplyInit, ApplyStep, <1>1, <1>2,
       PTL
    DEF Spec, ImplementsDerivedIndex, IndexView!Spec

----------------------------------------------------------------------------
(* No profile is shown without a signature either.                         *)

\* On log l, repository r signed a commit that published profile p.
Signed(l, r, p) ==
  \E s \in DOMAIN l : /\ l[s].key # NoKey
                      /\ l[s].repo = r
                      /\ p \in ProfilesOf(l[s])

AllSigned(l, ps) == \A r \in Repos : ps[r] # None => Signed(l, r, ps[r])

Readable(p) == p # None /\ p \notin Malformed

\* Commit m is one of those LastStation looks at.
IsStation(m, r) == m.repo = r /\ m.key # NoKey /\ ProfilesOf(m) # {}

\* ProfilesSigned, of wherever a profile can be on its way to the table: the
\* backfill's answer, the open transaction, and the repository that holds it,
\* where one that decodes is the last one its owner signed.
ProfileInv ==
  /\ \A r \in Repos :
       Readable(held[<<r, Self>>]) => held[<<r, Self>>] = LastStation(log, r, Len(log))
  /\ AllSigned(log, profile)
  /\ phase # "applying" => fetched = None
  /\ phase = "applying" => /\ AllSigned(log, tx.profile)
                           /\ fetched # None => Signed(log, log[pos].repo, fetched)

\* Of commits that publish a station there is a last one.
LEMMA LastOne ==
  ASSUME NEW l, NEW r, NEW n \in Nat, Stations(l, r, n) # {}
  PROVE  LET last == CHOOSE s \in Stations(l, r, n) :
                       \A t \in Stations(l, r, n) : t <= s
         IN  /\ last \in Stations(l, r, n)
             /\ \A t \in Stations(l, r, n) : t <= last
  <1> DEFINE S == Stations(l, r, n)
             T == {k \in 0 .. n : n - k \in S}
  <1>1. S \subseteq 1 .. n
    BY DEF Stations
  <1> HIDE DEF S
  <1>2. T # {}
    <2>1. PICK s \in S : TRUE
      BY DEF S
    <2>2. n - s \in 0 .. n /\ n - (n - s) = s
      BY <1>1, <2>1
    <2>3. n - s \in T
      BY <2>1, <2>2
    <2> QED BY <2>3
  <1>3. T \subseteq Nat
    OBVIOUS
  <1>4. PICK k \in T : \A j \in T : k <= j
    <2> HIDE DEF T
    <2> QED BY <1>2, <1>3, LeastNat
  <1>5. n - k \in S /\ k \in 0 .. n
    BY <1>4
  <1>6. ASSUME NEW t \in S PROVE t <= n - k
    <2>1. t \in 1 .. n /\ n - t \in 0 .. n /\ n - (n - t) = t
      BY <1>1
    <2>2. n - t \in T
      BY <2>1
    <2>3. k <= n - t
      BY <1>4, <2>2
    <2> QED BY <1>5, <2>1, <2>3
  <1> QED BY <1>5, <1>6 DEF S

\* What was published last was published, by a commit its repository signed.
LEMMA LastSigned ==
  ASSUME NEW l, NEW r, NEW n \in Nat, LastStation(l, r, n) # None
  PROVE  \E s \in 1 .. n : /\ l[s].key # NoKey
                           /\ l[s].repo = r
                           /\ LastStation(l, r, n) \in ProfilesOf(l[s])
  <1> DEFINE last == CHOOSE s \in Stations(l, r, n) : \A t \in Stations(l, r, n) : t <= s
  <1>1. Stations(l, r, n) # {}
    BY DEF LastStation
  <1>2. last \in Stations(l, r, n)
    BY <1>1, LastOne
  <1>3. LastStation(l, r, n) = CHOOSE p \in ProfilesOf(l[last]) : TRUE
    BY <1>1 DEF LastStation
  <1> HIDE DEF last
  <1>4. /\ last \in 1 .. n /\ l[last].key # NoKey /\ l[last].repo = r
        /\ ProfilesOf(l[last]) # {}
    BY <1>2 DEF Stations
  <1>5. (CHOOSE p \in ProfilesOf(l[last]) : TRUE) \in ProfilesOf(l[last])
    BY <1>4
  <1> QED BY <1>3, <1>4, <1>5

\* It depends on the commits up to there only.
LEMMA LastKept ==
  ASSUME NEW l, NEW k, NEW r, NEW n \in Nat, \A s \in 1 .. n : k[s] = l[s]
  PROVE  LastStation(k, r, n) = LastStation(l, r, n)
  <1> DEFINE last == CHOOSE s \in Stations(l, r, n) : \A t \in Stations(l, r, n) : t <= s
  <1>1. Stations(k, r, n) = Stations(l, r, n)
    BY DEF Stations
  <1>2. CASE Stations(l, r, n) = {}
    BY <1>1, <1>2 DEF LastStation
  <1>3. CASE Stations(l, r, n) # {}
    <2>1. last \in Stations(l, r, n)
      BY <1>3, LastOne
    <2>2. /\ LastStation(l, r, n) = CHOOSE p \in ProfilesOf(l[last]) : TRUE
          /\ LastStation(k, r, n) = CHOOSE p \in ProfilesOf(k[last]) : TRUE
      BY <1>1, <1>3 DEF LastStation
    <2> HIDE DEF last
    <2>3. last \in 1 .. n
      BY <2>1 DEF Stations
    <2>4. k[last] = l[last]
      BY <2>3
    <2> QED BY <2>2, <2>4
  <1> QED BY <1>2, <1>3

\* A commit that publishes no readable station of r leaves it as it is.
LEMMA LastStays ==
  ASSUME NEW l, NEW r, NEW n \in Nat \ {0}, ~IsStation(l[n], r)
  PROVE  LastStation(l, r, n) = LastStation(l, r, n - 1)
  <1>1. \A s : s \in 1 .. n <=> s \in 1 .. n - 1 \/ s = n
    OBVIOUS
  <1>2. Stations(l, r, n) = Stations(l, r, n - 1)
    BY <1>1 DEF Stations, IsStation
  <1> QED BY <1>2 DEF LastStation

\* One that publishes p becomes the last.
LEMMA LastIsNew ==
  ASSUME NEW l, NEW r, NEW n \in Nat \ {0}, l[n].repo = r, l[n].key # NoKey,
         NEW p, ProfilesOf(l[n]) = {p}
  PROVE  LastStation(l, r, n) = p
  <1> DEFINE last == CHOOSE s \in Stations(l, r, n) : \A t \in Stations(l, r, n) : t <= s
  <1>1. n \in Stations(l, r, n)
    BY DEF Stations
  <1>2. last \in Stations(l, r, n) /\ \A t \in Stations(l, r, n) : t <= last
    BY <1>1, LastOne
  <1>3. LastStation(l, r, n) = CHOOSE q \in ProfilesOf(l[last]) : TRUE
    BY <1>1 DEF LastStation
  <1> HIDE DEF last
  <1>4. last = n
    BY <1>1, <1>2 DEF Stations
  <1>5. (CHOOSE q \in {p} : TRUE) = p
    OBVIOUS
  <1> QED BY <1>3, <1>4, <1>5

\* A commit names the station once.
LEMMA OneProfile ==
  ASSUME NEW m, Distinct(m), NEW i \in DOMAIN m.ops, HasStation(m.ops[i])
  PROVE  ProfilesOf(m) = {m.ops[i].cid}
  <1>1. ASSUME NEW j \in DOMAIN m.ops, HasStation(m.ops[j]) PROVE j = i
    BY <1>1 DEF HasStation, Distinct
  <1> QED BY <1>1 DEF ProfilesOf

LEMMA ProfileInit == Init => ProfileInv
  <1> SUFFICES ASSUME Init PROVE ProfileInv
    OBVIOUS
  <1>1. \A r \in Repos : <<r, Self>> \in Uris
    BY DEF Uris, Paths
  <1> QED BY <1>1 DEF Init, ProfileInv, AllSigned, Readable

\* The log only grows, so nothing signed is taken back.
LEMMA ProfileKept ==
  ASSUME TypeInv, ProfileInv,
         \A s \in DOMAIN log : s \in DOMAIN log' /\ log'[s] = log[s],
         UNCHANGED <<profile, phase, pos, fetched, tx>>,
         \A r \in Repos :
           Readable(held'[<<r, Self>>]) =>
             held'[<<r, Self>>] = LastStation(log', r, Len(log'))
  PROVE  ProfileInv'
  <1>1. \A r, p : Signed(log, r, p) => Signed(log', r, p)
    BY DEF Signed
  <1>2. ASSUME phase = "applying" PROVE log'[pos] = log[pos]
    BY <1>2, InHand
  <1> QED BY <1>1, <1>2 DEF ProfileInv, AllSigned, Readable

\* What a commit leaves at its own repository's station, it published; what it
\* does not touch, or leaves unreadable, is still the last one.
LEMMA PublishProfile ==
  ASSUME TypeInv, ProfileInv, NEW r \in Repos, Publish(r)
  PROVE  ProfileInv'
  <1>1. PICK ops \in CommitsOf(r) :
          /\ log' = Append(log, [repo |-> r, key |-> key[r], ops |-> ops])
          /\ held' = HeldAfter(r, ops)
    BY DEF Publish
  <1> DEFINE m == [repo |-> r, key |-> key[r], ops |-> ops]
             n == Len(log) + 1
  <1>2. log \in Seq(Commit) /\ Len(log) \in Nat /\ m.repo = r /\ m.key = key[r] /\ m.ops = ops
    BY DEF TypeInv, TypeOK, Commit
  <1> HIDE DEF m
  <1>3. /\ \A s \in DOMAIN log : s \in DOMAIN log' /\ log'[s] = log[s]
        /\ n \in DOMAIN log' /\ log'[n] = m /\ Len(log') = n
        /\ n \in Nat \ {0} /\ n - 1 = Len(log)
        /\ \A s \in 1 .. Len(log) : log'[s] = log[s]
    BY <1>1, <1>2 DEF m
  <1> HIDE DEF n
  <1>4. key[r] # NoKey
    BY IngestAssumption DEF TypeInv, TypeOK, Keys, NoKey
  <1>5. Distinct(m)
    BY <1>2 DEF CommitsOf, Distinct
  <1>6. \A q \in Repos : LastStation(log', q, Len(log)) = LastStation(log, q, Len(log))
    BY <1>2, <1>3, LastKept
  <1>7. ASSUME NEW q \in Repos, Readable(held'[<<q, Self>>])
        PROVE  held'[<<q, Self>>] = LastStation(log', q, Len(log'))
    <2>1. <<q, Self>> \in Uris
      BY DEF Uris, Paths
    <2>2. CASE q = r /\ \E i \in DOMAIN ops : ops[i].path = Self
      <3>1. PICK i \in DOMAIN ops : held'[<<q, Self>>] = ops[i].cid /\ ops[i].path = Self
        BY <1>1, <2>1, <2>2 DEF HeldAfter
      <3>2. ops[i].action # "delete"
        <4>1. PICK k \in 1 .. MaxOps : ops \in [1 .. k -> OpsOf(r)]
          BY DEF CommitsOf
        <4>2. ops[i] \in OpsOf(r)
          BY <4>1
        <4> QED BY <1>7, <3>1, <4>2 DEF OpsOf, Readable
      <3>3. HasStation(m.ops[i])
        BY <1>2, <1>7, <3>1, <3>2 DEF HasStation, Readable
      <3>4. ProfilesOf(log'[n]) = {ops[i].cid}
        BY <1>2, <1>3, <1>5, <3>3, OneProfile
      <3>5. log'[n].repo = r /\ log'[n].key # NoKey
        BY <1>2, <1>3, <1>4
      <3>6. LastStation(log', r, n) = ops[i].cid
        <4> DEFINE L == log'
                   p == ops[i].cid
        <4>1. n \in Nat \ {0} /\ L[n].repo = r /\ L[n].key # NoKey /\ ProfilesOf(L[n]) = {p}
          BY <1>3, <3>4, <3>5
        <4> HIDE DEF L, p
        <4>2. LastStation(L, r, n) = p
          BY <4>1, LastIsNew
        <4> QED BY <4>2 DEF L, p
      <3> QED BY <1>3, <2>2, <3>1, <3>6
    <2>3. CASE ~(q = r /\ \E i \in DOMAIN ops : ops[i].path = Self)
      <3>1. held'[<<q, Self>>] = held[<<q, Self>>]
        BY <1>1, <2>1, <2>3 DEF HeldAfter
      <3>2. held[<<q, Self>>] = LastStation(log, q, Len(log))
        BY <1>7, <3>1 DEF ProfileInv, Readable
      <3>3. ~IsStation(log'[n], q)
        BY <1>2, <1>3, <2>3 DEF IsStation, ProfilesOf, HasStation
      <3>4. LastStation(log', q, n) = LastStation(log', q, Len(log))
        BY <1>3, <3>3, LastStays
      <3> QED BY <1>3, <1>6, <3>1, <3>2, <3>4
    <2> QED BY <2>2, <2>3
  <1>8. UNCHANGED <<profile, phase, pos, fetched, tx>>
    BY DEF Publish, db, process
  <1> QED BY <1>3, <1>7, <1>8, ProfileKept

LEMMA PublishUnverifiableProfile ==
  ASSUME TypeInv, ProfileInv, NEW r \in Repos, PublishUnverifiable(r)
  PROVE  ProfileInv'
  <1>1. PICK m : log' = Append(log, m) /\ m.key = NoKey
    <2>1. PICK op \in OpsOf(r) :
            log' = Append(log, [repo |-> r, key |-> NoKey, ops |-> <<op>>])
      BY DEF PublishUnverifiable
    <2> QED BY <2>1
  <1>2. log \in Seq(Commit) /\ Len(log) \in Nat
    BY DEF TypeInv, TypeOK, Commit
  <1> DEFINE n == Len(log) + 1
  <1>3. /\ \A s \in DOMAIN log : s \in DOMAIN log' /\ log'[s] = log[s]
        /\ log'[n] = m /\ Len(log') = n
        /\ n \in Nat \ {0} /\ n - 1 = Len(log)
        /\ \A s \in 1 .. Len(log) : log'[s] = log[s]
    BY <1>1, <1>2
  <1> HIDE DEF n
  <1>4. UNCHANGED <<held, profile, phase, pos, fetched, tx>>
    BY DEF PublishUnverifiable, db, process
  <1>5. ASSUME NEW q \in Repos
        PROVE  LastStation(log', q, Len(log')) = LastStation(log, q, Len(log))
    <2>1. ~IsStation(log'[n], q)
      BY <1>1, <1>3 DEF IsStation
    <2>2. LastStation(log', q, n) = LastStation(log', q, Len(log))
      BY <1>3, <2>1, LastStays
    <2>3. LastStation(log', q, Len(log)) = LastStation(log, q, Len(log))
      BY <1>2, <1>3, LastKept
    <2> QED BY <1>3, <2>2, <2>3
  <1>6. \A q \in Repos : Readable(held'[<<q, Self>>]) =>
          held'[<<q, Self>>] = LastStation(log', q, Len(log'))
    BY <1>4, <1>5 DEF ProfileInv
  <1> QED BY <1>3, <1>4, <1>6, ProfileKept

\* What the backfill fetches is what the repository holds, and it decodes.
LEMMA Fetches ==
  ASSUME TypeInv, ProfileInv, BackfillProfile, fetched' # None
  PROVE  /\ log[pos].repo \in Repos
         /\ fetched' = LastStation(log, log[pos].repo, Len(log))
  <1> DEFINE r == log[pos].repo
  <1>1. phase = "verified" /\ (fetched' = fetched \/ fetched' \in FetchStation(r))
    BY DEF BackfillProfile
  <1>2. r \in Repos
    BY <1>1, InHand, CommitsOnLog
  <1>3. fetched' = held[<<r, Self>>] /\ Readable(held[<<r, Self>>])
    BY <1>1 DEF ProfileInv, FetchStation, Readable
  <1> QED BY <1>2, <1>3 DEF ProfileInv

LEMMA BackfillFetches ==
  ASSUME TypeInv, ProfileInv, BackfillProfile
  PROVE  ProfileInv'
  <1> DEFINE r == log[pos].repo
  <1>1. /\ phase' = "applying"
        /\ UNCHANGED <<log, held, profile, pos>>
        /\ tx'.profile = profile
    BY DEF BackfillProfile, pds, db
  <1>2. fetched' # None => Signed(log, r, fetched')
    <2> SUFFICES ASSUME fetched' # None PROVE Signed(log, r, fetched')
      OBVIOUS
    <2>1. Len(log) \in Nat /\ DOMAIN log = 1 .. Len(log)
      BY DEF TypeInv, TypeOK
    <2>2. fetched' = LastStation(log, r, Len(log))
      BY Fetches
    <2> QED BY <2>1, <2>2, LastSigned DEF Signed
  <1> QED BY <1>1, <1>2 DEF ProfileInv

\* A signed profile overwrites a signed profile.
LEMMA UpsertSigned ==
  ASSUME NEW ps \in Names, AllSigned(log, ps), NEW r \in Repos, NEW p, Signed(log, r, p)
  PROVE  AllSigned(log, UpsertStation(ps, r, p))
  BY DEF AllSigned, UpsertStation, Names

LEMMA ApplyRecordProfile ==
  ASSUME TypeInv, SignedInv, ProfileInv, ApplyRecord
  PROVE  ProfileInv'
  <1> DEFINE m == log[pos]
             op == m.ops[next]
  <1>1. /\ phase = "applying" /\ next \in DOMAIN m.ops
        /\ tx' = WithRecord(tx, m, op)
        /\ UNCHANGED <<log, held, profile, phase, pos, fetched>>
    BY DEF ApplyRecord, pds, db
  <1>2. /\ pos \in DOMAIN log /\ tx \in Tx /\ tx.profile \in Names
        /\ m.repo \in Repos /\ m.key # NoKey
        /\ AllSigned(log, tx.profile)
    BY <1>1, InHand, CommitsOnLog DEF Tx, SignedInv, ProfileInv
  <1>3. AllSigned(log, tx'.profile)
    <2>1. CASE HasStation(op) /\ ~HasRow(m, op)
      <3>1. tx'.profile = UpsertStation(tx.profile, m.repo, op.cid)
        BY <1>1, <1>2, <2>1 DEF WithRecord, Tx, HasStation
      <3>2. op.cid \in ProfilesOf(m)
        BY <1>1, <2>1 DEF ProfilesOf
      <3>3. Signed(log, m.repo, op.cid)
        BY <1>2, <3>2 DEF Signed
      <3> QED BY <1>2, <3>1, <3>3, UpsertSigned
    <2>2. CASE ~(HasStation(op) /\ ~HasRow(m, op))
      <3>1. tx'.profile = tx.profile
        BY <1>1, <1>2, <2>2 DEF WithRecord, Tx, HasStation, HasRow
      <3> QED BY <1>2, <3>1
    <2> QED BY <2>1, <2>2
  <1> QED
    BY <1>1, <1>3 DEF ProfileInv, AllSigned, Signed

LEMMA ApplyBackfilledProfile ==
  ASSUME TypeInv, ProfileInv, ApplyBackfilled
  PROVE  ProfileInv'
  <1>1. /\ phase = "applying" /\ fetched # None /\ fetched' = None
        /\ UNCHANGED <<log, held, profile, phase, pos>>
        /\ tx' = [tx EXCEPT !.profile = UpsertStation(@, log[pos].repo, fetched)]
    BY DEF ApplyBackfilled, pds, db
  <1>2. /\ tx \in Tx /\ tx.profile \in Names /\ log[pos].repo \in Repos
        /\ AllSigned(log, tx.profile) /\ Signed(log, log[pos].repo, fetched)
    BY <1>1, InHand, CommitsOnLog DEF Tx, ProfileInv
  <1>3. tx'.profile = UpsertStation(tx.profile, log[pos].repo, fetched)
    BY <1>1, <1>2 DEF Tx
  <1>4. AllSigned(log, tx'.profile)
    BY <1>2, <1>3, UpsertSigned
  <1> QED
    BY <1>1, <1>4 DEF ProfileInv, AllSigned, Signed

LEMMA ProfileStep == TypeInv /\ SignedInv /\ ProfileInv /\ [Next]_vars => ProfileInv'
  <1> SUFFICES ASSUME TypeInv, SignedInv, ProfileInv, [Next]_vars PROVE ProfileInv'
    OBVIOUS
  <1>1. ASSUME NEW r \in Repos, RotateKey(r) \/ RefreshDirectory(r) PROVE ProfileInv'
    BY <1>1 DEF RotateKey, RefreshDirectory, db, process, ProfileInv, AllSigned, Signed
  <1>2. ASSUME NEW reindex, Start(reindex) PROVE ProfileInv'
    <2>1. UNCHANGED <<log, held, fetched>> /\ phase = "down" /\ phase' = "connecting"
      BY <1>2 DEF Start
    <2>2. profile' = profile \/ \A r \in Repos : profile'[r] = None
      BY <1>2 DEF Start, Reset, db
    <2> QED BY <2>1, <2>2 DEF ProfileInv, AllSigned, Signed
  <1>3. CASE Connect \/ HandleCommit
    <2>1. /\ UNCHANGED <<log, held, profile, fetched>>
          /\ phase # "applying" /\ phase' # "applying"
      BY <1>3 DEF Connect, HandleCommit, pds, db
    <2> QED BY <2>1 DEF ProfileInv, AllSigned, Signed
  <1>4. CASE Disconnect \/ Crash \/ ApplyFails
    <2>1. /\ UNCHANGED <<log, held, profile>> /\ fetched' = None /\ phase' # "applying"
      BY <1>4 DEF Disconnect, Crash, ApplyFails, Reconnect, NotHandling, pds, db
    <2> QED BY <2>1 DEF ProfileInv, AllSigned, Signed
  <1>5. CASE CommitTx
    <2>1. /\ UNCHANGED <<log, held>> /\ fetched' = None /\ phase' = "streaming"
          /\ phase = "applying" /\ profile' = tx.profile
      BY <1>5 DEF CommitTx, NotHandling, pds
    <2> QED BY <2>1 DEF ProfileInv, AllSigned, Signed
  <1>6. CASE UNCHANGED vars
    BY <1>6 DEF vars, pds, db, process, ProfileInv, AllSigned, Signed
  <1>7. CASE DropOldest
    BY <1>7 DEF DropOldest, db, process, ProfileInv, AllSigned, Signed
  <1> QED
    BY <1>1, <1>2, <1>3, <1>4, <1>5, <1>6, <1>7, PublishProfile, PublishUnverifiableProfile,
       BackfillFetches, ApplyRecordProfile, ApplyBackfilledProfile
    DEF Next, Environment, Consumer

\* The same for profiles, "believed without a signature" neither: whatever is
\* shown of a repository, off the log or fetched by the backfill at any moment,
\* the repository signed and published itself (backfill.go:34-37), through
\* rotations, stale directories, restarts and rebuilds.
THEOREM OnlySignedProfiles == Spec => []ProfilesSigned
  <1>1. ProfileInv => ProfilesSigned
    BY DEF ProfileInv, AllSigned, Signed, ProfilesSigned, HasProfile
  <1> QED
    BY TypeInit, TypeStep, SignedInit, SignedStep, ProfileInit, ProfileStep, <1>1, PTL
    DEF Spec

----------------------------------------------------------------------------
(* The index and the repositories it is about.                             *)

\* Commit m has turned what the repositories hold from S to T.
Turns(m, S, T) ==
  \/ m.key = NoKey /\ T = S
  \/ /\ m.key # NoKey
     /\ \A i \in DOMAIN m.ops :
          /\ T[UriOf(m, i)] = m.ops[i].cid
          /\ m.ops[i].action = "create" => S[UriOf(m, i)] = None
          /\ m.ops[i].action = "update" => m.ops[i].path = Self
          /\ m.ops[i].action = "delete" => m.ops[i].cid = None
     /\ \A u \in Uris : (\A i \in DOMAIN m.ops : UriOf(m, i) # u) => T[u] = S[u]

\* No record is at two URIs, and none with a row where a profile belongs.
Apart(T) ==
  /\ \A u, v \in Uris : u # v /\ T[u] \in Contents => T[u] # T[v]
  /\ \A r \in Repos : T[<<r, Self>>] \notin Contents

\* h tells what the repositories held after each commit of the log.
History(h) ==
  /\ h[0] = [u \in Uris |-> None]
  /\ h[Len(log)] = held
  /\ \A s \in 0 .. Len(log) : Apart(h[s])
  /\ \A s \in 1 .. Len(log) : Turns(log[s], h[s - 1], h[s])

\* Index x, where each content is, is what T says and the index may believe.
Agrees(T, x) ==
  \A u \in Uris, c \in Contents :
    x[c] = u <=> T[u] = c /\ Believable(u[1], c)

\* No signed commit up to n has been passed over.
Complete(n) == \A s \in 1 .. n : log[s].key # NoKey => s \in applied

\* Where in a history the cursor is.
At(n) == IF n < 0 THEN 0 ELSE n

\* Profile p is the last that r had published at the nth commit, or at a later one.
LeftBy(n, r, p) == \E t \in n .. Len(log) : p = LastStation(log, r, t)

\* The first n operations of commit m name no station.
NoStation(m, n) == \A i \in 1 .. n : ~HasStation(m.ops[i])

\* What the open transaction says of profiles.
Opened ==
  LET m == log[pos] IN
  /\ \A q \in Repos :
       \/ tx.profile[q] = profile[q] /\ (q = m.repo => NoStation(m, next - 1))
       \/ q = m.repo /\ LeftBy(pos, q, tx.profile[q])
  /\ fetched # None => LeftBy(pos, m.repo, fetched)

\* Of an index that has passed over no commit: its rows are where their
\* repositories held them at the cursor, and the profile it shows was the last
\* one published at that commit or a later one.
Faithful(h) ==
  Complete(cursor) =>
    /\ Agrees(h[At(cursor)], IndexedAt(rows))
    /\ \A r \in Repos : LeftBy(At(cursor), r, profile[r])

\* With no rotations, an index discarded that had missed nothing was such an
\* index, and so was one that had not begun.
Discarded(h) ==
  before # None /\ MaxRotations = 0 =>
    /\ before.cursor <= Len(log)
    /\ before.whole \/ before.cursor = -1 => Agrees(h[At(before.cursor)], before.index)

AgreeInv ==
  /\ cursor = -1 \/ cursor \in applied
  /\ phase = "applying" => Opened
  /\ \E h : History(h) /\ Faithful(h) /\ Discarded(h)

\* What a stretch of unsigned commits leaves is what it found.
LEMMA Stretch ==
  ASSUME NEW h, NEW a \in Nat, NEW b \in Nat,
         \A s \in a + 1 .. b : h[s] = h[s - 1]
  PROVE  \A t \in a .. b : h[t] = h[a]
  <1> DEFINE T == {t \in a .. b : h[t] # h[a]}
  <1> SUFFICES ASSUME T # {}  PROVE FALSE
    OBVIOUS
  <1>1. PICK t \in T : \A s \in T : t <= s
    <2>1. T \subseteq Nat
      OBVIOUS
    <2> HIDE DEF T
    <2> QED BY <2>1, LeastNat
  <1>2. t \in a + 1 .. b /\ t - 1 \in a .. b /\ t - 1 \notin T
    BY <1>1
  <1>3. h[t] = h[t - 1] /\ h[t - 1] = h[a]
    BY <1>2
  <1> QED BY <1>1, <1>3

\* A commit whose transaction does what DerivedIndex says of it takes an index
\* that agrees with the repositories to one that agrees with what it left there.
LEMMA AgreesAfter ==
  ASSUME NEW m, m.key # NoKey, m.repo \in Repos,
         \A i \in DOMAIN m.ops : m.ops[i] \in Op /\ FitsPath(m.ops[i]),
         NEW S, NEW T, Turns(m, S, T), Apart(S), Apart(T),
         NEW x, NEW y, Agrees(S, x),
         \A w \in WritesOf(m) : <<y[w[2]], w[2]>> \in WritesOf(m),
         \A c \in Contents :
           /\ y[c] \notin DeletesOf(m)
           /\ \/ y[c] = x[c]
              \/ y[c] = None /\ x[c] \in DeletesOf(m)
              \/ <<y[c], c>> \in WritesOf(m)
  PROVE  Agrees(T, y)
  <1> DEFINE May(c, u) == Believable(u[1], c)
  <1>1. /\ \A i \in DOMAIN m.ops :
             /\ T[UriOf(m, i)] = m.ops[i].cid
             /\ m.ops[i].action = "create" => S[UriOf(m, i)] = None
             /\ m.ops[i].action = "update" => m.ops[i].path = Self
             /\ m.ops[i].action = "delete" => m.ops[i].cid = None
        /\ \A u \in Uris : (\A i \in DOMAIN m.ops : UriOf(m, i) # u) => T[u] = S[u]
    BY DEF Turns
  <1>2. \A i \in DOMAIN m.ops : /\ UriOf(m, i) \in Uris
                                /\ UriOf(m, i)[1] = m.repo /\ UriOf(m, i)[2] = m.ops[i].path
    BY DEF Op, UriOf, Uris
  <1>3. None \notin Contents /\ None \notin Uris /\ Contents \cap Profiles = {}
    BY IngestAssumption
  \* What the commit writes, it leaves there.
  <1>4. ASSUME NEW u, NEW c, <<u, c>> \in WritesOf(m)
        PROVE  u \in Uris /\ c \in Contents /\ T[u] = c /\ May(c, u)
    <2>1. PICK i \in DOMAIN m.ops : /\ HasRow(m, m.ops[i])
                                    /\ u = UriOf(m, i) /\ c = m.ops[i].cid
      BY <1>4 DEF WritesOf, UriOf
    <2>2. c \in Contents
      BY <2>1, RecordsAtTyped DEF HasRow, FitsPath, Op
    <2> QED BY <1>1, <1>2, <2>1, <2>2 DEF HasRow, Indexable
  \* What it leaves with a row, at a path it names, it writes.
  <1>5. ASSUME NEW i \in DOMAIN m.ops, NEW c \in Contents,
               T[UriOf(m, i)] = c, May(c, UriOf(m, i))
        PROVE  <<UriOf(m, i), c>> \in WritesOf(m)
    <2>1. m.ops[i].cid = c /\ m.ops[i].action # "delete"
      BY <1>1, <1>3, <1>5
    <2>2. m.ops[i].path # Self
      BY <1>3, <2>1, RecordsAtTyped DEF FitsPath, Op
    <2>3. HasRow(m, m.ops[i])
      BY <1>2, <1>5, <2>1, <2>2 DEF HasRow, Indexable
    <2> QED BY <2>1, <2>3 DEF WritesOf, UriOf
  <1>6. ASSUME NEW i \in DOMAIN m.ops, m.ops[i].action = "delete"
        PROVE  UriOf(m, i) \in DeletesOf(m)
    BY <1>6 DEF DeletesOf, UriOf
  <1> SUFFICES ASSUME NEW u \in Uris, NEW c \in Contents
               PROVE  y[c] = u <=> T[u] = c /\ May(c, u)
    BY DEF Agrees
  <1>7. x[c] = u <=> S[u] = c /\ May(c, u)
    BY DEF Agrees
  <1>8. ASSUME NEW v \in Uris, T[v] = c, T[u] = c PROVE v = u
    BY <1>8 DEF Apart
  <1>9. /\ y[c] \notin DeletesOf(m)
        /\ \/ y[c] = x[c]
           \/ y[c] = None /\ x[c] \in DeletesOf(m)
           \/ <<y[c], c>> \in WritesOf(m)
    OBVIOUS
  <1>10. ASSUME y[c] = u PROVE T[u] = c /\ May(c, u)
    <2>1. CASE <<y[c], c>> \in WritesOf(m)
      BY <1>4, <1>10, <2>1
    <2>2. CASE y[c] = x[c]
      <3>1. S[u] = c /\ May(c, u)
        BY <1>7, <1>10, <2>2
      <3>2. \A i \in DOMAIN m.ops : UriOf(m, i) # u
        <4> SUFFICES ASSUME NEW i \in DOMAIN m.ops, UriOf(m, i) = u  PROVE FALSE
          OBVIOUS
        <4>1. m.ops[i].action # "create"
          BY <1>1, <1>3, <3>1
        <4>2. m.ops[i].action # "delete"
          BY <1>6, <1>9, <1>10
        <4>3. m.ops[i].path = Self
          BY <1>1, <4>1, <4>2 DEF Op
        <4>4. u = <<m.repo, Self>>
          BY <4>3 DEF UriOf
        <4> QED BY <3>1, <4>4 DEF Apart
      <3> QED BY <1>1, <3>1, <3>2
    <2> QED BY <1>3, <1>9, <1>10, <2>1, <2>2
  <1>11. ASSUME T[u] = c, May(c, u) PROVE y[c] = u
    <2>1. CASE <<y[c], c>> \in WritesOf(m)
      BY <1>4, <1>8, <1>11, <2>1
    <2>2. CASE \E i \in DOMAIN m.ops : UriOf(m, i) = u
      <3>1. <<u, c>> \in WritesOf(m)
        BY <1>5, <1>11, <2>2
      <3>2. <<y[c], c>> \in WritesOf(m)
        <4>1. <<u, c>>[2] = c
          OBVIOUS
        <4> QED BY <3>1, <4>1
      <3> QED BY <2>1, <3>2
    <2>3. CASE <<y[c], c>> \notin WritesOf(m) /\ \A i \in DOMAIN m.ops : UriOf(m, i) # u
      <3>1. S[u] = c
        BY <1>1, <1>11, <2>3
      <3>2. x[c] = u
        BY <1>7, <1>11, <3>1
      <3>3. u \notin DeletesOf(m)
        <4>1. \A w \in DeletesOf(m) : \E i \in DOMAIN m.ops : UriOf(m, i) = w
          BY DEF DeletesOf, UriOf
        <4> QED BY <2>3, <4>1
      <3> QED BY <1>9, <2>3, <3>2, <3>3
    <2> QED BY <2>1, <2>2, <2>3
  <1> QED BY <1>10, <1>11

\* Without in-place updates and duplicates, what the PDS accepts as a commit
\* turns what the repositories hold into what they hold after it.
LEMMA PublishTurns ==
  ASSUME ~RecordUpdates, ~Duplicates, TypeInv, TypeInv', NEW r \in Repos,
         NEW ops \in CommitsOf(r),
         held' = HeldAfter(r, ops),
         \/ Duplicates
         \/ \A u, v \in Uris : u # v /\ held'[u] \in Contents => held'[u] # held'[v]
  PROVE  /\ Turns([repo |-> r, key |-> key[r], ops |-> ops], held, held')
         /\ Apart(held')
  <1> DEFINE m == [repo |-> r, key |-> key[r], ops |-> ops]
  <1>1. m.repo = r /\ m.key = key[r] /\ m.ops = ops
    OBVIOUS
  <1>2. m.key # NoKey
    BY IngestAssumption DEF TypeInv, TypeOK, Keys, NoKey
  <1> HIDE DEF m
  <1>3. \A i \in DOMAIN ops : ops[i] \in OpsOf(r)
    <2>1. PICK n \in 1 .. MaxOps : ops \in [1 .. n -> OpsOf(r)]
      BY DEF CommitsOf
    <2> QED BY <2>1
  <1>4. \A i, j \in DOMAIN ops : i # j => ops[i].path # ops[j].path
    BY DEF CommitsOf
  <1>5. \A i \in DOMAIN ops : UriOf(m, i) = <<r, ops[i].path>> /\ UriOf(m, i) \in Uris
    BY <1>1, <1>3, OpsTyped DEF UriOf, Uris, Op
  <1>6. ASSUME NEW i \in DOMAIN m.ops
        PROVE  /\ held'[UriOf(m, i)] = m.ops[i].cid
               /\ m.ops[i].action = "create" => held[UriOf(m, i)] = None
               /\ m.ops[i].action = "update" => m.ops[i].path = Self
               /\ m.ops[i].action = "delete" => m.ops[i].cid = None
    <2>1. /\ UriOf(m, i) \in Uris /\ UriOf(m, i)[1] = r
          /\ UriOf(m, i)[2] = ops[i].path
      BY <1>1, <1>5
    <2>2. held'[UriOf(m, i)] = ops[CHOOSE j \in DOMAIN ops : ops[j].path = ops[i].path].cid
      BY <1>1, <2>1 DEF HeldAfter
    <2>3. (CHOOSE j \in DOMAIN ops : ops[j].path = ops[i].path) = i
      BY <1>1, <1>4
    <2>4. held'[UriOf(m, i)] = m.ops[i].cid
      BY <1>1, <2>2, <2>3
    <2> QED BY <1>1, <1>3, <1>5, <2>4 DEF OpsOf
  <1>7. ASSUME NEW u \in Uris, \A i \in DOMAIN m.ops : UriOf(m, i) # u
        PROVE  held'[u] = held[u]
    <2>1. u = <<u[1], u[2]>>
      BY DEF Uris
    <2>2. ~(u[1] = r /\ \E i \in DOMAIN ops : ops[i].path = u[2])
      BY <1>1, <1>5, <1>7, <2>1
    <2> QED BY <2>2 DEF HeldAfter
  <1>8. Apart(held')
    <2>1. \A q \in Repos : held'[<<q, Self>>] \in Profiles \cup {None}
      <3>1. Self \in Paths
        BY DEF Paths
      <3> QED BY <3>1, RecordsAtTyped DEF TypeInv
    <2> QED BY <2>1, IngestAssumption DEF Apart
  <1>9. Turns(m, held, held')
    BY <1>2, <1>6, <1>7 DEF Turns
  <1> QED BY <1>8, <1>9 DEF m

\* The history of a log that has grown.
LEMMA HistoryGrows ==
  ASSUME TypeInv, NEW h, History(h), NEW m, log' = Append(log, m),
         Turns(m, held, held'), Apart(held')
  PROVE  \E g : History(g)' /\ \A n \in 0 .. Len(log) : g[n] = h[n]
  <1>1. /\ log \in Seq(Commit) /\ Len(log) \in Nat
        /\ Len(log') = Len(log) + 1
        /\ \A s \in 1 .. Len(log) : log'[s] = log[s]
        /\ log'[Len(log) + 1] = m
    BY DEF TypeInv, TypeOK, Commit
  <1>2. PICK g : g = [n \in 0 .. Len(log) + 1 |-> IF n <= Len(log) THEN h[n] ELSE held']
    OBVIOUS
  <1>3. /\ \A n \in 0 .. Len(log) : g[n] = h[n]
        /\ g[Len(log) + 1] = held'
    BY <1>1, <1>2
  <1>4. \A s \in 0 .. Len(log') : Apart(g[s])
    <2> SUFFICES ASSUME NEW s \in 0 .. Len(log')  PROVE Apart(g[s])
      OBVIOUS
    <2>1. CASE s \in 0 .. Len(log)
      BY <1>3, <2>1 DEF History
    <2>2. CASE s = Len(log) + 1
      BY <1>3, <2>2
    <2> QED BY <1>1, <2>1, <2>2
  <1>5. \A s \in 1 .. Len(log') : Turns(log'[s], g[s - 1], g[s])
    <2> SUFFICES ASSUME NEW s \in 1 .. Len(log')  PROVE Turns(log'[s], g[s - 1], g[s])
      OBVIOUS
    <2>1. CASE s \in 1 .. Len(log)
      <3>1. g[s] = h[s] /\ g[s - 1] = h[s - 1] /\ log'[s] = log[s]
        BY <1>1, <1>3, <2>1
      <3> QED BY <2>1, <3>1 DEF History
    <2>2. CASE s = Len(log) + 1
      <3>1. g[s] = held' /\ log'[s] = m /\ g[s - 1] = h[Len(log)] /\ h[Len(log)] = held
        BY <1>1, <1>3, <2>2 DEF History
      <3> QED BY <3>1
    <2> QED BY <1>1, <2>1, <2>2
  <1>6. g[0] = [u \in Uris |-> None] /\ g[Len(log')] = held'
    BY <1>1, <1>3 DEF History
  <1>7. History(g)'
    BY <1>4, <1>5, <1>6 DEF History, Apart, Turns, UriOf
  <1> QED BY <1>3, <1>7

LEMMA AgreeInit == Init => AgreeInv
  <1> SUFFICES ASSUME Init PROVE AgreeInv
    OBVIOUS
  <1> DEFINE nothing == [u \in Uris |-> None]
             h == [n \in {0} |-> nothing]
  <1>1. /\ log = << >> /\ held = nothing /\ rows = NoRows /\ cursor = -1 /\ before = None
        /\ phase = "down" /\ \A r \in Repos : profile[r] = None
    BY DEF Init
  <1>2. h[0] = nothing
    OBVIOUS
  <1>3. None \notin Contents /\ None \notin Uris
    BY IngestAssumption
  <1>4. \A r \in Repos : <<r, Self>> \in Uris
    BY DEF Uris, Paths
  <1>5. Apart(nothing)
    BY <1>3, <1>4 DEF Apart
  <1> HIDE DEF h
  <1>6. History(h)
    BY <1>1, <1>2, <1>5 DEF History
  <1>7. Agrees(nothing, IndexedAt(NoRows))
    BY <1>3 DEF Agrees, IndexedAt, NoRows
  <1>8. \A r \in Repos : LeftBy(0, r, None)
    <2>1. \A r : LastStation(log, r, 0) = None
      BY DEF LastStation, Stations
    <2>2. Len(log) = 0
      BY <1>1
    <2> QED BY <2>1, <2>2 DEF LeftBy
  <1>9. At(cursor) = 0
    BY <1>1 DEF At
  <1>10. Faithful(h)
    BY <1>1, <1>2, <1>7, <1>8, <1>9 DEF Faithful
  <1> QED BY <1>1, <1>6, <1>10 DEF AgreeInv, Discarded

\* A commit on the log changes nothing of what was said of those before it.
LEMMA GrowsAgree ==
  ASSUME TypeInv, AgreeInv, NEW m, log' = Append(log, m),
         \A h : History(h) =>
           \E g : History(g)' /\ \A n \in 0 .. Len(log) : g[n] = h[n],
         UNCHANGED <<db, process, history>>
  PROVE  AgreeInv'
  <1>1. /\ log \in Seq(Commit) /\ Len(log) \in Nat
        /\ Len(log') = Len(log) + 1
        /\ \A s \in 1 .. Len(log) : log'[s] = log[s]
        /\ cursor \in Int /\ cursor <= Len(log) /\ cursor >= -1
        /\ pos \in 0 .. Len(log)
    BY DEF TypeInv, TypeOK, Commit
  <1>2. UNCHANGED <<rows, profile, cursor, phase, pos, fetched, tx, next, applied, before>>
    BY DEF db, process, history
  <1>3. PICK h : History(h) /\ Faithful(h) /\ Discarded(h)
    BY DEF AgreeInv
  <1>4. PICK g : History(g)' /\ \A n \in 0 .. Len(log) : g[n] = h[n]
    BY <1>3
  <1>5. ASSUME NEW n \in Nat, NEW r, NEW p, LeftBy(n, r, p)
        PROVE  \E t \in n .. Len(log') : p = LastStation(log', r, t)
    <2>1. PICK t \in n .. Len(log) : p = LastStation(log, r, t)
      BY <1>5 DEF LeftBy
    <2>2. t \in Nat /\ t \in n .. Len(log') /\ \A k \in 1 .. t : log'[k] = log[k]
      BY <1>1
    <2>3. LastStation(log', r, t) = LastStation(log, r, t)
      BY <2>2, LastKept
    <2> QED BY <2>1, <2>2, <2>3
  <1>6. At(cursor) \in 0 .. Len(log) /\ At(cursor') = At(cursor)
    BY <1>1, <1>2 DEF At
  <1>7. Faithful(g)'
    <2>1. Complete(cursor)' => Complete(cursor)
      BY <1>1, <1>2 DEF Complete
    <2>2. g[At(cursor)] = h[At(cursor)]
      BY <1>4, <1>6
    <2> SUFFICES ASSUME Complete(cursor)
                 PROVE  /\ Agrees(g[At(cursor)], IndexedAt(rows))
                        /\ \A r \in Repos : LeftBy(At(cursor), r, profile[r])'
      BY <1>2, <1>6, <2>1 DEF Faithful, Agrees, IndexedAt
    <2>3. Agrees(g[At(cursor)], IndexedAt(rows))
      BY <1>3, <2>2 DEF Faithful
    <2>4. ASSUME NEW r \in Repos PROVE LeftBy(At(cursor), r, profile[r])'
      <3>1. LeftBy(At(cursor), r, profile[r])
        BY <1>3 DEF Faithful
      <3>2. \E t \in At(cursor) .. Len(log') : profile[r] = LastStation(log', r, t)
        BY <1>5, <1>6, <3>1
      <3> QED BY <1>2, <1>6, <3>2 DEF LeftBy
    <2> QED BY <2>3, <2>4
  <1>8. (phase = "applying" => Opened)'
    <2> SUFFICES ASSUME phase = "applying"  PROVE Opened'
      BY <1>2
    <2>1. Opened /\ log'[pos] = log[pos] /\ pos \in Nat
      BY <1>1, InHand DEF AgreeInv
    <2>2. ASSUME NEW q \in Repos
          PROVE  \/ /\ tx.profile[q] = profile[q]
                    /\ q = log[pos].repo => NoStation(log[pos], next - 1)
                 \/ /\ q = log[pos].repo
                    /\ \E t \in pos .. Len(log') : tx.profile[q] = LastStation(log', q, t)
      <3>1. \/ /\ tx.profile[q] = profile[q]
               /\ q = log[pos].repo => NoStation(log[pos], next - 1)
            \/ q = log[pos].repo /\ LeftBy(pos, q, tx.profile[q])
        BY <2>1 DEF Opened
      <3> QED BY <1>5, <2>1, <3>1
    <2>3. fetched # None =>
            \E t \in pos .. Len(log') : fetched = LastStation(log', log[pos].repo, t)
      BY <1>5, <2>1 DEF Opened
    <2>4. log[pos]' = log[pos]
      BY <1>2, <2>1
    <2>5. NoStation(log[pos], next - 1)' <=> NoStation(log[pos], next - 1)
      BY <1>2, <2>4 DEF NoStation, HasStation
    <2> QED BY <1>2, <2>2, <2>3, <2>4, <2>5 DEF Opened, LeftBy
  <1>9. Discarded(g)'
    <2> SUFFICES ASSUME before # None, MaxRotations = 0
                 PROVE  /\ before.cursor <= Len(log) + 1
                        /\ before.whole \/ before.cursor = -1 =>
                             Agrees(g[At(before.cursor)], before.index)
      BY <1>1, <1>2 DEF Discarded, Agrees, At
    <2>1. before.cursor \in Int /\ before.cursor >= -1
      BY DEF TypeInv, TypeOK
    <2>2. /\ before.cursor <= Len(log)
          /\ before.whole \/ before.cursor = -1 =>
               Agrees(h[At(before.cursor)], before.index)
      BY <1>3 DEF Discarded
    <2>3. At(before.cursor) \in 0 .. Len(log)
      BY <1>1, <2>1, <2>2 DEF At
    <2> QED BY <1>1, <1>4, <2>1, <2>2, <2>3
  <1> QED BY <1>2, <1>4, <1>7, <1>8, <1>9 DEF AgreeInv

LEMMA PublishAgree ==
  ASSUME ~RecordUpdates, ~Duplicates, TypeInv, TypeInv', AgreeInv,
         NEW r \in Repos, Publish(r) \/ PublishUnverifiable(r)
  PROVE  AgreeInv'
  <1>1. PICK m : /\ log' = Append(log, m)
                 /\ Turns(m, held, held')
                 /\ \A h : History(h) => Apart(held')
    <2>1. CASE Publish(r)
      <3>1. PICK ops \in CommitsOf(r) :
              /\ log' = Append(log, [repo |-> r, key |-> key[r], ops |-> ops])
              /\ held' = HeldAfter(r, ops)
              /\ \/ Duplicates
                 \/ \A u, v \in Uris : u # v /\ held'[u] \in Contents => held'[u] # held'[v]
        BY <2>1 DEF Publish
      <3> QED BY <3>1, PublishTurns
    <2>2. CASE PublishUnverifiable(r)
      <3>1. PICK op \in OpsOf(r) :
              log' = Append(log, [repo |-> r, key |-> NoKey, ops |-> <<op>>])
        BY <2>2 DEF PublishUnverifiable
      <3>2. held' = held
        BY <2>2 DEF PublishUnverifiable
      <3>3. Len(log) \in 0 .. Len(log)
        BY DEF TypeInv, TypeOK
      <3>4. \A h : History(h) => Apart(held')
        BY <3>2, <3>3 DEF History
      <3> QED BY <3>1, <3>2, <3>4 DEF Turns
    <2> QED BY <2>1, <2>2
  <1>2. \A h : History(h) => \E g : History(g)' /\ \A n \in 0 .. Len(log) : g[n] = h[n]
    BY <1>1, HistoryGrows
  <1>3. UNCHANGED <<db, process, history>>
    BY DEF Publish, PublishUnverifiable
  <1> QED BY <1>1, <1>2, <1>3, GrowsAgree

HistoriesStay(h) == History(h) /\ Faithful(h) /\ Discarded(h)

\* The log, the repositories and the index stay, and so does a transaction
\* that stays open.
LEMMA AgreeKept ==
  ASSUME AgreeInv, UNCHANGED <<log, held, rows, profile, cursor, applied, before>>,
         phase' = "applying" => phase = "applying" /\ UNCHANGED <<pos, fetched, tx, next>>
  PROVE  AgreeInv'
  <1>1. PICK h : History(h) /\ Faithful(h) /\ Discarded(h)
    BY DEF AgreeInv
  <1>2. HistoriesStay(h)'
    BY <1>1 DEF HistoriesStay, History, Faithful, Discarded, Complete, LeftBy, IndexedAt
  <1>3. phase' = "applying" => Opened'
    BY DEF AgreeInv, Opened, LeftBy
  <1> QED BY <1>2, <1>3 DEF AgreeInv, HistoriesStay

LEMMA BackfillAgree ==
  ASSUME TypeInv, AgreeInv, ProfileInv, BackfillProfile PROVE AgreeInv'
  <1>1. /\ phase = "verified" /\ phase' = "applying" /\ next' = 1
        /\ UNCHANGED <<log, held, rows, profile, cursor, pos, applied, before>>
        /\ tx'.profile = profile
    BY DEF BackfillProfile, pds, db, history
  <1>2. PICK h : History(h) /\ Faithful(h) /\ Discarded(h)
    BY DEF AgreeInv
  <1>3. fetched' # None =>
          \E t \in pos .. Len(log) : fetched' = LastStation(log, log[pos].repo, t)
    <2>1. Len(log) \in pos .. Len(log)
      BY DEF TypeInv, TypeOK
    <2> QED BY <2>1, Fetches
  <1>4. NoStation(log[pos], 0)
    BY DEF NoStation
  <1>5. Opened'
    <2>1. next' - 1 = 0
      BY <1>1
    <2> QED BY <1>1, <1>3, <1>4, <2>1 DEF Opened, LeftBy, NoStation, HasStation
  <1>6. HistoriesStay(h)'
    BY <1>1, <1>2
       DEF HistoriesStay, History, Faithful, Discarded, Complete, LeftBy, IndexedAt
  <1> QED BY <1>1, <1>5, <1>6 DEF AgreeInv, HistoriesStay

\* The operation after the first n names a station, or the transaction's
\* profiles stay as they are.
LEMMA ApplyRecordAgree ==
  ASSUME TypeInv, SignedInv, ApplyInv, AgreeInv, ApplyRecord PROVE AgreeInv'
  <1> DEFINE m == log[pos]
             op == m.ops[next]
  <1>1. /\ phase = "applying" /\ next \in DOMAIN m.ops
        /\ tx' = WithRecord(tx, m, op) /\ next' = next + 1
        /\ UNCHANGED <<log, held, rows, profile, cursor, phase, pos, fetched, applied,
                       before>>
    BY DEF ApplyRecord, pds, db, history
  <1>2. /\ pos \in DOMAIN log /\ pos \in 1 .. Len(log) /\ tx \in Tx /\ tx.profile \in Names
        /\ m.repo \in Repos /\ m.key # NoKey /\ m.ops \in Seq(Op) /\ Distinct(m)
    BY <1>1, InHand, CommitsOnLog, SMTT(30)
       DEF Tx, SignedInv, ApplyInv, Commit, TypeInv, TypeOK
  <1>3. next \in 1 .. Len(m.ops) /\ Len(m.ops) \in Nat
    BY <1>1, <1>2
  <1>4. PICK h : History(h) /\ Faithful(h) /\ Discarded(h)
    BY <1>1 DEF AgreeInv
  <1>5. Opened
    BY <1>1 DEF AgreeInv
  <1>6. ASSUME NEW q \in Repos
        PROVE  \/ /\ tx'.profile[q] = profile[q]
                  /\ q = m.repo => NoStation(m, next)
               \/ /\ q = m.repo
                  /\ \E t \in pos .. Len(log) : tx'.profile[q] = LastStation(log, q, t)
    <2>1. \/ tx.profile[q] = profile[q] /\ (q = m.repo => NoStation(m, next - 1))
          \/ /\ q = m.repo
             /\ \E t \in pos .. Len(log) : tx.profile[q] = LastStation(log, q, t)
      BY <1>5 DEF Opened, LeftBy
    <2>2. CASE HasStation(op) /\ ~HasRow(m, op)
      <3>1. tx'.profile = UpsertStation(tx.profile, m.repo, op.cid)
        BY <1>1, <1>2, <2>2 DEF WithRecord, Tx, HasStation
      <3>2. ProfilesOf(m) = {op.cid}
        BY <1>1, <1>2, <2>2, OneProfile
      <3>3. pos \in Nat \ {0}
        BY <1>2
      <3> HIDE DEF m, op
      <3>4. LastStation(log, m.repo, pos) = op.cid
        BY <1>2, <3>2, <3>3, LastIsNew DEF m
      <3>5. pos \in pos .. Len(log)
        BY <1>2
      <3> QED BY <1>2, <2>1, <3>1, <3>4, <3>5 DEF UpsertStation, Names, NoStation
    <2>3. CASE ~(HasStation(op) /\ ~HasRow(m, op))
      <3>1. tx'.profile = tx.profile
        BY <1>1, <1>2, <2>3 DEF WithRecord, Tx, HasStation, HasRow
      <3>2. ~HasStation(op)
        BY <2>3 DEF HasStation, HasRow
      <3>3. NoStation(m, next - 1) => NoStation(m, next)
        <4>1. \A i \in 1 .. next : i \in 1 .. next - 1 \/ i = next
          BY <1>3
        <4> QED BY <3>2, <4>1 DEF NoStation
      <3> QED BY <2>1, <3>1, <3>3
    <2> QED BY <2>2, <2>3
  <1>7. Opened'
    <2>1. next' - 1 = next
      BY <1>1, <1>3
    <2>2. fetched # None => \E t \in pos .. Len(log) : fetched = LastStation(log, m.repo, t)
      BY <1>5 DEF Opened, LeftBy
    <2> QED BY <1>1, <1>6, <2>1, <2>2 DEF Opened, LeftBy, NoStation, HasStation
  <1>8. HistoriesStay(h)'
    BY <1>1, <1>4
       DEF HistoriesStay, History, Faithful, Discarded, Complete, LeftBy, IndexedAt
  <1>9. cursor' = -1 \/ cursor' \in applied'
    BY <1>1 DEF AgreeInv
  <1> QED BY <1>7, <1>8, <1>9 DEF AgreeInv, HistoriesStay

LEMMA ApplyBackfilledAgree ==
  ASSUME TypeInv, AgreeInv, ApplyBackfilled PROVE AgreeInv'
  <1> DEFINE m == log[pos]
  <1>1. /\ phase = "applying" /\ fetched # None /\ fetched' = None
        /\ UNCHANGED <<log, held, rows, profile, cursor, phase, pos, next, applied, before>>
        /\ tx' = [tx EXCEPT !.profile = UpsertStation(@, m.repo, fetched)]
    BY DEF ApplyBackfilled, pds, db, history
  <1>2. tx \in Tx /\ tx.profile \in Names /\ m.repo \in Repos
    BY <1>1, InHand, CommitsOnLog DEF Tx
  <1>3. tx'.profile = UpsertStation(tx.profile, m.repo, fetched)
    BY <1>1, <1>2 DEF Tx
  <1>4. PICK h : History(h) /\ Faithful(h) /\ Discarded(h)
    BY DEF AgreeInv
  <1>5. Opened
    BY <1>1 DEF AgreeInv
  <1>6. \E t \in pos .. Len(log) : fetched = LastStation(log, m.repo, t)
    BY <1>1, <1>5 DEF Opened, LeftBy
  <1>7. ASSUME NEW q \in Repos
        PROVE  \/ /\ tx'.profile[q] = profile[q]
                  /\ q = m.repo => NoStation(m, next - 1)
               \/ /\ q = m.repo
                  /\ \E t \in pos .. Len(log) : tx'.profile[q] = LastStation(log, q, t)
    <2>1. \/ tx.profile[q] = profile[q] /\ (q = m.repo => NoStation(m, next - 1))
          \/ q = m.repo
      BY <1>5 DEF Opened
    <2> QED BY <1>2, <1>3, <1>6, <2>1 DEF UpsertStation, Names
  <1>8. Opened'
    BY <1>1, <1>7 DEF Opened, LeftBy, NoStation, HasStation
  <1>9. HistoriesStay(h)'
    BY <1>1, <1>4
       DEF HistoriesStay, History, Faithful, Discarded, Complete, LeftBy, IndexedAt
  <1> QED BY <1>1, <1>8, <1>9 DEF AgreeInv, HistoriesStay

\* Between the cursor and the commit in hand nothing was signed.
LEMMA NothingBetween ==
  ASSUME TypeInv, ProgressInv, AgreeInv, CommitTx, Complete(pos)'
  PROVE  /\ Complete(cursor)
         /\ pos # cursor =>
              /\ At(cursor) \in Nat /\ At(cursor) <= pos - 1
              /\ \A s \in At(cursor) + 1 .. pos - 1 : log[s].key = NoKey
  <1>1. /\ phase = "applying" /\ applied' = applied \cup {pos} /\ log' = log /\ pos' = pos
        /\ pos \in 1 .. Len(log) /\ Len(log) \in Nat /\ cursor \in Int /\ pos >= cursor
        /\ \A s \in applied : s <= cursor
        /\ applied \subseteq Nat
        /\ cursor = -1 \/ cursor \in applied
    BY InHand, SMTT(30) DEF CommitTx, pds, TypeInv, TypeOK, ProgressInv, NoCommitLost, AgreeInv
  <1>2. \A s \in 1 .. pos : log[s].key # NoKey => s \in applied \cup {pos}
    BY <1>1 DEF Complete
  <1>3. Complete(cursor)
    BY <1>1, <1>2 DEF Complete
  <1>4. ASSUME pos # cursor
        PROVE  /\ At(cursor) \in Nat /\ At(cursor) <= pos - 1
               /\ \A s \in At(cursor) + 1 .. pos - 1 : log[s].key = NoKey
    <2>1. At(cursor) \in Nat /\ pos - 1 \in Nat /\ At(cursor) <= pos - 1
      BY <1>1, <1>4 DEF At
    <2>2. ASSUME NEW s \in At(cursor) + 1 .. pos - 1 PROVE log[s].key = NoKey
      <3>1. s \in 1 .. pos /\ s # pos /\ s > cursor
        BY <1>1, <2>1 DEF At
      <3> QED BY <1>1, <1>2, <3>1
    <2> QED BY <2>1, <2>2
  <1> QED BY <1>3, <1>4

\* While nothing is signed, what the repositories hold stays, and so does the last
\* profile of each.
LEMMA Quiet ==
  ASSUME TypeInv, NEW h, History(h), NEW a \in Nat, NEW b \in 0 .. Len(log),
         \A s \in a + 1 .. b : log[s].key = NoKey
  PROVE  \A t \in a .. b :
           /\ h[t] = h[a]
           /\ \A r : LastStation(log, r, t) = LastStation(log, r, a)
  <1>1. Len(log) \in Nat /\ b \in Nat
    BY DEF TypeInv, TypeOK
  <1>2. \A s \in a + 1 .. b : h[s] = h[s - 1]
    BY <1>1 DEF History, Turns
  <1>3. \A t \in a .. b : h[t] = h[a]
    BY <1>1, <1>2, Stretch
  <1>4. ASSUME NEW r PROVE \A t \in a .. b : LastStation(log, r, t) = LastStation(log, r, a)
    <2> DEFINE g == [t \in Nat |-> LastStation(log, r, t)]
    <2>1. \A s \in a + 1 .. b : LastStation(log, r, s) = LastStation(log, r, s - 1)
      <3> SUFFICES ASSUME NEW s \in a + 1 .. b
                   PROVE  LastStation(log, r, s) = LastStation(log, r, s - 1)
        OBVIOUS
      <3>1. s \in Nat \ {0} /\ ~IsStation(log[s], r)
        BY <1>1 DEF IsStation
      <3> QED BY <3>1, LastStays
    <2>2. \A t \in Nat : g[t] = LastStation(log, r, t)
      OBVIOUS
    <2> HIDE DEF g
    <2>3. \A s \in a + 1 .. b : g[s] = g[s - 1]
      <3> SUFFICES ASSUME NEW s \in a + 1 .. b  PROVE g[s] = g[s - 1]
        OBVIOUS
      <3>1. s \in Nat /\ s - 1 \in Nat
        BY <1>1
      <3> QED BY <2>1, <2>2, <3>1
    <2>4. \A t \in a .. b : g[t] = g[a]
      BY <1>1, <2>3, Stretch
    <2>5. \A t \in a .. b : t \in Nat
      BY <1>1
    <2> QED BY <2>2, <2>4, <2>5
  <1> QED BY <1>3, <1>4

LEMMA CommitTxAgree ==
  ASSUME TypeInv, ProgressInv, SignedInv, ApplyInv, AgreeInv, CommitTx PROVE AgreeInv'
  <1> DEFINE m == log[pos]
             n == Len(m.ops)
  <1>1. /\ phase = "applying" /\ phase' = "streaming"
        /\ next = n + 1
        /\ UNCHANGED <<log, held, pos, before>> /\ rows' = tx.rows /\ profile' = tx.profile
        /\ cursor' = pos /\ applied' = applied \cup {pos}
    BY DEF CommitTx, pds
  <1>2. /\ pos \in DOMAIN log /\ pos \in 1 .. Len(log) /\ Len(log) \in Nat
        /\ cursor \in Int /\ pos >= cursor
        /\ m.repo \in Repos /\ m.key # NoKey
        /\ \A i \in DOMAIN m.ops : m.ops[i] \in Op /\ FitsPath(m.ops[i])
    <2>1. pos \in DOMAIN log /\ m.key # NoKey /\ pos >= cursor
      BY <1>1, InHand DEF SignedInv, ProgressInv
    <2>2. Len(log) \in Nat /\ DOMAIN log = 1 .. Len(log) /\ cursor \in Int
      BY DEF TypeInv, TypeOK
    <2>3. /\ m.repo \in Repos
          /\ \A i \in DOMAIN m.ops : m.ops[i] \in Op /\ FitsPath(m.ops[i])
      BY <2>1, CommitsOnLog
    <2> QED BY <2>1, <2>2, <2>3
  <1>3. n \in Nat /\ DOMAIN m.ops = 1 .. n /\ next - 1 = n
    BY <1>1, <1>2, Committed
  <1>4. PICK h : History(h) /\ Faithful(h) /\ Discarded(h)
    BY DEF AgreeInv
  <1>5. Turns(m, h[pos - 1], h[pos]) /\ Apart(h[pos - 1]) /\ Apart(h[pos])
    BY <1>2, <1>4 DEF History
  <1>6. At(pos) = pos /\ (pos = cursor => At(cursor) = pos)
    BY <1>2 DEF At
  <1>7. Opened
    BY <1>1 DEF AgreeInv
  <1> HIDE DEF m, n
  \* What the commits between the cursor and this one left is what it found.
  <1>8. ASSUME Complete(pos)', pos # cursor
        PROVE  /\ At(cursor) \in Nat /\ At(cursor) <= pos - 1
               /\ h[At(cursor)] = h[pos - 1]
               /\ \A r : \A t \in At(cursor) .. pos - 1 :
                    LastStation(log, r, t) = LastStation(log, r, pos - 1)
    <2> DEFINE a == At(cursor)
               b == pos - 1
    <2>1. a \in Nat /\ a <= b /\ \A s \in a + 1 .. b : log[s].key = NoKey
      BY <1>8, NothingBetween
    <2>2. b \in 0 .. Len(log) /\ b \in Nat
      BY <1>2
    <2> HIDE DEF a, b
    <2>3. \A t \in a .. b : /\ h[t] = h[a]
                            /\ \A r : LastStation(log, r, t) = LastStation(log, r, a)
      BY <1>4, <2>1, <2>2, Quiet
    <2>4. b \in a .. b
      BY <2>1, <2>2
    <2> QED BY <2>1, <2>3, <2>4 DEF a, b
  <1>9. ASSUME Complete(pos)' PROVE Agrees(h[pos], IndexedAt(rows'))
    <2>1. Complete(cursor)
      BY <1>9, NothingBetween
    <2>2. Agrees(h[At(cursor)], IndexedAt(rows))
      BY <1>4, <2>1 DEF Faithful
    <2>3. CASE pos = cursor
      BY <1>6, <2>2, <2>3, AppliedAgain
    <2>4. CASE pos # cursor
      <3> DEFINE x == IndexedAt(rows)
                 y == IndexedAt(rows')
      <3>1. /\ \A w \in WritesOf(m) : <<y[w[2]], w[2]>> \in WritesOf(m)
            /\ \A c \in Contents :
                 /\ y[c] \notin DeletesOf(m)
                 /\ \/ y[c] = x[c]
                    \/ y[c] = None /\ x[c] \in DeletesOf(m)
                    \/ <<y[c], c>> \in WritesOf(m)
        BY CommitReflects DEF m
      <3>2. Agrees(h[pos - 1], x)
        BY <1>8, <1>9, <2>2, <2>4
      <3> HIDE DEF x, y
      <3>3. Agrees(h[pos], y)
        BY <1>2, <1>5, <3>1, <3>2, AgreesAfter
      <3> QED BY <3>3 DEF y
    <2> QED BY <2>3, <2>4
  <1>10. ASSUME Complete(pos)', NEW q \in Repos
         PROVE  \E t \in pos .. Len(log) : profile'[q] = LastStation(log, q, t)
    <2>1. \/ profile'[q] = profile[q] /\ (q = m.repo => NoStation(m, n))
          \/ \E t \in pos .. Len(log) : profile'[q] = LastStation(log, q, t)
      BY <1>1, <1>3, <1>7 DEF Opened, LeftBy, m
    <2> SUFFICES ASSUME profile'[q] = profile[q], q = m.repo => NoStation(m, n)
                 PROVE  \E t \in pos .. Len(log) : profile'[q] = LastStation(log, q, t)
      BY <2>1
    <2>2. LastStation(log, q, pos) = LastStation(log, q, pos - 1)
      <3>1. ~IsStation(m, q)
        BY <1>3 DEF IsStation, ProfilesOf, NoStation
      <3>2. pos \in Nat \ {0}
        BY <1>2
      <3> QED BY <3>1, <3>2, LastStays DEF m
    <2>3. PICK t \in At(cursor) .. Len(log) : profile[q] = LastStation(log, q, t)
      BY <1>4, <1>10, NothingBetween DEF Faithful, LeftBy
    <2>4. CASE pos = cursor
      BY <1>6, <2>3, <2>4
    <2>5. CASE pos # cursor /\ t >= pos
      <3>1. t \in pos .. Len(log)
        BY <1>2, <1>8, <1>10, <2>3, <2>5
      <3> QED BY <2>3, <3>1
    <2>6. CASE pos # cursor /\ ~(t >= pos)
      <3>1. t \in At(cursor) .. pos - 1
        BY <1>2, <1>8, <1>10, <2>3, <2>6
      <3>2. profile[q] = LastStation(log, q, pos)
        BY <1>8, <1>10, <2>2, <2>3, <2>6, <3>1
      <3>3. pos \in pos .. Len(log)
        BY <1>2
      <3> QED BY <3>2, <3>3
    <2> QED BY <2>4, <2>5, <2>6
  <1>11. Faithful(h)'
    <2>1. Complete(cursor)' <=> Complete(pos)'
      BY <1>1 DEF Complete
    <2>2. At(cursor') = pos
      BY <1>1, <1>6
    <2> QED BY <1>1, <1>9, <1>10, <2>1, <2>2 DEF Faithful, LeftBy, IndexedAt, Agrees
  <1>12. History(h)' /\ Discarded(h)'
    BY <1>1, <1>4 DEF History, Discarded
  <1> QED BY <1>1, <1>11, <1>12 DEF AgreeInv

\* With no rotations there is one key: what is passed over was not signed.
OneKeyInv ==
  MaxRotations = 0 =>
    /\ \A r \in Repos : key[r] = 1 /\ dirKey[r] = 1
    /\ \A s \in DOMAIN log : log[s].key \in {NoKey, 1}
    /\ \A s \in skipped : s \in DOMAIN log /\ log[s].key = NoKey

LEMMA OneKeyInit == Init => OneKeyInv
  BY DEF Init, OneKeyInv

LEMMA OneKeyStep == TypeInv /\ OneKeyInv /\ [Next]_vars => OneKeyInv'
  <1> SUFFICES ASSUME TypeInv, OneKeyInv, [Next]_vars, MaxRotations = 0 PROVE OneKeyInv'
    BY DEF OneKeyInv
  <1>1. /\ \A r \in Repos : key[r] = 1 /\ dirKey[r] = 1
        /\ \A s \in DOMAIN log : log[s].key \in {NoKey, 1}
        /\ \A s \in skipped : s \in DOMAIN log /\ log[s].key = NoKey
    BY DEF OneKeyInv
  <1>2. /\ log \in Seq(Commit) /\ Len(log) \in Nat /\ DOMAIN log = 1 .. Len(log)
        /\ key \in [Repos -> Keys] /\ dirKey \in [Repos -> Keys]
        /\ rotations \in Nat
    BY DEF TypeInv, TypeOK, Commit
  <1>3. ASSUME NEW r \in Repos, Publish(r) \/ PublishUnverifiable(r) PROVE OneKeyInv'
    <2>1. PICK m : log' = Append(log, m) /\ m.key \in {NoKey, 1}
      <3>1. CASE Publish(r)
        <4>1. PICK ops \in CommitsOf(r) :
                log' = Append(log, [repo |-> r, key |-> key[r], ops |-> ops])
          BY <3>1 DEF Publish
        <4>2. [repo |-> r, key |-> key[r], ops |-> ops].key = 1
          BY <1>1
        <4> QED BY <4>1, <4>2
      <3>2. CASE PublishUnverifiable(r)
        <4>1. PICK op \in OpsOf(r) :
                log' = Append(log, [repo |-> r, key |-> NoKey, ops |-> <<op>>])
          BY <3>2 DEF PublishUnverifiable
        <4> QED BY <4>1
      <3> QED BY <1>3, <3>1, <3>2
    <2>2. UNCHANGED <<key, dirKey, skipped>>
      BY <1>3 DEF Publish, PublishUnverifiable, history
    <2>3. /\ \A s \in DOMAIN log' : (s \in DOMAIN log /\ log'[s] = log[s]) \/ log'[s] = m
          /\ \A s \in DOMAIN log : s \in DOMAIN log' /\ log'[s] = log[s]
      BY <1>2, <2>1
    <2> QED BY <1>1, <2>1, <2>2, <2>3 DEF OneKeyInv
  <1>4. ASSUME NEW r \in Repos, RotateKey(r) PROVE OneKeyInv'
    BY <1>2, <1>4 DEF RotateKey
  <1>10. CASE DropOldest
    BY <1>1, <1>10 DEF DropOldest, history, OneKeyInv
  <1>5. ASSUME NEW r \in Repos, RefreshDirectory(r) PROVE OneKeyInv'
    BY <1>1, <1>2, <1>5 DEF RefreshDirectory, history, OneKeyInv
  <1>6. ASSUME NEW reindex, Start(reindex) PROVE OneKeyInv'
    BY <1>1, <1>6 DEF Start, history, OneKeyInv
  <1>7. CASE HandleCommit
    <2>1. /\ UNCHANGED <<log, key, dirKey>> /\ pos' \in DOMAIN log
          /\ \/ skipped' = skipped
             \/ skipped' \subseteq skipped \cup {pos'} /\ log[pos'].key # dirKey[log[pos'].repo]
      BY <1>2, <1>7, NextDelivered DEF HandleCommit, pds, Verifies
    <2>2. log[pos'].repo \in Repos
      BY <2>1, CommitsOnLog
    <2> QED BY <1>1, <2>1, <2>2 DEF OneKeyInv
  <1>8. CASE Disconnect \/ Crash \/ Connect \/ BackfillProfile \/ ApplyRecord \/ ApplyFails
             \/ ApplyBackfilled \/ CommitTx
    <2>1. UNCHANGED <<log, key, dirKey>> /\ skipped' \subseteq skipped
      BY <1>8 DEF Disconnect, Crash, Connect, BackfillProfile, ApplyRecord, ApplyFails,
         ApplyBackfilled, CommitTx, pds, history
    <2> QED BY <1>1, <2>1 DEF OneKeyInv
  <1>9. CASE UNCHANGED vars
    BY <1>1, <1>9 DEF vars, pds, history, OneKeyInv
  <1> QED
    BY <1>3, <1>4, <1>5, <1>6, <1>7, <1>8, <1>9, <1>10 DEF Next, Environment, Consumer

LEMMA NothingPassedOver ==
  ASSUME TypeInv, ProgressInv, OneKeyInv, MaxRotations = 0, missed = {} \/ cursor = -1
  PROVE  Complete(cursor)
  BY DEF ProgressInv, NoCommitLost, OneKeyInv, Complete

\* Where the discarded index had missed a commit, its replacement misses one too,
\* unless it has not begun: what the server has dropped it does not replay.
MissedInv ==
  before # None /\ ~before.whole =>
    /\ forgotten > 0
    /\ \/ missed # {}
       \/ /\ cursor = -1 /\ applied = {}
          /\ phase \in {"down", "connecting", "streaming"}
          /\ phase = "streaming" => pos = 0

LEMMA MissedInit == Init => MissedInv
  BY DEF Init, MissedInv

LEMMA MissedStep == TypeInv /\ ProgressInv /\ MissedInv /\ [Next]_vars => MissedInv'
  <1> SUFFICES ASSUME TypeInv, ProgressInv, MissedInv, [Next]_vars PROVE MissedInv'
    OBVIOUS
  <1>1. forgotten \in Nat
    BY DEF TypeInv, TypeOK
  <1>2. CASE UNCHANGED vars
    BY <1>2 DEF vars, pds, db, process, history, MissedInv
  <1>3. ASSUME NEW r \in Repos,
               \/ Publish(r) \/ PublishUnverifiable(r)
               \/ RotateKey(r) \/ RefreshDirectory(r)
        PROVE  MissedInv'
    BY <1>3 DEF Publish, PublishUnverifiable, RotateKey, RefreshDirectory, db, process,
       history, MissedInv
  <1>4. CASE DropOldest
    BY <1>1, <1>4 DEF DropOldest, db, process, history, MissedInv
  <1>5. ASSUME NEW reindex, Start(reindex) PROVE MissedInv'
    <2>1. CASE ~reindex
      BY <1>5, <2>1 DEF Start, db, history, MissedInv
    <2>2. CASE reindex
      <3>1. /\ before' = [cursor |-> cursor, index |-> IndexedAt(rows),
                          whole |-> missed = {}]
            /\ cursor' = -1 /\ applied' = {} /\ phase' = "connecting"
            /\ forgotten' = forgotten
        BY <1>5, <2>2 DEF Start, Reset
      <3>2. before'.whole <=> missed = {}
        BY <3>1
      <3>3. missed # {} => forgotten > 0
        <4>1. \A s \in missed : s \in 1 .. MaxSeq /\ s <= forgotten
          BY DEF ProgressInv, NoCommitLost, TypeInv, TypeOK
        <4> QED BY <1>1, <4>1
      <3>4. ~before'.whole => forgotten' > 0
        BY <3>1, <3>2, <3>3
      <3> QED BY <3>1, <3>4 DEF MissedInv
    <2> QED BY <2>1, <2>2
  <1>6. CASE Connect
    <2>1. cursor = -1 => SubscribeFrom(cursor) = 0
      BY DEF SubscribeFrom
    <2> QED BY <1>6, <2>1 DEF Connect, pds, db, history, MissedInv
  <1>7. CASE HandleCommit
    <2>1. /\ UNCHANGED <<forgotten, cursor, applied, before>>
          /\ missed' = missed \cup ((pos + 1 .. Delivered) \ applied)
          /\ phase = "streaming"
      BY <1>7 DEF HandleCommit, pds, db
    <2>2. ASSUME forgotten > 0, applied = {}, pos = 0 PROVE 1 \in missed'
      BY <1>1, <2>1, <2>2 DEF Delivered
    <2> QED BY <2>1, <2>2 DEF MissedInv
  <1>8. CASE Disconnect \/ Crash
    BY <1>8 DEF Disconnect, Crash, Reconnect, pds, db, history, MissedInv
  <1>9. CASE BackfillProfile \/ ApplyRecord \/ ApplyFails \/ ApplyBackfilled
    BY <1>9 DEF BackfillProfile, ApplyRecord, ApplyFails, ApplyBackfilled, Reconnect, pds,
       db, history, MissedInv
  <1>10. CASE CommitTx
    BY <1>10 DEF CommitTx, pds, MissedInv
  <1> QED
    BY <1>2, <1>3, <1>4, <1>5, <1>6, <1>7, <1>8, <1>9, <1>10
    DEF Next, Environment, Consumer

\* A new index agrees with what was before the first commit; and the one it
\* replaces agreed as far as it had come.
LEMMA StartAgree ==
  ASSUME TypeInv, ProgressInv, OneKeyInv, AgreeInv, NEW reindex, Start(reindex)
  PROVE  AgreeInv'
  <1>1. /\ UNCHANGED <<log, held>> /\ phase' = "connecting"
    BY DEF Start
  <1>2. CASE ~reindex
    <2>1. UNCHANGED <<rows, profile, cursor, applied, before>>
      BY <1>2 DEF Start, db, history
    <2> QED BY <1>1, <2>1, AgreeKept
  <1>3. CASE reindex
    <2>1. /\ rows' = NoRows /\ profile' = [r \in Repos |-> None] /\ cursor' = -1
          /\ before' = [cursor |-> cursor, index |-> IndexedAt(rows),
                        whole |-> missed = {}]
      BY <1>3 DEF Start, Reset
    <2>2. PICK h : History(h) /\ Faithful(h)
      BY DEF AgreeInv
    <2>3. History(h)'
      BY <1>1, <2>2 DEF History
    <2>4. None \notin Contents /\ None \notin Uris
      BY IngestAssumption
    <2>5. Agrees(h[0], IndexedAt(NoRows))
      <3>1. h[0] = [u \in Uris |-> None]
        BY <2>2 DEF History
      <3> QED BY <2>4, <3>1 DEF Agrees, IndexedAt, NoRows
    <2>6. Faithful(h)'
      <3>1. At(cursor') = 0
        BY <2>1 DEF At
      <3>2. Agrees(h[0], IndexedAt(rows'))
        BY <2>1, <2>5
      <3>3. \A r \in Repos : \E t \in 0 .. Len(log) : None = LastStation(log, r, t)
        <4>1. 0 \in 0 .. Len(log)
          BY DEF TypeInv, TypeOK
        <4>2. \A r : LastStation(log, r, 0) = None
          BY DEF LastStation, Stations
        <4> QED BY <4>1, <4>2
      <3> QED BY <1>1, <2>1, <3>1, <3>2, <3>3 DEF Faithful, LeftBy, Agrees, IndexedAt
    <2>7. Discarded(h)'
      <3> SUFFICES ASSUME MaxRotations = 0
                   PROVE  /\ cursor <= Len(log)
                          /\ missed = {} \/ cursor = -1 =>
                               Agrees(h[At(cursor)], IndexedAt(rows))
        BY <1>1, <2>1 DEF Discarded
      <3> QED BY <2>2, NothingPassedOver DEF Faithful, TypeInv
    <2> QED BY <1>1, <2>1, <2>3, <2>6, <2>7 DEF AgreeInv
  <1> QED BY <1>2, <1>3

LEMMA AgreeStep ==
  ASSUME ~RecordUpdates, ~Duplicates
  PROVE  TypeInv /\ TypeInv' /\ ProgressInv /\ SignedInv /\ ApplyInv /\ ProfileInv
           /\ OneKeyInv /\ AgreeInv /\ [Next]_vars => AgreeInv'
  <1> SUFFICES ASSUME TypeInv, TypeInv', ProgressInv, SignedInv, ApplyInv, ProfileInv,
                      OneKeyInv, AgreeInv, [Next]_vars
               PROVE  AgreeInv'
    OBVIOUS
  <1>1. ASSUME NEW r \in Repos, RotateKey(r) \/ RefreshDirectory(r) PROVE AgreeInv'
    <2>1. UNCHANGED <<log, held, rows, profile, cursor, applied, before, phase, pos,
                      fetched, tx, next>>
      BY <1>1 DEF RotateKey, RefreshDirectory, db, process, history
    <2> QED BY <2>1, AgreeKept
  <1>2. CASE Disconnect \/ Crash \/ Connect \/ ApplyFails \/ HandleCommit
    <2>1. /\ UNCHANGED <<log, held, rows, profile, cursor, applied, before>>
          /\ phase' # "applying"
      BY <1>2 DEF Disconnect, Crash, Connect, ApplyFails, HandleCommit, Reconnect, pds, db,
         history
    <2> QED BY <2>1, AgreeKept
  <1>3. CASE UNCHANGED vars \/ DropOldest
    <2>1. UNCHANGED <<log, held, rows, profile, cursor, applied, before, phase, pos,
                      fetched, tx, next>>
      BY <1>3 DEF vars, DropOldest, pds, db, process, history
    <2> QED BY <2>1, AgreeKept
  <1> QED
    BY <1>1, <1>2, <1>3, PublishAgree, StartAgree, BackfillAgree, ApplyRecordAgree,
       ApplyBackfilledAgree, CommitTxAgree
    DEF Next, Environment, Consumer

\* Each row of an index is where the index says it is.
LEMMA WhereIndexed ==
  ASSUME TypeInv
  PROVE  \A u \in Uris, c \in Contents :
           (rows[c] # None /\ rows[c].uri = u) <=> IndexedAt(rows)[c] = u
  <1> SUFFICES ASSUME NEW u \in Uris, NEW c \in Contents
               PROVE  (rows[c] # None /\ rows[c].uri = u) <=> IndexedAt(rows)[c] = u
    OBVIOUS
  <1>1. rows \in Tables
    BY DEF TypeInv, TypeOK, Tables
  <1>2. rows[c] = None => IndexedAt(rows)[c] = None
    BY DEF IndexedAt
  <1>3. None # u
    BY IngestAssumption
  <1> QED BY <1>1, <1>2, <1>3, IndexedUri

\* Once caught up, the index and the repositories agree, with any number of
\* repositories and records, through every rotation, crash, reconnect, redelivery,
\* rebuild and loss of the server's oldest commits: each row is where its repository
\* holds it, no believable record is missing (schema.sql:3-6), and a repository is
\* shown with the last profile it published that decodes (store.go:224-226) - as
\* long as no release or attestation is updated in place, and none is at two URIs.
THEOREM CaughtUpIsRight ==
  ASSUME ~RecordUpdates, ~Duplicates
  PROVE  Spec => []CaughtUpAgrees
  <1>1. TypeInv /\ ProgressInv /\ AgreeInv => CaughtUpAgrees
    <2> SUFFICES ASSUME TypeInv, ProgressInv, AgreeInv, CaughtUp PROVE CaughtUpAgrees
      BY DEF CaughtUpAgrees
    <2>1. /\ Len(log) \in Nat /\ DOMAIN log = 1 .. Len(log)
          /\ cursor \in Int /\ cursor <= Len(log)
          /\ \A s \in applied : s <= cursor
      BY DEF TypeInv, TypeOK, ProgressInv, NoCommitLost
    <2>2. PICK h : History(h) /\ Faithful(h)
      BY DEF AgreeInv
    <2>3. Complete(cursor)
      BY <2>1 DEF Complete, CaughtUp
    <2>4. At(cursor) \in 0 .. Len(log) /\ At(cursor) >= cursor
      BY <2>1 DEF At
    <2>5. \A t \in At(cursor) .. Len(log) :
            /\ h[t] = h[At(cursor)]
            /\ \A r : LastStation(log, r, t) = LastStation(log, r, At(cursor))
      <3>1. \A s \in At(cursor) + 1 .. Len(log) : log[s].key = NoKey
        <4> SUFFICES ASSUME NEW s \in At(cursor) + 1 .. Len(log)  PROVE log[s].key = NoKey
          OBVIOUS
        <4>1. s \in 1 .. Len(log) /\ s > cursor
          BY <2>1, <2>4
        <4> QED BY <2>1, <4>1 DEF CaughtUp
      <3> DEFINE a == At(cursor)
                 b == Len(log)
      <3>2. a \in Nat /\ b \in 0 .. Len(log)
        BY <2>1, <2>4
      <3> HIDE DEF a, b
      <3>3. \A t \in a .. b : /\ h[t] = h[a]
                              /\ \A r : LastStation(log, r, t) = LastStation(log, r, a)
        BY <2>2, <3>1, <3>2, Quiet DEF a, b
      <3> QED BY <3>3 DEF a, b
    <2>6. Len(log) \in At(cursor) .. Len(log)
      BY <2>1, <2>4
    <2>7. h[At(cursor)] = held
      BY <2>2, <2>5, <2>6 DEF History
    <2>8. \A u \in Uris, c \in Contents :
            (rows[c] # None /\ rows[c].uri = u) <=> (held[u] = c /\ Believable(u[1], c))
      BY <2>2, <2>3, <2>7, WhereIndexed DEF Faithful, Agrees
    <2>9. ASSUME NEW r \in Repos PROVE profile[r] = LastStation(log, r, Len(log))
      <3>1. PICK t \in At(cursor) .. Len(log) : profile[r] = LastStation(log, r, t)
        BY <2>2, <2>3 DEF Faithful, LeftBy
      <3> QED BY <2>5, <2>6, <3>1
    <2> QED BY <2>8, <2>9 DEF CaughtUpAgrees
  <1> QED
    BY TypeInit, TypeStep, ProgressInit, ProgressStep, SignedInit, SignedStep, ApplyInit,
       ApplyStep, ProfileInit, ProfileStep, OneKeyInit, OneKeyStep, AgreeInit, AgreeStep,
       <1>1, PTL
    DEF Spec

\* "Every row is reconstructible by replaying the firehose" (schema.sql:3-4), of what
\* the server still replays (backfill.go:16-18): when a rebuilt index that missed
\* nothing reaches the position of the one it replaced, it holds the same records at
\* the same URIs, whatever was published, deleted, lost and delivered again on the
\* way, and whatever the server dropped since - as long as no repository rotates its
\* key, no release or attestation is updated in place, and none is at two URIs.
THEOREM ReindexIsExact ==
  ASSUME ~RecordUpdates, ~Duplicates, MaxRotations = 0
  PROVE  Spec => []ReindexRebuilds
  <1>1. TypeInv /\ ProgressInv /\ OneKeyInv /\ MissedInv /\ AgreeInv => ReindexRebuilds
    <2> SUFFICES ASSUME TypeInv, ProgressInv, OneKeyInv, MissedInv, AgreeInv,
                        before # None, missed = {}, cursor = before.cursor
                 PROVE  IndexedAt(rows) = before.index
      BY DEF ReindexRebuilds
    <2>1. PICK h : History(h) /\ Faithful(h) /\ Discarded(h)
      BY DEF AgreeInv
    <2>2. Agrees(h[At(cursor)], IndexedAt(rows))
      BY <2>1, NothingPassedOver DEF Faithful
    <2>3. before.whole \/ before.cursor = -1
      BY DEF MissedInv
    <2>4. Agrees(h[At(cursor)], before.index)
      BY <2>1, <2>3 DEF Discarded
    <2>5. before.index \in [Contents -> Uris \cup {None}]
      BY DEF TypeInv, TypeOK
    <2>6. IndexedAt(rows) \in [Contents -> Uris \cup {None}]
      BY DEF TypeInv, TypeOK, IndexedAt, Row
    <2>7. None \notin Uris
      BY IngestAssumption
    <2> DEFINE x == IndexedAt(rows)
               y == before.index
               T == h[At(cursor)]
    <2> HIDE DEF x, y, T
    <2>8. ASSUME NEW c \in Contents PROVE x[c] = y[c]
      BY <2>2, <2>4, <2>5, <2>6, <2>7 DEF Agrees, x, y, T
    <2> QED BY <2>5, <2>6, <2>8 DEF x, y
  <1> QED
    BY TypeInit, TypeStep, ProgressInit, ProgressStep, SignedInit, SignedStep, ApplyInit,
       ApplyStep, ProfileInit, ProfileStep, OneKeyInit, OneKeyStep, MissedInit, MissedStep,
       AgreeInit, AgreeStep, <1>1, PTL
    DEF Spec
=============================================================================
