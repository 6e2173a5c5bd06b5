----------------------------- MODULE ReadsProofs ----------------------------
(***************************************************************************)
(* What readers are told, for any number of organizations, parts, records  *)
(* and writes under way.                                                   *)
(***************************************************************************)
EXTENDS Reads, FiniteSetTheorems, WellFoundedInduction, TLAPS

----------------------------------------------------------------------------
(* The tables.                                                             *)

\* A record as an organization publishes it.
Good(rec) ==
  /\ rec.kind \in {"release", "attestation"}
  /\ rec.kind = "attestation" => \E second : rec.cid = <<rec.subject, second>>

\* The tables: no release or attestation twice, each organization known by what it
\* published, and the CID of an attestation says what it is of.
Tables(d) ==
  /\ IsFiniteSet(d.release) /\ IsFiniteSet(d.attestation)
  /\ \A r \in d.release : r.by \in d.actor
  /\ \A r1, r2 \in d.release : r1.cid = r2.cid => r1 = r2
  /\ \A a \in d.attestation : \E second : a.cid = <<a.subject, second>>

Inv ==
  /\ \E S : log \in Seq(S)
  /\ \A i \in 1 .. Len(log) : Good(log[i])
  /\ \A w \in writes :
       Good(w.rec) /\ w = [rec |-> w.rec, base |-> w.base, step |-> w.step]
  /\ seen \in 0 .. Len(log)
  /\ Tables(db)

\* A release is inserted once.
LEMMA ReleaseUpserted ==
  ASSUME NEW d, Tables(d), NEW rec, Good(rec), rec.kind = "release"
  PROVE  Tables([release |-> upsert(d.release, rec), attestation |-> d.attestation,
                 actor |-> d.actor \cup {rec.by}])
  <1> DEFINE e == [release |-> upsert(d.release, rec), attestation |-> d.attestation,
                  actor |-> d.actor \cup {rec.by}]
  <1>1. /\ e.release = upsert(d.release, rec) /\ e.attestation = d.attestation
        /\ e.actor = d.actor \cup {rec.by}
    BY DEF Tables
  <1> HIDE DEF e
  <1>2. \/ e.release = d.release
        \/ e.release = d.release \cup {rec} /\ \A r \in d.release : r.cid # rec.cid
    BY <1>1 DEF upsert
  <1>3. IsFiniteSet(e.release)
    BY <1>2, FS_AddElement DEF Tables
  <1>4. \A r \in e.release : r.by \in e.actor
    BY <1>1, <1>2 DEF Tables
  <1>5. \A r1, r2 \in e.release : r1.cid = r2.cid => r1 = r2
    BY <1>2 DEF Tables
  <1> QED BY <1>1, <1>3, <1>4, <1>5 DEF Tables, e

\* So is an attestation.
LEMMA AttestationUpserted ==
  ASSUME NEW d, Tables(d), NEW rec, Good(rec), rec.kind = "attestation"
  PROVE  Tables([release |-> d.release, attestation |-> upsert(d.attestation, rec),
                 actor |-> d.actor \cup {rec.by}])
  <1> DEFINE e == [release |-> d.release, attestation |-> upsert(d.attestation, rec),
                  actor |-> d.actor \cup {rec.by}]
  <1>1. /\ e.attestation = upsert(d.attestation, rec) /\ e.release = d.release
        /\ e.actor = d.actor \cup {rec.by}
    BY DEF Tables
  <1> HIDE DEF e
  <1>2. e.attestation = d.attestation \/ e.attestation = d.attestation \cup {rec}
    BY <1>1 DEF upsert
  <1>3. IsFiniteSet(e.attestation)
    BY <1>2, FS_AddElement DEF Tables
  <1>4. \A a \in e.attestation : \E second : a.cid = <<a.subject, second>>
    BY <1>2 DEF Tables, Good
  <1> QED BY <1>1, <1>3, <1>4 DEF Tables, e

\* What holds at start-up, before the ingest service has taken anything.
LEMMA Begins == Init => Inv
  <1> SUFFICES ASSUME Init  PROVE Inv
    OBVIOUS
  <1>1. /\ log = <<Birth, Overhaul>> /\ writes = {} /\ seen = 0
        /\ db = [release |-> {}, attestation |-> {}, actor |-> {}]
    BY DEF Init
  <1>2. Good(Birth) /\ Good(Overhaul)
    BY DEF Birth, Overhaul, Release, Good
  <1>3. Tables(db)
    BY <1>1, FS_EmptySet DEF Tables
  <1>4. /\ Len(log) = 2 /\ DOMAIN log = 1 .. 2 /\ log[1] = Birth /\ log[2] = Overhaul
    BY <1>1
  <1>5. \A i \in 1 .. Len(log) : Good(log[i])
    BY <1>2, <1>4
  <1>6. \E S : log \in Seq(S)
    <2>1. log \in Seq({Birth, Overhaul})
      BY <1>1
    <2> QED BY <2>1
  <1> QED BY <1>1, <1>3, <1>4, <1>5, <1>6 DEF Inv

\* Every step keeps it.
LEMMA Keeps == Inv /\ [Next]_vars => Inv'
  <1> SUFFICES ASSUME Inv, [Next]_vars  PROVE Inv'
    OBVIOUS
  <1>1. ASSUME NEW rec, Good(rec), Begin(rec)  PROVE Inv'
    BY <1>1 DEF Begin, Inv
  <1>2. ASSUME NEW o \in Orgs, NEW p \in Parts, NEW prev, createRelease(o, p, prev)
        PROVE  Inv'
    BY <1>1, <1>2 DEF createRelease, Release, Good
  <1>3. ASSUME NEW o \in Orgs, NEW c, NEW second, createAttestation(o, c, second)
        PROVE  Inv'
    BY <1>1, <1>3 DEF createAttestation, Attestation, Good
  <1>4. ASSUME NEW w \in writes, Commit(w)  PROVE Inv'
    <2>1. /\ log' = Append(log, w.rec) /\ UNCHANGED <<db, seen>> /\ Good(w.rec)
          /\ writes' = (writes \ {w}) \cup {[w EXCEPT !.step = "index"]}
      BY <1>4 DEF Commit, Inv
    <2>2. \A v \in writes' : Good(v.rec) /\ v = [rec |-> v.rec, base |-> v.base, step |-> v.step]
      BY <2>1 DEF Inv
    <2>3. PICK S : log \in Seq(S)
      BY DEF Inv
    <2>4. log \in Seq(S \cup {w.rec}) /\ w.rec \in S \cup {w.rec}
      BY <2>3
    <2>5. /\ log' \in Seq(S \cup {w.rec}) /\ Len(log') = Len(log) + 1 /\ Len(log) \in Nat
          /\ log'[Len(log) + 1] = w.rec /\ \A i \in 1 .. Len(log) : log'[i] = log[i]
      BY <2>1, <2>4
    <2>6. \A i \in 1 .. Len(log') : Good(log'[i])
      BY <2>1, <2>5 DEF Inv
    <2> QED BY <2>1, <2>2, <2>5, <2>6 DEF Inv
  <1>5. ASSUME NEW w \in writes, Index(w)  PROVE Inv'
    BY <1>5 DEF Index, Inv
  <1>6. CASE Ingest
    <2> DEFINE rec == log[seen + 1]
    <2>1. /\ seen < Len(log) /\ seen' = seen + 1 /\ UNCHANGED <<log, writes>>
          /\ \/ /\ rec.kind = "release"
                /\ db' = [release |-> upsert(db.release, rec), attestation |-> db.attestation,
                          actor |-> db.actor \cup {rec.by}]
             \/ /\ rec.kind = "attestation"
                /\ db' = [release |-> db.release, attestation |-> upsert(db.attestation, rec),
                          actor |-> db.actor \cup {rec.by}]
      BY <1>6 DEF Ingest, release, attestation, actor
    <2>2. Good(rec) /\ seen' \in 0 .. Len(log) /\ Tables(db)
      BY <2>1 DEF Inv
    <2> HIDE DEF rec
    <2>3. Tables(db')
      BY <2>1, <2>2, ReleaseUpserted, AttestationUpserted
    <2> QED BY <2>1, <2>2, <2>3 DEF Inv, Tables
  <1>7. CASE UNCHANGED vars
    BY <1>7 DEF vars, Inv
  <1> QED BY <1>2, <1>3, <1>4, <1>5, <1>6, <1>7 DEF Next

----------------------------------------------------------------------------
(* Counting.                                                               *)

\* The releases of an organization that someone attested to, and the checks of them.
Attested(d) == {c[2] : c \in {x \in Covers : x[2].by = d}}
Checked(d)  == {c[1].cid : c \in {x \in Covers : x[2].by = d}}

\* Those releases are some of its own; each has a check of its own; and the page of the
\* organization finds the same ones.
LEMMA AttestedIs ==
  ASSUME Tables(db), NEW d
  PROVE  /\ IsFiniteSet(IssuedBy(d)) /\ IsFiniteSet(Attested(d)) /\ IsFiniteSet(Checked(d))
         /\ Cardinality(Attested(d)) <= Cardinality(IssuedBy(d))
         /\ Cardinality(Attested(d)) <= Cardinality(Checked(d))
         /\ Attested(d) = {} <=> Checked(d) = {}
         /\ Attested(d) = {r \in IssuedBy(d) : \E a \in attestation : a.subject = r.cid}
  <1> DEFINE mine == {x \in Covers : x[2].by = d}
             cids == {a.cid : a \in attestation}
  <1>1. /\ IsFiniteSet(release) /\ IsFiniteSet(attestation)
        /\ \A r1, r2 \in release : r1.cid = r2.cid => r1 = r2
        /\ \A a \in attestation : \E second : a.cid = <<a.subject, second>>
    BY DEF Tables, release, attestation
  <1>2. \A c \in mine : /\ c = <<c[1], c[2]>> /\ c[1] \in attestation /\ c[2] \in release
                        /\ c[2].cid = c[1].subject /\ c[2].by = d
    BY DEF Covers
  <1>3. \A a \in attestation, r \in release :
          r.cid = a.subject /\ r.by = d =>
            <<a, r>> \in mine /\ <<a, r>>[1] = a /\ <<a, r>>[2] = r
    BY DEF Covers
  <1> HIDE DEF mine
  <1>4. IssuedBy(d) \in SUBSET release /\ Attested(d) \in SUBSET IssuedBy(d)
    BY <1>2 DEF IssuedBy, Attested, mine
  <1>5. Attested(d) = {r \in IssuedBy(d) : \E a \in attestation : a.subject = r.cid}
    <2>1. ASSUME NEW r \in Attested(d)
          PROVE  r \in IssuedBy(d) /\ \E a \in attestation : a.subject = r.cid
      <3>1. PICK c \in mine : r = c[2]
        BY DEF Attested, mine
      <3> QED BY <1>2, <1>4, <3>1
    <2>2. ASSUME NEW r \in IssuedBy(d), NEW a \in attestation, a.subject = r.cid
          PROVE  r \in Attested(d)
      <3>1. <<a, r>> \in mine /\ <<a, r>>[2] = r
        BY <1>3, <2>2 DEF IssuedBy
      <3> QED BY <3>1 DEF Attested, mine
    <2> QED BY <2>1, <2>2
  <1>6. IsFiniteSet(IssuedBy(d)) /\ IsFiniteSet(Attested(d))
        /\ Cardinality(Attested(d)) <= Cardinality(IssuedBy(d))
    BY <1>1, <1>4, FS_Subset
  <1>7. Checked(d) \in SUBSET cids
    BY <1>2 DEF Checked, mine
  <1>8. IsFiniteSet(cids)
    <2> DEFINE f == [a \in attestation |-> a.cid]
    <2>1. f \in Surjection(attestation, cids)
      BY DEF Surjection
    <2> HIDE DEF f, cids
    <2> QED BY <1>1, <2>1, FS_Surjection
  <1>9. IsFiniteSet(Checked(d))
    <2> HIDE DEF cids
    <2> QED BY <1>7, <1>8, FS_Subset
  <1>10. Cardinality(Attested(d)) <= Cardinality(Checked(d))
    <2> DEFINE of(k) == CHOOSE r \in release : r.cid = k[1]
               f     == [k \in Checked(d) |-> of(k)]
    <2>1. ASSUME NEW c \in mine  PROVE of(c[1].cid) = c[2]
      <3>1. PICK second : c[1].cid = <<c[1].subject, second>>
        BY <1>1, <1>2
      <3>2. c[1].cid[1] = c[2].cid
        BY <1>2, <3>1
      <3> QED BY <1>1, <1>2, <3>2
    <2>2. \A k \in Checked(d) : \E c \in mine : k = c[1].cid
      BY DEF Checked, mine
    <2>3. \A r \in Attested(d) : \E c \in mine : r = c[2]
      BY DEF Attested, mine
    <2>4. \A c \in mine : c[1].cid \in Checked(d) /\ c[2] \in Attested(d)
      BY DEF Attested, Checked, mine
    <2> HIDE DEF of
    <2>5. f \in [Checked(d) -> Attested(d)]
      BY <2>1, <2>2, <2>4
    <2>6. \A r \in Attested(d) : \E k \in Checked(d) : f[k] = r
      BY <2>1, <2>3, <2>4
    <2>7. f \in Surjection(Checked(d), Attested(d))
      BY <2>5, <2>6 DEF Surjection
    <2> HIDE DEF f
    <2> QED BY <1>9, <2>7, FS_Surjection
  <1>11. Attested(d) = {} <=> Checked(d) = {}
    BY DEF Attested, Checked, mine
  <1> QED BY <1>5, <1>6, <1>9, <1>10, <1>11

\* No screen says of an organization that more of its releases were attested to than it
\* made, all of them say the same, and those that count checks know of one exactly where
\* the web does (web/postgres.ts issuerStats, accountStats, watchdog/db.ts issuers,
\* ingest/store.go IssuerCoverage): whatever was published, and however far ingest is.
THEOREM CoverageAdds == Spec => []CoverageWithinTotal
  <1>1. Inv => CoverageWithinTotal
    <2> SUFFICES ASSUME Tables(db)  PROVE CoverageWithinTotal
      BY DEF Inv
    <2> DEFINE some     == {a \in actor : IssuedBy(a) # {}}
               stat(d)  == [did |-> d, releases |-> Cardinality(IssuedBy(d)),
                            attested |-> Cardinality(Attested(d))]
               count(d) == [did |-> d, releases |-> Cardinality(IssuedBy(d)),
                            attested |-> Cardinality(Checked(d))]
               total(d) == Cardinality({x \in Covers : x[2].by = d})
                 + Cardinality({r \in IssuedBy(d) : \A a \in attestation : a.subject # r.cid})
               cover(d) == [did |-> d, releases |-> total(d), attested |-> Cardinality(Checked(d))]
    <2>1. issuerStats = {stat(d) : d \in some}
      BY DEF issuerStats, Attested
    <2>2. issuers = {count(d) : d \in some}
      BY DEF issuers, Checked
    <2>12. IssuerCoverage = {cover(d) : d \in {r.by : r \in release}}
      BY DEF IssuerCoverage, Checked
    <2>13. {r.by : r \in release} = some
      BY DEF Tables, IssuedBy, release, actor
    <2>14. \A d : /\ stat(d).did = d /\ count(d).did = d /\ cover(d).did = d
                  /\ stat(d).releases = Cardinality(IssuedBy(d))
                  /\ stat(d).attested = Cardinality(Attested(d))
                  /\ count(d).attested = Cardinality(Checked(d))
                  /\ cover(d).attested = Cardinality(Checked(d))
      <3> HIDE DEF total
      <3> QED OBVIOUS
    <2> HIDE DEF stat, count, cover, some
    <2>3. \A s \in issuerStats : /\ s.releases = Cardinality(IssuedBy(s.did))
                                 /\ s.attested = Cardinality(Attested(s.did))
      BY <2>1, <2>14
    <2>4. \A t \in issuers : t.attested = Cardinality(Checked(t.did))
      BY <2>2, <2>14
    <2>5. \A t \in IssuerCoverage : t.attested = Cardinality(Checked(t.did))
      BY <2>12, <2>14
    <2>6. \A d : accountStats(d).attested = Cardinality(Attested(d))
                 /\ accountStats(d).releases = Cardinality(IssuedBy(d))
      BY AttestedIs DEF accountStats
    <2>7. ASSUME NEW s \in issuerStats
          PROVE  /\ s.attested <= s.releases
                 /\ accountStats(s.did).attested = s.attested
                 /\ accountStats(s.did).releases = s.releases
      BY <2>3, <2>6, AttestedIs
    <2>8. ASSUME NEW s \in issuerStats, NEW t \in issuers \cup IssuerCoverage, t.did = s.did
          PROVE  t.attested >= s.attested /\ (t.attested = 0) = (s.attested = 0)
      <3> DEFINE a == Cardinality(Attested(s.did))
                 c == Cardinality(Checked(s.did))
      <3>1. s.attested = a /\ t.attested = c
        BY <2>3, <2>4, <2>5, <2>8
      <3>2. a \in Nat /\ c \in Nat /\ a <= c /\ (a = 0 <=> c = 0)
        BY AttestedIs, FS_CardinalityType, FS_EmptySet
      <3> HIDE DEF a, c
      <3>3. t.attested >= s.attested
        BY <3>1, <3>2
      <3>4. (t.attested = 0) <=> (s.attested = 0)
        BY <3>1, <3>2
      <3>5. (t.attested = 0) \in BOOLEAN /\ (s.attested = 0) \in BOOLEAN
        OBVIOUS
      <3> QED BY <3>3, <3>4, <3>5
    <2>9. {s.did : s \in issuerStats} = some
      BY <2>1, <2>14
    <2>10. {s.did : s \in issuers} = some
      BY <2>2, <2>14
    <2>11. {s.did : s \in IssuerCoverage} = some
      <3>1. ASSUME NEW s \in IssuerCoverage  PROVE s.did \in some
        BY <2>12, <2>13, <2>14
      <3>2. ASSUME NEW d \in some  PROVE \E s \in IssuerCoverage : s.did = d
        <4>1. cover(d) \in IssuerCoverage
          BY <2>12, <2>13
        <4> QED BY <2>14, <4>1
      <3> QED BY <3>1, <3>2
    <2> QED BY <2>7, <2>8, <2>9, <2>10, <2>11 DEF CoverageWithinTotal
  <1> QED BY Begins, Keeps, <1>1, PTL DEF Spec

----------------------------------------------------------------------------
(* Histories.                                                              *)

\* A set of numbers has a least one.
LEMMA LeastNat ==
  ASSUME NEW T, T \subseteq Nat, T # {}
  PROVE  \E n \in T : \A m \in T : n <= m
  <1> DEFINE R == OpToRel(<, Nat)
  <1>1. IsWellFoundedOn(R, Nat)
    BY NatLessThanWellFounded
  <1> HIDE DEF R
  <1>2. PICK n \in T : \A m \in T : ~(<<m, n>> \in R)
    BY <1>1, WFMin
  <1>3. \A m \in T : ~(m < n)
    BY <1>2 DEF R, OpToRel
  <1> QED BY <1>3

\* The rows of a CID, and those that a set of rows follows.
Row(c)   == {r \in release : r.cid = c}
Above(S) == UNION {Row(r.prev) : r \in S}

\* The recursive query is defined: each depth from the one before.
LEMMA WalkIs ==
  ASSUME NEW cid, NEW m \in Nat \ {0}
  PROVE  /\ DOMAIN walk(cid, m) = 1 .. m
         /\ walk(cid, m)[1] = Row(cid)
         /\ \A d \in 2 .. m : walk(cid, m)[d] = Above(walk(cid, m)[d - 1])
  <1> DEFINE Is(g, n) == g = [d \in 1 .. n |-> IF d = 1 THEN Row(cid) ELSE Above(g[d - 1])]
             T == {n \in Nat \ {0} : ~ \E g : Is(g, n)}
  <1>1. ASSUME T # {}  PROVE FALSE
    <2>1. \E n \in T : \A k \in T : n <= k
      <3>1. T \subseteq Nat
        OBVIOUS
      <3> HIDE DEF T
      <3> QED BY <1>1, <3>1, LeastNat
    <2>2. PICK n \in T : \A k \in T : n <= k
      BY <2>1
    <2>3. n \in Nat \ {0} /\ ~ \E g : Is(g, n)
      OBVIOUS
    <2>4. CASE n = 1
      <3> DEFINE g == [d \in 1 .. 1 |-> Row(cid)]
      <3>1. \A d \in 1 .. 1 : g[d] = IF d = 1 THEN Row(cid) ELSE Above(g[d - 1])
        OBVIOUS
      <3>2. Is(g, 1)
        BY <3>1
      <3>3. \E h : Is(h, n)
        <4> HIDE DEF Is, g
        <4> QED BY <2>4, <3>2
      <3> HIDE DEF Is
      <3> QED BY <2>3, <3>3
    <2>5. CASE n # 1
      <3>1. n - 1 \in Nat \ {0} /\ n - 1 \notin T
        BY <2>2, <2>3, <2>5
      <3>2. PICK g : Is(g, n - 1)
        BY <3>1
      <3>3. \A d \in 1 .. n - 1 : g[d] = IF d = 1 THEN Row(cid) ELSE Above(g[d - 1])
        BY <3>2
      <3> DEFINE h == [d \in 1 .. n |-> IF d = n THEN Above(g[n - 1]) ELSE g[d]]
                 w == [d \in 1 .. n |-> IF d = 1 THEN Row(cid) ELSE Above(h[d - 1])]
      <3>4. ASSUME NEW d \in 1 .. n
            PROVE  h[d] = IF d = 1 THEN Row(cid) ELSE Above(h[d - 1])
        <4>1. CASE d = n
          <5>1. h[d] = Above(g[n - 1]) /\ h[d - 1] = g[n - 1] /\ d # 1
            BY <2>3, <2>5, <4>1
          <5> QED BY <4>1, <5>1
        <4>2. CASE d = 1
          BY <2>3, <2>5, <3>3, <4>2
        <4>3. CASE d # n /\ d # 1
          <5>1. d \in 1 .. n - 1 /\ d - 1 \in 1 .. n - 1 /\ h[d] = g[d] /\ h[d - 1] = g[d - 1]
            BY <2>3, <4>3
          <5> QED BY <3>3, <4>3, <5>1
        <4> QED BY <4>1, <4>2, <4>3
      <3>5. \A d \in 1 .. n : w[d] = IF d = 1 THEN Row(cid) ELSE Above(h[d - 1])
        OBVIOUS
      <3>6. DOMAIN h = 1 .. n /\ DOMAIN w = 1 .. n
        OBVIOUS
      <3>7. \A d \in 1 .. n : h[d] = w[d]
        <4> HIDE DEF h, w
        <4> QED BY <3>4, <3>5
      <3>8. h = w
        BY <3>7
      <3>9. Is(h, n)
        <4> HIDE DEF h
        <4> QED BY <3>8
      <3>10. \E k : Is(k, n)
        <4> HIDE DEF Is, h
        <4> QED BY <3>9
      <3> HIDE DEF Is
      <3> QED BY <2>3, <3>10
    <2> QED BY <2>4, <2>5
  <1>2. \E g : Is(g, m)
    BY <1>1
  <1>3. walk(cid, m) = CHOOSE g : Is(g, m)
    BY DEF walk, Row, Above
  <1>4. Is(walk(cid, m), m)
    <2> HIDE DEF Is
    <2> QED BY <1>2, <1>3
  <1>5. \A d \in 1 .. m : walk(cid, m)[d] = IF d = 1 THEN Row(cid) ELSE Above(walk(cid, m)[d - 1])
    BY <1>4
  <1>6. DOMAIN walk(cid, m) = 1 .. m
    BY <1>4
  <1> HIDE DEF Is
  <1>7. 1 \in 1 .. m /\ \A d \in 2 .. m : d \in 1 .. m /\ d # 1
    OBVIOUS
  <1> QED BY <1>5, <1>6, <1>7

\* Depths are reached one after the other, at one row each.
LEMMA DepthsAre ==
  ASSUME Tables(db), NEW cid, NEW m \in Nat \ {0}
  PROVE  LET w == walk(cid, m) IN
         /\ \A d \in 1 .. m : \A r1, r2 \in w[d] : r1 = r2
         /\ \A d \in 1 .. m : w[d] \subseteq release
         /\ \E k \in 0 .. m : {d \in DOMAIN w : w[d] # {}} = 1 .. k
  <1> DEFINE w == walk(cid, m)
             T == {d \in 1 .. m : ~(w[d] \subseteq release /\ \A r1, r2 \in w[d] : r1 = r2)}
             E == {d \in 1 .. m : w[d] = {}}
  <1>1. /\ DOMAIN w = 1 .. m /\ w[1] = Row(cid)
        /\ \A d \in 2 .. m : w[d] = Above(w[d - 1])
    BY WalkIs
  <1> HIDE DEF w
  <1>2. \A c : Row(c) \subseteq release /\ \A r1, r2 \in Row(c) : r1 = r2
    BY DEF Tables, Row, release
  <1>3. ASSUME T # {}  PROVE FALSE
    <2>1. \E n \in T : \A k \in T : n <= k
      <3>1. T \subseteq Nat
        OBVIOUS
      <3> HIDE DEF T
      <3> QED BY <1>3, <3>1, LeastNat
    <2>2. PICK n \in T : \A k \in T : n <= k
      BY <2>1
    <2>3. n # 1
      BY <1>1, <1>2
    <2>4. n \in 2 .. m /\ n - 1 \in 1 .. m /\ n - 1 \notin T
      BY <2>2, <2>3
    <2>5. \A r1, r2 \in w[n - 1] : r1 = r2
      BY <2>4
    <2>6. w[n] = Above(w[n - 1])
      BY <1>1, <2>4
    <2>7. w[n] \subseteq release /\ \A r1, r2 \in w[n] : r1 = r2
      BY <1>2, <2>5, <2>6 DEF Above
    <2> QED BY <2>7
  <1>4. \A d \in 2 .. m : w[d - 1] = {} => w[d] = {}
    BY <1>1 DEF Above
  <1>5. CASE E = {}
    <2>1. {d \in DOMAIN w : w[d] # {}} = 1 .. m /\ m \in 0 .. m
      BY <1>1, <1>5
    <2> QED BY <1>3, <2>1 DEF w
  <1>6. CASE E # {}
    <2>1. \E n \in E : \A k \in E : n <= k
      <3>1. E \subseteq Nat
        OBVIOUS
      <3> HIDE DEF E
      <3> QED BY <1>6, <3>1, LeastNat
    <2>2. PICK n \in E : \A k \in E : n <= k
      BY <2>1
    <2> DEFINE F == {d \in n .. m : w[d] # {}}
    <2>3. ASSUME F # {}  PROVE FALSE
      <3>1. \E l \in F : \A k \in F : l <= k
        <4>1. F \subseteq Nat
          OBVIOUS
        <4> HIDE DEF F
        <4> QED BY <2>3, <4>1, LeastNat
      <3>2. PICK l \in F : \A k \in F : l <= k
        BY <3>1
      <3>3. l # n /\ l \in n .. m
        BY <2>2, <3>2
      <3>4. l \in 2 .. m /\ l - 1 \in n .. m /\ l - 1 \notin F
        BY <2>2, <3>2, <3>3
      <3>5. w[l - 1] = {}
        BY <3>4
      <3> QED BY <1>4, <3>2, <3>4, <3>5
    <2>4. \A d \in 1 .. n - 1 : d \in 1 .. m /\ w[d] # {}
      <3>1. n \in 1 .. m
        BY <2>2
      <3>2. ASSUME NEW d \in 1 .. n - 1  PROVE d \in 1 .. m /\ w[d] # {}
        <4>1. d \in 1 .. m /\ ~(n <= d)
          BY <3>1
        <4> QED BY <2>2, <4>1
      <3> QED BY <3>2
    <2>5. \A d \in 1 .. m : w[d] # {} => d \in 1 .. n - 1
      <3>1. ASSUME NEW d \in 1 .. m, w[d] # {}  PROVE d \in 1 .. n - 1
        <4>1. d \notin n .. m
          BY <2>3, <3>1
        <4> QED BY <2>2, <4>1
      <3> QED BY <3>1
    <2>6. {d \in DOMAIN w : w[d] # {}} = 1 .. n - 1 /\ n - 1 \in 0 .. m
      BY <1>1, <2>2, <2>4, <2>5
    <2> QED BY <1>3, <2>6 DEF w
  <1> QED BY <1>5, <1>6

\* A history: it starts at the release asked for, each release in it names the next, and it
\* stops at the bound or where nothing has the CID its last one names.
LEMMA ChainIs ==
  ASSUME Tables(db), NEW r0 \in release, NEW m \in Nat \ {0}
  PROVE  LET c == chain(r0.cid, m) IN
         /\ Len(c) \in 1 .. m /\ c \in Seq(release)
         /\ c[1] = r0
         /\ \A d \in 2 .. Len(c) : c[d - 1].prev = c[d].cid
         /\ Len(c) = m \/ \A p \in release : p.cid # c[Len(c)].prev
  <1> DEFINE w == walk(r0.cid, m)
             c == chain(r0.cid, m)
  <1>1. /\ DOMAIN w = 1 .. m /\ w[1] = Row(r0.cid)
        /\ \A d \in 2 .. m : w[d] = Above(w[d - 1])
    BY WalkIs
  <1>2. /\ \A d \in 1 .. m : w[d] \subseteq release /\ \A r1, r2 \in w[d] : r1 = r2
        /\ \E k \in 0 .. m : {d \in DOMAIN w : w[d] # {}} = 1 .. k
    BY DepthsAre
  <1>3. c = RowsOf(w)
    BY DEF chain
  <1> HIDE DEF w, c
  <1>4. PICK k \in 0 .. m : {d \in DOMAIN w : w[d] # {}} = 1 .. k
    BY <1>2
  <1>5. Cardinality(1 .. k) = k
    BY <1>4, FS_Interval
  <1>6. c = [depth \in 1 .. k |-> CHOOSE r \in w[depth] : TRUE]
    BY <1>3, <1>4, <1>5 DEF RowsOf
  <1>7. \A d \in 1 .. k : d \in 1 .. m /\ w[d] # {}
    BY <1>1, <1>4
  <1>8. \A d \in 1 .. m : w[d] # {} => d \in 1 .. k
    BY <1>1, <1>4
  <1>9. \A d \in 1 .. k : c[d] \in w[d] /\ w[d] = {c[d]}
    <2>1. ASSUME NEW d \in 1 .. k  PROVE c[d] \in w[d] /\ w[d] = {c[d]}
      <3>1. c[d] = CHOOSE r \in w[d] : TRUE
        BY <1>6
      <3>2. c[d] \in w[d]
        BY <1>7, <3>1
      <3> QED BY <1>2, <1>7, <3>2
    <2> QED BY <2>1
  <1>10. r0 \in w[1] /\ 1 \in 1 .. m
    BY <1>1 DEF Row
  <1>11. 1 \in 1 .. k
    BY <1>8, <1>10
  <1>12. c[1] = r0
    BY <1>9, <1>10, <1>11
  <1>13. c \in Seq(release) /\ Len(c) = k
    <2>1. \A d \in 1 .. k : c[d] \in release
      BY <1>2, <1>7, <1>9
    <2>2. c \in [1 .. k -> release]
      BY <1>6, <2>1
    <2> QED BY <1>4, <2>2
  <1>14. ASSUME NEW d \in 2 .. k  PROVE c[d - 1].prev = c[d].cid
    <2>1. d \in 1 .. k /\ d - 1 \in 1 .. k /\ d \in 2 .. m
      BY <1>4, <1>14
    <2>2. w[d] = Above({c[d - 1]}) /\ c[d] \in w[d]
      BY <1>1, <1>9, <2>1
    <2> QED BY <2>2 DEF Above, Row
  <1>15. k = m \/ \A p \in release : p.cid # c[k].prev
    <2> SUFFICES ASSUME k # m, NEW p \in release, p.cid = c[k].prev  PROVE FALSE
      OBVIOUS
    <2>1. k + 1 \in 2 .. m /\ k + 1 \notin 1 .. k /\ (k + 1) - 1 = k /\ k \in 1 .. k
      BY <1>4, <1>11
    <2>2. w[k + 1] = Above({c[k]})
      BY <1>1, <1>9, <2>1
    <2>3. p \in w[k + 1]
      BY <2>2 DEF Above, Row
    <2>4. k + 1 \in 1 .. m
      BY <2>1
    <2> QED BY <1>8, <2>1, <2>3, <2>4
  <1>16. k \in 1 .. m
    BY <1>4, <1>11
  <1> QED BY <1>12, <1>13, <1>14, <1>15, <1>16 DEF c

\* A history on a part's page that does not reach birth either stopped at the bound, or
\* ends at a release the watchdog lists as pointing at nothing; and links one release to
\* the next (web/app.ts GET /part, watchdog/db.ts danglingLinks): whatever ingest has seen.
THEOREM HistoriesEnd == Spec => []PagesAgree
  <1>1. Inv => PagesAgree
    <2> SUFFICES ASSUME Tables(db), NEW r \in release
                 PROVE  LET page == PartPage(r) IN
                        /\ \A i \in 2 .. Len(page.chain) : page.chain[i - 1].prev = page.chain[i].cid
                        /\ \/ page.reachedBirth
                           \/ Len(page.chain) = MaxChainDepth
                           \/ Last(page.chain) \in danglingLinks
      BY DEF PagesAgree, Inv
    <2> DEFINE c == chain(r.cid, MaxChainDepth)
    <2>1. MaxChainDepth \in Nat \ {0}
      BY ReadsAssumption
    <2>2. /\ Len(c) \in 1 .. MaxChainDepth /\ c \in Seq(release)
          /\ \A d \in 2 .. Len(c) : c[d - 1].prev = c[d].cid
          /\ Len(c) = MaxChainDepth \/ \A p \in release : p.cid # c[Len(c)].prev
      BY <2>1, ChainIs
    <2>3. /\ PartPage(r).chain = c /\ PartPage(r).reachedBirth = (Last(c).prev = None)
      BY DEF PartPage
    <2> HIDE DEF c
    <2>4. Last(c) = c[Len(c)] /\ Last(c) \in release
      BY <2>2 DEF Last
    <2>5. \/ Last(c).prev = None
          \/ Len(c) = MaxChainDepth
          \/ Last(c) \in danglingLinks
      BY <2>2, <2>4 DEF danglingLinks
    <2> QED BY <2>2, <2>3, <2>5
  <1> QED BY Begins, Keeps, <1>1, PTL DEF Spec

----------------------------------------------------------------------------
(* Numbers.                                                                *)

\* How many releases there are, and a record that is one of the first n and follows an
\* earlier one, or none, or nothing anyone published.
Rel   == Published("release")
Und   == Underway("release")
Count == Cardinality(Rel) + Cardinality(Und)
Numbered(rec, n) ==
  rec.kind = "release" =>
    rec.cid \in 1 .. n /\ rec.prev \in {None, Missing} \cup 1 .. rec.cid - 1

\* An index in memory.
IsIndex(index) ==
  index = [releases |-> index.releases, attestations |-> index.attestations,
           handles |-> index.handles]

NumInv ==
  /\ IsFiniteSet(writes)
  /\ Count \in 1 .. MaxReleases
  /\ \A i \in 1 .. Len(log) : Numbered(log[i], Count)
  /\ \A w \in writes : Numbered(w.rec, Count)
  /\ IsIndex(mem)
  /\ \E S : mem.releases \in Seq(S)
  /\ \A i \in 1 .. Len(mem.releases) :
       mem.releases[i].kind = "release" /\ Numbered(mem.releases[i], Count)
  /\ \A r \in db.release : r.kind = "release" /\ Numbered(r, MaxReleases)

\* What is one of the first n is one of the first n + 1.
LEMMA StaysNumbered ==
  ASSUME NEW rec, NEW n \in Nat, NEW k \in Nat, n <= k, Numbered(rec, n)
  PROVE  Numbered(rec, k)
  BY DEF Numbered

\* What the index in memory makes of a record.
LEMMA Observed ==
  ASSUME NEW index, IsIndex(index), NEW rec
  PROVE  /\ IsIndex(Observe(index, rec))
         /\ Observe(index, rec).releases =
              IF rec.kind = "release" /\ ~Holds(index.releases, rec.cid)
              THEN Append(index.releases, rec) ELSE index.releases
         /\ Observe(index, rec).attestations =
              IF rec.kind # "release" /\ ~Holds(index.attestations, rec.cid)
              THEN Append(index.attestations, rec) ELSE index.attestations
         /\ Observe(index, rec).handles = index.handles \cup {rec.by}
  <1> DEFINE a == index.releases
             b == index.attestations
             c == index.handles
             h == c \cup {rec.by}
             s == [releases |-> a, attestations |-> b, handles |-> h]
  <1>0. index = [releases |-> a, attestations |-> b, handles |-> c]
    BY DEF IsIndex
  <1> HIDE DEF a, b, c
  <1>1. setActor(index, rec.by) = s
    <2>1. index.handles = c
      BY <1>0
    <2>2. setActor(index, rec.by) = [index EXCEPT !.handles = h]
      BY <2>1 DEF setActor
    <2> HIDE DEF h
    <2> QED BY <1>0, <2>2
  <1> HIDE DEF h
  <1>2. addRelease(s, rec) =
          IF Holds(a, rec.cid) THEN s
          ELSE [releases |-> Append(a, rec), attestations |-> b, handles |-> h]
    <2> DEFINE x == Append(a, rec)
    <2>1. addRelease(s, rec) = IF Holds(a, rec.cid) THEN s ELSE [s EXCEPT !.releases = x]
      BY DEF addRelease
    <2> HIDE DEF x
    <2>2. [s EXCEPT !.releases = x] = [releases |-> x, attestations |-> b, handles |-> h]
      OBVIOUS
    <2> QED BY <2>1, <2>2 DEF x
  <1>3. addAttestation(s, rec) =
          IF Holds(b, rec.cid) THEN s
          ELSE [releases |-> a, attestations |-> Append(b, rec), handles |-> h]
    <2> DEFINE x == Append(b, rec)
    <2>1. addAttestation(s, rec) = IF Holds(b, rec.cid) THEN s ELSE [s EXCEPT !.attestations = x]
      BY DEF addAttestation
    <2> HIDE DEF x
    <2>2. [s EXCEPT !.attestations = x] = [releases |-> a, attestations |-> x, handles |-> h]
      OBVIOUS
    <2> QED BY <2>1, <2>2 DEF x
  <1> DEFINE next == [releases |-> Append(a, rec), attestations |-> b, handles |-> h]
             more == [releases |-> a, attestations |-> Append(b, rec), handles |-> h]
  <1>4. Observe(index, rec) =
          IF rec.kind = "release" THEN IF Holds(a, rec.cid) THEN s ELSE next
          ELSE IF Holds(b, rec.cid) THEN s ELSE more
    <2> HIDE DEF s, next, more
    <2> QED BY <1>1, <1>2, <1>3 DEF Observe, next, more
  <1>5. /\ IsIndex(s) /\ IsIndex(next) /\ IsIndex(more)
        /\ s.releases = a /\ next.releases = Append(a, rec) /\ more.releases = a
        /\ s.attestations = b /\ next.attestations = b /\ more.attestations = Append(b, rec)
        /\ s.handles = h /\ next.handles = h /\ more.handles = h
    BY DEF IsIndex
  <1> HIDE DEF s, next, more
  <1>6. IsIndex(Observe(index, rec))
    BY <1>4, <1>5
  <1>7. Observe(index, rec).releases =
          IF rec.kind = "release" /\ ~Holds(a, rec.cid) THEN Append(a, rec) ELSE a
    BY <1>4, <1>5
  <1>8. Observe(index, rec).attestations =
          IF rec.kind # "release" /\ ~Holds(b, rec.cid) THEN Append(b, rec) ELSE b
    BY <1>4, <1>5
  <1>9. Observe(index, rec).handles = h
    BY <1>4, <1>5
  <1> QED BY <1>6, <1>7, <1>8, <1>9 DEF a, b, c, h

\* At start-up there are two.
LEMMA NumBegins == Init => NumInv
  <1> SUFFICES ASSUME Init  PROVE NumInv
    OBVIOUS
  <1>1. /\ log = <<Birth, Overhaul>> /\ writes = {}
        /\ db = [release |-> {}, attestation |-> {}, actor |-> {}]
        /\ mem = Observe(Observe(EmptyIndex, Birth), Overhaul)
    BY DEF Init
  <1>2. /\ Birth.kind = "release" /\ Birth.cid = 1 /\ Birth.prev = None
        /\ Overhaul.kind = "release" /\ Overhaul.cid = 2 /\ Overhaul.prev = 1
    BY DEF Birth, Overhaul, Release
  <1> DEFINE m1 == Observe(EmptyIndex, Birth)
  <1>3. /\ IsIndex(m1) /\ m1.releases = Append(<< >>, Birth)
    <2>1. IsIndex(EmptyIndex) /\ EmptyIndex.releases = << >>
      BY DEF EmptyIndex, IsIndex
    <2>2. ~Holds(<< >>, Birth.cid)
      BY DEF Holds
    <2>3. /\ IsIndex(m1)
          /\ m1.releases = IF Birth.kind = "release" /\ ~Holds(EmptyIndex.releases, Birth.cid)
                           THEN Append(EmptyIndex.releases, Birth) ELSE EmptyIndex.releases
      BY <2>1, Observed
    <2> HIDE DEF m1
    <2> QED BY <1>2, <2>1, <2>2, <2>3
  <1>4. /\ Append(<< >>, Birth) \in Seq({Birth, Overhaul})
        /\ Len(Append(<< >>, Birth)) = 1 /\ Append(<< >>, Birth)[1] = Birth
        /\ DOMAIN Append(<< >>, Birth) = 1 .. 1
    OBVIOUS
  <1> HIDE DEF m1
  <1> DEFINE rows == Append(Append(<< >>, Birth), Overhaul)
  <1>5. IsIndex(mem) /\ mem.releases = rows
    <2>1. ~Holds(Append(<< >>, Birth), Overhaul.cid)
      BY <1>2, <1>4 DEF Holds
    <2>2. mem = Observe(m1, Overhaul)
      BY <1>1 DEF m1
    <2> QED BY <1>2, <1>3, <2>1, <2>2, Observed, ZenonT(60)
  <1>7. /\ rows \in Seq({Birth, Overhaul}) /\ Len(rows) = 2
        /\ rows[1] = Birth /\ rows[2] = Overhaul
    BY <1>4
  <1> HIDE DEF rows
  <1>9. Rel = 1 .. 2 /\ Und = {}
    <2>1. DOMAIN log = 1 .. 2 /\ log[1].kind = "release" /\ log[2].kind = "release"
      BY <1>1, <1>2
    <2>2. \A i \in 1 .. 2 : log[i].kind = "release"
      BY <2>1
    <2>3. Rel = 1 .. 2
      BY <2>1, <2>2 DEF Rel, Published
    <2>4. Und = {}
      BY <1>1 DEF Und, Underway
    <2> QED BY <2>3, <2>4
  <1>10. Cardinality(1 .. 2) = 2 /\ Cardinality({}) = 0
    <2>1. Cardinality(1 .. 2) = IF 1 > 2 THEN 0 ELSE 2 - 1 + 1
      BY FS_Interval, 1 \in Int, 2 \in Int
    <2> QED BY <2>1, FS_EmptySet
  <1>11. Count = 2 /\ Count \in 1 .. MaxReleases
    BY <1>9, <1>10, ReadsAssumption DEF Count
  <1>12. Numbered(Birth, Count) /\ Numbered(Overhaul, Count)
    BY <1>2, <1>11 DEF Numbered
  <1>13. \A i \in 1 .. Len(rows) : rows[i].kind = "release" /\ Numbered(rows[i], Count)
    BY <1>2, <1>7, <1>12
  <1>14. \A i \in 1 .. Len(log) : Numbered(log[i], Count)
    <2>1. Len(log) = 2 /\ log[1] = Birth /\ log[2] = Overhaul
      BY <1>1
    <2> QED BY <1>12, <2>1
  <1> QED BY <1>1, <1>5, <1>7, <1>11, <1>13, <1>14, FS_EmptySet DEF NumInv

\* The sets that are counted are finite.
LEMMA Countable ==
  ASSUME Inv, NumInv
  PROVE  /\ IsFiniteSet(Rel) /\ IsFiniteSet(Und)
         /\ Cardinality(Rel) \in Nat
         /\ Cardinality(Und) \in Nat
         /\ DOMAIN log = 1 .. Len(log) /\ Len(log) \in Nat
  <1>1. DOMAIN log = 1 .. Len(log) /\ Len(log) \in Nat
    BY DEF Inv
  <1>2. Rel \in SUBSET (1 .. Len(log)) /\ IsFiniteSet(1 .. Len(log))
    BY <1>1, FS_Interval DEF Rel, Published
  <1>3. Und \in SUBSET writes
    BY DEF Und, Underway
  <1> QED BY <1>1, <1>2, <1>3, FS_Subset, FS_CardinalityType DEF NumInv

\* A step that leaves the count alone, or adds to it, and puts nothing new in the firehose
\* or the indexes, keeps the numbers.
LEMMA NumStays ==
  ASSUME NumInv, UNCHANGED <<log, mem, db>>, IsFiniteSet(writes'),
         Count' \in 1 .. MaxReleases, Count <= Count',
         \A w \in writes' : w \in writes \/ Numbered(w.rec, Count')
  PROVE  NumInv'
  <1>1. Count \in Nat /\ Count' \in Nat
    BY ReadsAssumption DEF NumInv
  <1>2. \A rec : Numbered(rec, Count) => Numbered(rec, Count')
    <2> HIDE DEF Count
    <2> QED BY <1>1, StaysNumbered
  <1> QED BY <1>2 DEF NumInv

\* A release takes the next number.
LEMMA NumRelease ==
  ASSUME Inv, NumInv, NEW o \in Orgs, NEW p \in Parts,
         NEW prev \in {None, Missing} \cup {r.cid : r \in Rows(mem)}, createRelease(o, p, prev)
  PROVE  NumInv'
  <1> DEFINE rec == Release(Count + 1, o, p, prev)
             w   == [rec |-> rec, base |-> repo[rec.by], step |-> "commit"]
  <1>1. /\ Count + 1 <= MaxReleases /\ writes' = writes \cup {w}
        /\ UNCHANGED <<repo, log, mem, db, seen>>
    BY DEF createRelease, Begin, Count, Rel, Und
  <1>2. Count \in Nat /\ Count \in 1 .. MaxReleases
    BY ReadsAssumption DEF NumInv
  <1>3. rec.kind = "release" /\ rec.cid = Count + 1 /\ rec.prev = prev
    BY DEF Release
  <1>4. w.rec = rec /\ w.step = "commit"
    OBVIOUS
  <1>5. \A r \in Rows(mem) : r.cid \in 1 .. Count
    <2>1. ASSUME NEW r \in Rows(mem)  PROVE r.cid \in 1 .. Count
      <3>1. PICK i \in 1 .. Len(mem.releases) : r = mem.releases[i]
        BY DEF Rows, NumInv
      <3>2. r.kind = "release" /\ Numbered(r, Count)
        BY <3>1 DEF NumInv
      <3> HIDE DEF Count
      <3> QED BY <3>2 DEF Numbered
    <2> QED BY <2>1
  <1> HIDE DEF rec, w
  <1>6. w \notin Und
    <2> SUFFICES ASSUME w \in writes  PROVE FALSE
      BY DEF Und, Underway
    <2>1. Numbered(rec, Count)
      BY <1>4 DEF NumInv
    <2> HIDE DEF Count
    <2> QED BY <1>2, <1>3, <2>1 DEF Numbered
  <1>7. Und' = Und \cup {w}
    BY <1>1, <1>3, <1>4 DEF Und, Underway
  <1>8. Rel' = Rel
    BY <1>1 DEF Rel, Published
  <1>9. Cardinality(Und \cup {w}) = Cardinality(Und) + 1
    BY <1>6, Countable, FS_AddElement
  <1>10. Count' = Count + 1
    BY <1>7, <1>8, <1>9, Countable DEF Count
  <1>11. IsFiniteSet(writes')
    BY <1>1, FS_AddElement DEF NumInv
  <1>12. Numbered(rec, Count')
    <2> HIDE DEF Count
    <2> QED BY <1>2, <1>3, <1>5, <1>10 DEF Numbered
  <1>13. Count' \in 1 .. MaxReleases /\ Count <= Count'
    <2> HIDE DEF Count
    <2> QED BY <1>1, <1>2, <1>10, ReadsAssumption
  <1> QED BY <1>1, <1>4, <1>11, <1>12, <1>13, NumStays

\* An attestation takes none.
LEMMA NumAttestation ==
  ASSUME Inv, NumInv, NEW o \in Orgs, NEW c, NEW second, createAttestation(o, c, second)
  PROVE  NumInv'
  <1> DEFINE rec == Attestation(o, c, second)
             w   == [rec |-> rec, base |-> repo[rec.by], step |-> "commit"]
  <1>1. writes' = writes \cup {w} /\ UNCHANGED <<repo, log, mem, db, seen>>
    BY DEF createAttestation, Begin
  <1>2. w.rec = rec /\ rec.kind = "attestation"
    BY DEF Attestation
  <1> HIDE DEF w, rec
  <1>3. Und' = Und /\ Rel' = Rel
    BY <1>1, <1>2 DEF Rel, Und, Underway, Published
  <1>4. Count' = Count /\ Count \in 1 .. MaxReleases
    BY <1>3 DEF Count, NumInv
  <1>5. IsFiniteSet(writes') /\ Numbered(w.rec, Count')
    BY <1>1, <1>2, FS_AddElement DEF NumInv, Numbered
  <1>6. Count <= Count' /\ Count' \in 1 .. MaxReleases
    <2> HIDE DEF Count
    <2> QED BY <1>4, ReadsAssumption
  <1> QED BY <1>1, <1>5, <1>6, NumStays

\* A commit moves its record from what is under way to what is published.
LEMMA NumCommit ==
  ASSUME Inv, NumInv, NEW w \in writes, Commit(w)
  PROVE  NumInv'
  <1> DEFINE v == [rec |-> w.rec, base |-> w.base, step |-> "index"]
  <1>1. /\ w.step = "commit" /\ log' = Append(log, w.rec) /\ UNCHANGED <<mem, db>>
        /\ writes' = (writes \ {w}) \cup {v}
    BY DEF Commit, Inv
  <1>2. v.rec = w.rec /\ v.step = "index"
    OBVIOUS
  <1> HIDE DEF v
  <1>3. PICK S : log \in Seq(S)
    BY DEF Inv
  <1>4. log \in Seq(S \cup {w.rec}) /\ w.rec \in S \cup {w.rec}
    BY <1>3
  <1>5. /\ Len(log') = Len(log) + 1 /\ Len(log) \in Nat /\ DOMAIN log' = 1 .. Len(log) + 1
        /\ log'[Len(log) + 1] = w.rec /\ \A i \in 1 .. Len(log) : log'[i] = log[i]
    BY <1>1, <1>4
  <1>6. IsFiniteSet(writes')
    BY <1>1, FS_RemoveElement, FS_AddElement DEF NumInv
  <1>7. Count' = Count
    <2>1. CASE w.rec.kind = "release"
      <3>1. Rel' = Rel \cup {Len(log) + 1}
        BY <1>5, <2>1, Countable DEF Rel, Published
      <3>2. Len(log) + 1 \notin Rel
        BY <1>5, Countable DEF Rel, Published
      <3>3. Und' = Und \ {w} /\ w \in Und
        BY <1>1, <1>2, <2>1 DEF Und, Underway
      <3>4. Cardinality(Rel \cup {Len(log) + 1})
              = Cardinality(Rel) + 1
        BY <3>2, Countable, FS_AddElement
      <3>5. Cardinality(Und \ {w}) = Cardinality(Und) - 1
        BY <3>3, Countable, FS_RemoveElement
      <3> QED BY <3>1, <3>3, <3>4, <3>5, Countable DEF Count
    <2>2. CASE w.rec.kind # "release"
      <3>1. Rel' = Rel
        BY <1>5, <2>2, Countable DEF Rel, Published
      <3>2. Und' = Und
        BY <1>1, <1>2, <2>2 DEF Und, Underway
      <3> QED BY <3>1, <3>2 DEF Count
    <2> QED BY <2>1, <2>2
  <1>8. \A i \in 1 .. Len(log') : Numbered(log'[i], Count')
    <2> HIDE DEF Count
    <2> QED BY <1>5, <1>7 DEF NumInv
  <1>9. \A u \in writes' : Numbered(u.rec, Count')
    <2> HIDE DEF Count
    <2> QED BY <1>1, <1>2, <1>7 DEF NumInv
  <1> HIDE DEF Count
  <1> QED BY <1>1, <1>6, <1>7, <1>8, <1>9 DEF NumInv

\* An index entry is of a record that has its number.
LEMMA NumIndex ==
  ASSUME Inv, NumInv, NEW w \in writes, Index(w)
  PROVE  NumInv'
  <1>1. /\ w.step = "index" /\ mem' = Observe(mem, w.rec) /\ writes' = writes \ {w}
        /\ UNCHANGED <<log, db>>
    BY DEF Index
  <1>2. Count' = Count
    BY <1>1 DEF Count, Rel, Und, Published, Underway
  <1>3. IsFiniteSet(writes')
    BY <1>1, FS_RemoveElement DEF NumInv
  <1>4. Numbered(w.rec, Count)
    BY DEF NumInv
  <1>5. PICK S : mem.releases \in Seq(S)
    BY DEF NumInv
  <1> DEFINE rows == mem.releases
  <1>6. IsIndex(mem')
    BY <1>1, Observed DEF NumInv
  <1>7. \/ mem'.releases = rows
        \/ w.rec.kind = "release" /\ mem'.releases = Append(rows, w.rec)
    BY <1>1, Observed DEF NumInv
  <1>8. CASE mem'.releases = rows
    <2> HIDE DEF Count
    <2> QED BY <1>1, <1>2, <1>3, <1>5, <1>6, <1>8 DEF NumInv
  <1>9. CASE w.rec.kind = "release" /\ mem'.releases = Append(rows, w.rec)
    <2>1. rows \in Seq(S \cup {w.rec}) /\ w.rec \in S \cup {w.rec}
      BY <1>5
    <2>2. /\ mem'.releases \in Seq(S \cup {w.rec}) /\ Len(mem'.releases) = Len(rows) + 1
          /\ Len(rows) \in Nat /\ mem'.releases[Len(rows) + 1] = w.rec
          /\ \A i \in 1 .. Len(rows) : mem'.releases[i] = rows[i]
      BY <1>9, <2>1
    <2>3. \A i \in 1 .. Len(mem'.releases) :
            mem'.releases[i].kind = "release" /\ Numbered(mem'.releases[i], Count')
      <3> HIDE DEF Count
      <3> QED BY <1>2, <1>4, <1>9, <2>2 DEF NumInv
    <2> HIDE DEF Count
    <2> QED BY <1>1, <1>2, <1>3, <1>6, <2>2, <2>3 DEF NumInv
  <1> QED BY <1>7, <1>8, <1>9

\* So is a row of the tables.
LEMMA NumIngest ==
  ASSUME Inv, NumInv, Ingest
  PROVE  NumInv'
  <1> DEFINE rec == log[seen + 1]
  <1>1. /\ seen < Len(log) /\ UNCHANGED <<log, writes, mem>>
        /\ \/ db'.release = db.release
           \/ rec.kind = "release" /\ db'.release = upsert(db.release, rec)
    BY DEF Ingest, release
  <1>2. Count' = Count /\ Count \in 1 .. MaxReleases
    BY <1>1 DEF Count, Rel, Und, Published, Underway, NumInv
  <1>3. seen + 1 \in 1 .. Len(log)
    BY <1>1, Countable DEF Inv
  <1>4. Numbered(rec, Count)
    BY <1>3 DEF NumInv
  <1>5. Numbered(rec, MaxReleases)
    <2> HIDE DEF Count, rec
    <2> QED BY <1>2, <1>4, StaysNumbered, ReadsAssumption
  <1> HIDE DEF rec
  <1>6. \A r \in db'.release : r.kind = "release" /\ Numbered(r, MaxReleases)
    BY <1>1, <1>5 DEF NumInv, upsert
  <1> HIDE DEF Count
  <1> QED BY <1>1, <1>2, <1>6 DEF NumInv

\* Every step keeps the numbers.
LEMMA NumKeeps == Inv /\ NumInv /\ [Next]_vars => NumInv'
  <1> SUFFICES ASSUME Inv, NumInv, [Next]_vars  PROVE NumInv'
    OBVIOUS
  <1>1. CASE UNCHANGED vars
    BY <1>1 DEF vars, NumInv, Count, Rel, Und, Published, Underway
  <1> QED BY <1>1, NumRelease, NumAttestation, NumCommit, NumIndex, NumIngest DEF Next

----------------------------------------------------------------------------
(* A part the watchdog has nothing to say about.                           *)

\* Along a history each release is older than all that were shown before it.
LEMMA Descends ==
  ASSUME NEW c \in Seq(release),
         \A d \in 2 .. Len(c) : c[d - 1].prev = c[d].cid,
         \A r \in release : /\ r.cid \in 1 .. MaxReleases
                            /\ r.prev \in {None, Missing} \cup 1 .. r.cid - 1,
         NEW e \in 1 .. Len(c), NEW d \in 1 .. Len(c), e < d
  PROVE  c[d].cid < c[e].cid
  <1> DEFINE T == {i \in 1 .. Len(c) : e < i /\ ~(c[i].cid < c[e].cid)}
  <1> SUFFICES ASSUME T # {}  PROVE FALSE
    OBVIOUS
  <1>1. \E i \in T : \A k \in T : i <= k
    <2>1. T \subseteq Nat
      OBVIOUS
    <2> HIDE DEF T
    <2> QED BY <2>1, LeastNat
  <1>2. PICK i \in T : \A k \in T : i <= k
    BY <1>1
  <1>3. MaxReleases \in Nat
    BY ReadsAssumption
  <1>4. i \in 2 .. Len(c) /\ i - 1 \in 1 .. Len(c) /\ i - 1 \notin T
    BY <1>2
  <1>5. c[i - 1] \in release /\ c[i] \in release /\ c[e] \in release /\ c[i - 1].prev = c[i].cid
    BY <1>4
  <1> DEFINE x == c[i].cid
             y == c[i - 1].cid
             z == c[e].cid
  <1>6. x \in 1 .. MaxReleases /\ y \in 1 .. MaxReleases /\ z \in 1 .. MaxReleases
    BY <1>5
  <1>7. x \in 1 .. y - 1
    <2>1. x # None /\ x # Missing
      BY <1>3, <1>6, SMTT(30) DEF None, Missing
    <2> QED BY <1>5, <2>1
  <1>8. i - 1 = e \/ y < z
    BY <1>2, <1>4
  <1>9. i - 1 = e => y = z
    OBVIOUS
  <1>10. ~(x < z)
    BY <1>2
  <1> HIDE DEF x, y, z
  <1> QED BY <1>6, <1>7, <1>8, <1>9, <1>10

\* Along a history of a quiet part every release is of the part.
LEMMA StaysOfPart ==
  ASSUME NEW c \in Seq(release), NEW p,
         \A d \in 2 .. Len(c) : c[d - 1].prev = c[d].cid,
         \A r, q \in release : r.part = p /\ q.cid = r.prev => q.part = p,
         c[1].part = p
  PROVE  \A d \in 1 .. Len(c) : c[d].part = p
  <1> DEFINE T == {d \in 1 .. Len(c) : c[d].part # p}
  <1> SUFFICES ASSUME T # {}  PROVE FALSE
    OBVIOUS
  <1>1. \E d \in T : \A e \in T : d <= e
    <2>1. T \subseteq Nat
      OBVIOUS
    <2> HIDE DEF T
    <2> QED BY <2>1, LeastNat
  <1>2. PICK d \in T : \A e \in T : d <= e
    BY <1>1
  <1>3. d \in 2 .. Len(c) /\ d - 1 \in 1 .. Len(c) /\ d - 1 \notin T
    BY <1>2
  <1>4. c[d - 1] \in release /\ c[d] \in release /\ c[d - 1].prev = c[d].cid /\ c[d - 1].part = p
    BY <1>3
  <1> QED BY <1>2, <1>4

\* A history in which nothing comes twice is no longer than its part has releases, and
\* shorter if it leaves one out.
LEMMA Shown ==
  ASSUME NEW S, IsFiniteSet(S), NEW n \in Nat, NEW f \in [1 .. n -> S],
         \A d, e \in 1 .. n : f[d] = f[e] => d = e,
         NEW q \in S, \A d \in 1 .. n : f[d] # q
  PROVE  Cardinality(S) > n /\ Cardinality(S) \in Nat
  <1> DEFINE R == S \ {q}
  <1>1. IsFiniteSet(R) /\ Cardinality(R) = Cardinality(S) - 1 /\ Cardinality(S) \in Nat
    BY FS_RemoveElement, FS_CardinalityType
  <1>2. f \in Injection(1 .. n, R)
    BY DEF Injection, IsInjective
  <1>3. IsFiniteSet(1 .. n) /\ Cardinality(1 .. n) = n
    BY FS_Interval
  <1> HIDE DEF R
  <1>4. Cardinality(1 .. n) <= Cardinality(R)
    BY <1>1, <1>2, <1>3, FS_Injection
  <1>5. Cardinality(R) \in Nat
    BY <1>1, FS_CardinalityType
  <1> QED BY <1>1, <1>3, <1>4, <1>5

\* The page of such a part starts from any of its releases, gets to an origin of it, or
\* is full before it has shown them all.
LEMMA Traces ==
  ASSUME Inv, NumInv, NEW p,
         releasesForPart(p) \cap danglingLinks = {},
         \A r \in releasesForPart(p), q \in release : q.cid = r.prev => q.part = p,
         NEW r0 \in releasesForPart(p)
  PROVE  LET page == PartPage(r0)
         IN  \/ page.reachedBirth /\ Last(page.chain) \in releasesForPart(p)
                /\ Last(page.chain).prev = None
             \/ /\ ~page.reachedBirth
                /\ Cardinality(releasesForPart(p)) > MaxChainDepth
                /\ Len(page.chain) = MaxChainDepth
  <1> DEFINE c == chain(r0.cid, MaxChainDepth)
             n == Len(c)
             S == releasesForPart(p)
  <1>1. MaxChainDepth \in Nat \ {0} /\ MaxReleases \in Nat
    BY ReadsAssumption
  <1>2. r0 \in release /\ r0.part = p
    BY DEF releasesForPart
  <1>3. /\ n \in 1 .. MaxChainDepth /\ c \in Seq(release) /\ c[1] = r0
        /\ \A d \in 2 .. n : c[d - 1].prev = c[d].cid
        /\ n = MaxChainDepth \/ \A q \in release : q.cid # c[n].prev
    BY <1>1, <1>2, ChainIs, ZenonT(60) DEF Inv
  <1>4. \A r \in release : /\ r.cid \in 1 .. MaxReleases
                           /\ r.prev \in {None, Missing} \cup 1 .. r.cid - 1
    BY DEF NumInv, Numbered, release
  <1>5. \A r, q \in release : r.part = p /\ q.cid = r.prev => q.part = p
    BY DEF releasesForPart
  <1>6. PartPage(r0).chain = c /\ PartPage(r0).reachedBirth = (Last(c).prev = None)
    BY DEF PartPage
  <1> HIDE DEF c
  <1>7. \A d \in 1 .. n : c[d].part = p
    BY <1>2, <1>3, <1>5, StaysOfPart
  <1>8. \A d \in 1 .. n : c[d] \in S
    <2>1. \A d \in 1 .. n : c[d] \in release
      BY <1>3
    <2> QED BY <1>7, <2>1 DEF releasesForPart
  <1>9. n \in 1 .. n /\ n \in Nat /\ c[n] \in S /\ c[n] \in release /\ Last(c) = c[n]
    BY <1>3, <1>8 DEF Last, releasesForPart
  <1>10. CASE c[n].prev = None
    BY <1>6, <1>9, <1>10
  <1>11. CASE c[n].prev # None
    <2>1. PICK q \in release : q.cid = c[n].prev
      BY <1>9, <1>11 DEF danglingLinks
    <2>2. n = MaxChainDepth /\ q \in S
      BY <1>3, <1>9, <2>1 DEF releasesForPart
    <2>3. q.cid \in 1 .. MaxReleases /\ q.cid \in 1 .. c[n].cid - 1
      <3>1. q.cid \in 1 .. MaxReleases
        BY <1>4
      <3>2. q.cid # Missing /\ q.cid # None
        BY <1>1, <3>1, SMTT(30) DEF Missing, None
      <3> QED BY <1>4, <1>9, <2>1, <3>1, <3>2
    <2>4. \A d, e \in 1 .. n : d < e => c[e].cid < c[d].cid
      BY <1>3, <1>4, Descends
    <2>5. \A d \in 1 .. n : c[d].cid \in 1 .. MaxReleases
      BY <1>4, <1>8 DEF releasesForPart
    <2>6. ASSUME NEW d \in 1 .. n  PROVE c[d] # q
      <3>1. d = n \/ c[n].cid < c[d].cid
        BY <1>9, <2>4
      <3>2. c[n].cid \in 1 .. MaxReleases /\ c[d].cid \in 1 .. MaxReleases
        BY <1>9, <2>5
      <3>3. q.cid < c[d].cid
        BY <2>3, <3>1, <3>2, <1>1
      <3> QED BY <2>3, <3>3
    <2>7. ASSUME NEW d \in 1 .. n, NEW e \in 1 .. n, c[d] = c[e]  PROVE d = e
      <3>1. ~(d < e) /\ ~(e < d)
        BY <1>1, <2>4, <2>5, <2>7
      <3> QED BY <3>1
    <2>8. IsFiniteSet(S)
      <3>1. S \in SUBSET db.release /\ IsFiniteSet(db.release)
        BY DEF releasesForPart, release, Inv, Tables
      <3> HIDE DEF S
      <3> QED BY <3>1, FS_Subset
    <2>9. c \in [1 .. n -> S]
      BY <1>3, <1>8
    <2> HIDE DEF S, n
    <2>10. Cardinality(S) > n
      BY <1>9, <2>2, <2>6, <2>7, <2>8, <2>9, Shown
    <2>11. ~PartPage(r0).reachedBirth
      BY <1>6, <1>9, <1>11
    <2> QED BY <1>6, <2>2, <2>10, <2>11 DEF S, n
  <1> QED BY <1>10, <1>11

\* A part the watchdog has nothing to say about, and whose releases follow releases of the
\* same part, has one origin, and its page gets there from each of them, if it has no more
\* releases than a page shows (watchdog/db.ts clonedSerials, danglingLinks; GET /part):
\* however many releases there are.
THEOREM OneOrigin == Spec => []QuietPartsTrace
  <1>1. Inv /\ NumInv => QuietPartsTrace
    <2> SUFFICES ASSUME Inv, NumInv, NEW p \in Parts \ clonedSerials,
                        releasesForPart(p) \cap danglingLinks = {},
                        \A r \in releasesForPart(p), q \in release : q.cid = r.prev => q.part = p,
                        NEW r1 \in releasesForPart(p), NEW r2 \in releasesForPart(p)
                 PROVE  /\ \/ PartPage(r1).reachedBirth
                           \/ /\ Cardinality(releasesForPart(p)) > MaxChainDepth
                              /\ Len(PartPage(r1).chain) = MaxChainDepth
                        /\ PartPage(r1).reachedBirth /\ PartPage(r2).reachedBirth =>
                             Last(PartPage(r1).chain) = Last(PartPage(r2).chain)
      BY DEF QuietPartsTrace
    <2> DEFINE origins == {r \in releasesForPart(p) : r.prev = None}
               l(r)    == Last(PartPage(r).chain)
    <2>0. /\ \/ PartPage(r1).reachedBirth
             \/ /\ Cardinality(releasesForPart(p)) > MaxChainDepth
                /\ Len(PartPage(r1).chain) = MaxChainDepth
          /\ PartPage(r1).reachedBirth => l(r1) \in origins
          /\ PartPage(r2).reachedBirth => l(r2) \in origins
      BY Traces
    <2> SUFFICES ASSUME PartPage(r1).reachedBirth, PartPage(r2).reachedBirth
                 PROVE  l(r1) = l(r2)
      BY <2>0
    <2>1. l(r1) \in origins /\ l(r2) \in origins
      BY <2>0
    <2>2. origins \in SUBSET db.release /\ IsFiniteSet(db.release)
      BY DEF releasesForPart, release, Inv, Tables
    <2>3. ~(Cardinality(origins) > 1)
      BY DEF clonedSerials
    <2> HIDE DEF origins, l
    <2>4. IsFiniteSet(origins)
      BY <2>2, FS_Subset
    <2>5. ASSUME l(r1) # l(r2)  PROVE FALSE
      <3>1. /\ {l(r1), l(r2)} \subseteq origins
        BY <2>1
      <3>2. Cardinality({l(r1), l(r2)}) = 2
        <4>1. IsFiniteSet({l(r1)}) /\ Cardinality({l(r1)}) = 1
          BY FS_Singleton
        <4>2. l(r2) \notin {l(r1)} /\ {l(r1), l(r2)} = {l(r1)} \cup {l(r2)}
          BY <2>5
        <4> DEFINE one == {l(r1)}
                   y   == l(r2)
        <4>3. IsFiniteSet(one) /\ Cardinality(one) = 1 /\ y \notin one /\ {l(r1), l(r2)} = one \cup {y}
          BY <4>1, <4>2
        <4> HIDE DEF one, y
        <4>4. Cardinality(one \cup {y}) = Cardinality(one) + 1
          BY <4>3, FS_AddElement
        <4> QED BY <4>3, <4>4
      <3>3. Cardinality({l(r1), l(r2)}) <= Cardinality(origins)
        <4> DEFINE two == {l(r1), l(r2)}
        <4>1. two \in SUBSET origins
          BY <3>1
        <4> HIDE DEF two
        <4>2. Cardinality(two) <= Cardinality(origins)
          BY <2>4, <4>1, FS_Subset
        <4> QED BY <4>2 DEF two
      <3>4. Cardinality(origins) \in Nat
        BY <2>4, FS_CardinalityType
      <3> QED BY <2>3, <3>2, <3>3, <3>4
    <2> QED BY <2>5 DEF l
  <1> QED BY Begins, Keeps, NumBegins, NumKeeps, <1>1, PTL DEF Spec

----------------------------------------------------------------------------
(* The index in memory and the tables.                                     *)

\* What was published, and everything an organization has begun to publish.
Logged == {log[i] : i \in 1 .. Len(log)}
Recs   == Logged \cup {w.rec : w \in writes}

\* How many attestations there are; and one made in one of the first n seconds.
Tally == Cardinality(Published("attestation")) + Cardinality(Underway("attestation"))
Timed(rec, n) ==
  rec.kind = "attestation" => \E s \in 1 .. n : rec.cid = <<rec.subject, s>>

\* A record is in the index: its organization is known, and it is one of its rows.
InMem(index, rec) ==
  /\ rec.by \in index.handles
  /\ rec.kind = "release" => rec \in Rows(index)
  /\ rec.kind = "attestation" => rec \in Checks(index)

\* It is in the tables.
InTables(d, rec) ==
  /\ rec.by \in d.actor
  /\ rec.kind = "release" => rec \in d.release
  /\ rec.kind = "attestation" => rec \in d.attestation

\* No two records have one CID, whatever state they are in.
ApartInv ==
  /\ Tally \in Nat
  /\ \A r \in Recs : r.by \in Orgs /\ Timed(r, Tally)
  /\ \A r1, r2 \in Recs : r1.kind = r2.kind /\ r1.cid = r2.cid => r1 = r2

\* The index has what was published and is not on its way to it, and the tables what
\* ingest has seen; neither has anything else.
MemInv ==
  /\ IsIndex(mem)
  /\ \E S : mem.attestations \in Seq(S)
  /\ \A w \in writes : w.step = "index" => w.rec \in Logged
  /\ \A r \in Logged : InMem(mem, r) \/ \E w \in writes : w.step = "index" /\ w.rec = r
  /\ \A r \in Rows(mem) : r \in Logged /\ r.kind = "release"
  /\ \A r \in Checks(mem) : r \in Logged /\ r.kind = "attestation"
  /\ \A o \in mem.handles : \E r \in Logged : r.by = o

DbInv ==
  /\ \A i \in 1 .. seen : InTables(db, log[i])
  /\ \A r \in db.release : r \in Logged /\ r.kind = "release"
  /\ \A r \in db.attestation : r \in Logged /\ r.kind = "attestation"
  /\ \A o \in db.actor : \E r \in Logged : r.by = o

TwinInv == ApartInv /\ MemInv /\ DbInv

\* A row appended is one row more.
LEMMA Appended ==
  ASSUME NEW U, NEW s \in Seq(U), NEW x \in U, NEW t, t = Append(s, x)
  PROVE  Range(t) = Range(s) \cup {x}
  <1>1. /\ DOMAIN t = 1 .. Len(s) + 1 /\ DOMAIN s = 1 .. Len(s) /\ Len(s) \in Nat
        /\ t[Len(s) + 1] = x /\ \A i \in 1 .. Len(s) : t[i] = s[i]
    OBVIOUS
  <1>2. \A i \in DOMAIN t : i \in DOMAIN s \/ i = Len(s) + 1
    BY <1>1
  <1>3. Len(s) + 1 \in DOMAIN t /\ DOMAIN s \subseteq DOMAIN t
    BY <1>1
  <1>4. ASSUME NEW y \in {t[i] : i \in DOMAIN t}
        PROVE  y \in {s[i] : i \in DOMAIN s} \cup {x}
    BY <1>1, <1>2
  <1>5. ASSUME NEW y \in {s[i] : i \in DOMAIN s} \cup {x}
        PROVE  y \in {t[i] : i \in DOMAIN t}
    BY <1>1, <1>3
  <1> QED BY <1>4, <1>5 DEF Range

\* What the rows of an index are once a record is observed.
LEMMA ObservedRows ==
  ASSUME NEW index, IsIndex(index), NEW S,
         index.releases \in Seq(S), index.attestations \in Seq(S),
         NEW rec, Good(rec),
         \A r \in Rows(index) : r.kind = "release",
         \A r \in Checks(index) : r.kind = "attestation",
         \A r \in Rows(index) \cup Checks(index) :
           r.kind = rec.kind /\ r.cid = rec.cid => r = rec
  PROVE  LET next == Observe(index, rec) IN
         /\ \E T : next.attestations \in Seq(T)
         /\ Rows(next) = IF rec.kind = "release" THEN Rows(index) \cup {rec} ELSE Rows(index)
         /\ Checks(next) = IF rec.kind = "attestation" THEN Checks(index) \cup {rec}
                           ELSE Checks(index)
         /\ next.handles = index.handles \cup {rec.by}
  <1> DEFINE next == Observe(index, rec)
             a == index.releases
             b == index.attestations
             U == S \cup {rec}
  <1>1. /\ next.releases =
             IF rec.kind = "release" /\ ~Holds(a, rec.cid) THEN Append(a, rec) ELSE a
        /\ next.attestations =
             IF rec.kind # "release" /\ ~Holds(b, rec.cid) THEN Append(b, rec) ELSE b
        /\ next.handles = index.handles \cup {rec.by}
    BY Observed
  <1>2. /\ Rows(index) = {a[i] : i \in DOMAIN a} /\ Checks(index) = {b[i] : i \in DOMAIN b}
        /\ Rows(next) = {next.releases[i] : i \in DOMAIN next.releases}
        /\ Checks(next) = {next.attestations[i] : i \in DOMAIN next.attestations}
    BY DEF Rows, Checks
  <1>3. /\ Holds(a, rec.cid) <=> \E r \in Rows(index) : r.cid = rec.cid
        /\ Holds(b, rec.cid) <=> \E r \in Checks(index) : r.cid = rec.cid
    BY <1>2 DEF Holds
  <1>4. a \in Seq(U) /\ b \in Seq(U) /\ rec \in U
    OBVIOUS
  <1> HIDE DEF next, a, b, U
  <1>5. /\ Append(a, rec) \in Seq(U) /\ Append(b, rec) \in Seq(U)
        /\ next.releases = Append(a, rec) => Rows(next) = Rows(index) \cup {rec}
        /\ next.attestations = Append(b, rec) => Checks(next) = Checks(index) \cup {rec}
    <2> DEFINE x == next.releases
               y == next.attestations
    <2>1. Append(a, rec) \in Seq(U) /\ Append(b, rec) \in Seq(U)
      BY <1>4
    <2> HIDE DEF x, y
    <2>2. ASSUME x = Append(a, rec)
          PROVE  Range(x) = Range(a) \cup {rec}
      BY <1>4, <2>2, Appended
    <2>3. ASSUME y = Append(b, rec)
          PROVE  Range(y) = Range(b) \cup {rec}
      BY <1>4, <2>3, Appended
    <2>4. /\ Rows(index) = Range(a) /\ Checks(index) = Range(b)
          /\ Rows(next) = Range(x) /\ Checks(next) = Range(y)
      BY <1>2 DEF x, y, Range
    <2> QED BY <2>1, <2>2, <2>3, <2>4 DEF x, y
  <1>6. \E T : next.attestations \in Seq(T)
    BY <1>1, <1>4, <1>5
  <1>7. rec.kind = "release" \/ rec.kind = "attestation"
    BY DEF Good
  <1>8. CASE rec.kind = "release"
    <2>1. Checks(next) = Checks(index)
      BY <1>1, <1>2, <1>8
    <2>2. CASE Holds(a, rec.cid)
      <3>1. rec \in Rows(index)
        BY <1>3, <1>8, <2>2
      <3>2. Rows(next) = Rows(index)
        BY <1>1, <1>2, <2>2
      <3> QED BY <1>1, <1>6, <1>8, <2>1, <3>1, <3>2 DEF next
    <2>3. CASE ~Holds(a, rec.cid)
      <3>1. Rows(next) = Rows(index) \cup {rec}
        BY <1>1, <1>5, <1>8, <2>3
      <3> QED BY <1>1, <1>6, <1>8, <2>1, <3>1 DEF next
    <2> QED BY <2>2, <2>3
  <1>9. CASE rec.kind = "attestation"
    <2>1. Rows(next) = Rows(index)
      BY <1>1, <1>2, <1>9
    <2>2. CASE Holds(b, rec.cid)
      <3>1. rec \in Checks(index)
        BY <1>3, <1>9, <2>2
      <3>2. Checks(next) = Checks(index)
        BY <1>1, <1>2, <2>2
      <3> QED BY <1>1, <1>6, <1>9, <2>1, <3>1, <3>2 DEF next
    <2>3. CASE ~Holds(b, rec.cid)
      <3>1. Checks(next) = Checks(index) \cup {rec}
        BY <1>1, <1>5, <1>9, <2>3
      <3> QED BY <1>1, <1>6, <1>9, <2>1, <3>1 DEF next
    <2> QED BY <2>2, <2>3
  <1> QED BY <1>7, <1>8, <1>9

\* A row that is told apart by its CID is in its table once it has been put there.
LEMMA UpsertIs ==
  ASSUME NEW table, NEW rec, \A r \in table : r.cid = rec.cid => r = rec
  PROVE  upsert(table, rec) = table \cup {rec}
  BY DEF upsert

\* A record begun has a CID of its own.
LEMMA ApartBegin ==
  ASSUME ApartInv, NEW rec, NEW n \in Nat, Tally <= n, rec.by \in Orgs, Timed(rec, n),
         \A r \in Recs : r.kind = rec.kind => r.cid # rec.cid,
         Recs' = Recs \cup {rec}, Tally' = n
  PROVE  ApartInv'
  <1> DEFINE k == Tally
  <1>1. k \in Nat /\ k <= n /\ \A r \in Recs : r.by \in Orgs /\ Timed(r, k)
    BY DEF ApartInv
  <1> HIDE DEF k
  <1>2. ASSUME NEW r, Timed(r, k)  PROVE Timed(r, n)
    BY <1>1, <1>2 DEF Timed
  <1>3. \A r \in Recs' : r.by \in Orgs /\ Timed(r, n)
    BY <1>1, <1>2
  <1>4. \A r1, r2 \in Recs' : r1.kind = r2.kind /\ r1.cid = r2.cid => r1 = r2
    BY DEF ApartInv
  <1> QED BY <1>3, <1>4 DEF ApartInv

\* A write begun changes neither index.
LEMMA TwinBegun ==
  ASSUME MemInv, DbInv, NEW w, w.step = "commit", writes' = writes \cup {w},
         UNCHANGED <<log, mem, db, seen>>
  PROVE  MemInv' /\ DbInv' /\ Logged' = Logged /\ Recs' = Recs \cup {w.rec}
  <1>1. Logged' = Logged
    BY DEF Logged
  <1>2. Recs' = Recs \cup {w.rec}
    BY <1>1 DEF Recs
  <1>3. \A u \in writes' : u.step = "index" => u \in writes
    OBVIOUS
  <1>4. \A u \in writes : u \in writes'
    OBVIOUS
  <1>5. \A r \in Logged : InMem(mem, r) \/ \E u \in writes' : u.step = "index" /\ u.rec = r
    BY <1>4 DEF MemInv
  <1>6. MemInv'
    BY <1>1, <1>3, <1>5 DEF MemInv
  <1>7. DbInv'
    BY <1>1 DEF DbInv
  <1> QED BY <1>1, <1>2, <1>6, <1>7

\* A release begun is the only one of its number.
LEMMA TwinRelease ==
  ASSUME Inv, NumInv, TwinInv, NEW o \in Orgs, NEW p \in Parts, NEW prev,
         createRelease(o, p, prev)
  PROVE  TwinInv'
  <1> DEFINE rec == Release(Count + 1, o, p, prev)
             w   == [rec |-> rec, base |-> repo[rec.by], step |-> "commit"]
  <1>1. writes' = writes \cup {w} /\ UNCHANGED <<repo, log, mem, db, seen>>
    BY DEF createRelease, Begin, Count, Rel, Und
  <1>2. rec.kind = "release" /\ rec.cid = Count + 1 /\ rec.by = o
    BY DEF Release
  <1>3. w.rec = rec /\ w.step = "commit"
    OBVIOUS
  <1> HIDE DEF rec, w
  <1>4. MemInv' /\ DbInv' /\ Recs' = Recs \cup {rec}
    BY <1>1, <1>3, TwinBegun DEF TwinInv
  <1>5. Tally' = Tally
    BY <1>1, <1>2, <1>3 DEF Tally, Published, Underway
  <1>6. ASSUME NEW r \in Recs, r.kind = rec.kind  PROVE r.cid # rec.cid
    <2>1. Numbered(r, Count)
      BY DEF Recs, Logged, NumInv
    <2>2. Count \in Nat
      BY Countable DEF Count
    <2> HIDE DEF Count
    <2> QED BY <1>2, <1>6, <2>1, <2>2 DEF Numbered
  <1>7. Timed(rec, Tally)
    BY <1>2 DEF Timed
  <1>8. Tally \in Nat /\ Tally <= Tally /\ ApartInv
    BY DEF TwinInv, ApartInv
  <1>9. ApartInv'
    <2> HIDE DEF Tally
    <2> QED BY <1>2, <1>4, <1>5, <1>6, <1>7, <1>8, ApartBegin
  <1> QED BY <1>4, <1>9 DEF TwinInv

\* An attestation begun is the only one of its second.
LEMMA TwinAttestation ==
  ASSUME Inv, NumInv, TwinInv, ~Collide, NEW o \in Orgs, NEW c, NEW second \in Seconds,
         createAttestation(o, c, second)
  PROVE  TwinInv'
  <1> DEFINE rec == Attestation(o, c, second)
             w   == [rec |-> rec, base |-> repo[rec.by], step |-> "commit"]
             P   == Published("attestation")
             U   == Underway("attestation")
  <1>1. writes' = writes \cup {w} /\ UNCHANGED <<repo, log, mem, db, seen>>
    BY DEF createAttestation, Begin
  <1>2. rec.kind = "attestation" /\ rec.cid = <<c, second>> /\ rec.by = o /\ rec.subject = c
    BY DEF Attestation
  <1>3. w.rec = rec /\ w.step = "commit"
    OBVIOUS
  <1>4. second = Tally + 1
    BY DEF Seconds, Tally
  <1> HIDE DEF rec, w
  <1>5. MemInv' /\ DbInv' /\ Recs' = Recs \cup {rec}
    BY <1>1, <1>3, TwinBegun DEF TwinInv
  <1>6. Tally \in Nat /\ ApartInv
    BY DEF TwinInv, ApartInv
  <1>7. ASSUME NEW r \in Recs, r.kind = rec.kind  PROVE r.cid # rec.cid
    <2>1. Timed(r, Tally)
      BY <1>6 DEF ApartInv
    <2> HIDE DEF Tally
    <2>2. PICK s \in 1 .. Tally : r.cid = <<r.subject, s>>
      BY <1>2, <1>7, <2>1 DEF Timed
    <2> QED BY <1>2, <1>4, <1>6, <2>2
  <1>8. w \notin U /\ IsFiniteSet(U) /\ IsFiniteSet(P)
    <2>1. w \notin writes
      BY <1>3, <1>7 DEF Recs
    <2>2. U \in SUBSET writes
      BY DEF Underway
    <2>3. P \in SUBSET (1 .. Len(log)) /\ IsFiniteSet(1 .. Len(log))
      BY Countable, FS_Interval DEF Published
    <2> QED BY <2>1, <2>2, <2>3, FS_Subset DEF NumInv
  <1>9. Underway("attestation")' = U \cup {w}
    BY <1>1, <1>2, <1>3 DEF Underway
  <1>10. Published("attestation")' = P
    BY <1>1 DEF Published
  <1>11. Tally' = Tally + 1
    <2>1. Tally' = Cardinality(P) + Cardinality(U \cup {w})
      BY <1>9, <1>10 DEF Tally
    <2>2. Cardinality(U \cup {w}) = Cardinality(U) + 1
      BY <1>8, FS_AddElement
    <2>3. Cardinality(U) \in Nat /\ Cardinality(P) \in Nat
      BY <1>8, FS_CardinalityType
    <2> HIDE DEF U, P
    <2> QED BY <2>1, <2>2, <2>3 DEF Tally, U, P
  <1>12. Timed(rec, Tally + 1)
    <2> HIDE DEF Tally
    <2>1. second \in 1 .. Tally + 1
      BY <1>4, <1>6
    <2> QED BY <1>2, <2>1 DEF Timed
  <1>13. ApartInv'
    <2> DEFINE n == Tally + 1
    <2>1. n \in Nat /\ Tally <= n
      BY <1>6
    <2>2. Timed(rec, n) /\ Tally' = n /\ rec.by \in Orgs
      BY <1>2, <1>11, <1>12
    <2> HIDE DEF Tally, n
    <2> QED BY <1>5, <1>6, <1>7, <2>1, <2>2, ApartBegin
  <1> QED BY <1>5, <1>13 DEF TwinInv

\* A commit publishes a record that the writer has still to put in its index.
LEMMA TwinCommit ==
  ASSUME Inv, NumInv, TwinInv, NEW w \in writes, Commit(w)
  PROVE  TwinInv'
  <1> DEFINE v == [rec |-> w.rec, base |-> w.base, step |-> "index"]
             P == Published("attestation")
             U == Underway("attestation")
  <1>1. /\ w.step = "commit" /\ log' = Append(log, w.rec) /\ UNCHANGED <<mem, db, seen>>
        /\ writes' = (writes \ {w}) \cup {v}
    BY DEF Commit, Inv
  <1>2. v.rec = w.rec /\ v.step = "index"
    OBVIOUS
  <1> HIDE DEF v
  <1>3. PICK S : log \in Seq(S)
    BY DEF Inv
  <1>4. log \in Seq(S \cup {w.rec}) /\ w.rec \in S \cup {w.rec}
    BY <1>3
  <1>5. /\ Len(log') = Len(log) + 1 /\ Len(log) \in Nat /\ DOMAIN log' = 1 .. Len(log) + 1
        /\ DOMAIN log = 1 .. Len(log)
        /\ log'[Len(log) + 1] = w.rec /\ \A i \in 1 .. Len(log) : log'[i] = log[i]
    BY <1>1, <1>4
  <1>6. Logged' = Logged \cup {w.rec}
    <2>1. ASSUME NEW r \in Logged'  PROVE r \in Logged \cup {w.rec}
      <3>1. PICK i \in 1 .. Len(log) + 1 : r = log'[i]
        BY <1>5 DEF Logged
      <3> QED BY <1>5, <3>1 DEF Logged
    <2>2. ASSUME NEW r \in Logged \cup {w.rec}  PROVE r \in Logged'
      BY <1>5, <2>2 DEF Logged
    <2> QED BY <2>1, <2>2
  <1>7. Recs' = Recs
    <2>1. {u.rec : u \in writes'} \cup {w.rec} = {u.rec : u \in writes}
      BY <1>1, <1>2
    <2> QED BY <1>6, <2>1 DEF Recs
  <1>8. /\ IsFiniteSet(P) /\ IsFiniteSet(U) /\ Cardinality(P) \in Nat /\ Cardinality(U) \in Nat
        /\ Len(log) + 1 \notin P /\ P \subseteq 1 .. Len(log)
    <2>1. U \in SUBSET writes
      BY DEF Underway
    <2>2. P \in SUBSET (1 .. Len(log)) /\ IsFiniteSet(1 .. Len(log))
      BY Countable, FS_Interval DEF Published
    <2> QED BY <1>5, <2>1, <2>2, FS_Subset, FS_CardinalityType DEF NumInv
  <1>9. Tally' = Tally
    <2>1. CASE w.rec.kind = "attestation"
      <3>1. Published("attestation")' = P \cup {Len(log) + 1}
        BY <1>5, <2>1 DEF Published
      <3>2. Underway("attestation")' = U \ {w} /\ w \in U
        BY <1>1, <1>2, <2>1 DEF Underway
      <3>3. Tally' = Cardinality(P \cup {Len(log) + 1}) + Cardinality(U \ {w})
        BY <3>1, <3>2 DEF Tally
      <3>4. /\ Cardinality(P \cup {Len(log) + 1}) = Cardinality(P) + 1
            /\ Cardinality(U \ {w}) = Cardinality(U) - 1
        BY <1>8, <3>2, FS_AddElement, FS_RemoveElement
      <3> HIDE DEF P, U
      <3> QED BY <1>8, <3>3, <3>4 DEF Tally, P, U
    <2>2. CASE w.rec.kind # "attestation"
      <3>1. Published("attestation")' = P
        BY <1>5, <2>2 DEF Published
      <3>2. Underway("attestation")' = U
        BY <1>1, <1>2, <2>2 DEF Underway
      <3> QED BY <3>1, <3>2 DEF Tally
    <2> QED BY <2>1, <2>2
  <1>10. ApartInv'
    <2> HIDE DEF Tally
    <2> QED BY <1>7, <1>9 DEF TwinInv, ApartInv
  <1>11. MemInv'
    <2>1. \A u \in writes' : u.step = "index" => u = v \/ u \in writes
      BY <1>1
    <2>2. \A u \in writes : u.step = "index" => u \in writes'
      BY <1>1
    <2>3. v \in writes'
      BY <1>1
    <2>4. ASSUME NEW r \in Logged'
          PROVE  InMem(mem, r) \/ \E u \in writes' : u.step = "index" /\ u.rec = r
      BY <1>2, <1>6, <2>2, <2>3 DEF TwinInv, MemInv
    <2>5. \A u \in writes' : u.step = "index" => u.rec \in Logged'
      BY <1>2, <1>6, <2>1 DEF TwinInv, MemInv
    <2> QED BY <1>1, <1>6, <2>4, <2>5 DEF TwinInv, MemInv
  <1>12. DbInv'
    <2>1. \A i \in 1 .. seen : log'[i] = log[i]
      BY <1>5 DEF Inv
    <2> QED BY <1>1, <1>6, <2>1 DEF TwinInv, DbInv
  <1> QED BY <1>10, <1>11, <1>12 DEF TwinInv

\* Indexing puts one more published record in the index.
LEMMA TwinIndex ==
  ASSUME Inv, NumInv, TwinInv, NEW w \in writes, Index(w)
  PROVE  TwinInv'
  <1> DEFINE rec == w.rec
  <1>1. /\ w.step = "index" /\ mem' = Observe(mem, rec) /\ writes' = writes \ {w}
        /\ UNCHANGED <<log, db, seen>>
    BY DEF Index
  <1>2. Logged' = Logged /\ Recs' \subseteq Recs
    BY <1>1 DEF Logged, Recs
  <1>3. Tally' = Tally
    BY <1>1 DEF Tally, Published, Underway
  <1>4. ApartInv'
    <2> HIDE DEF Tally
    <2> QED BY <1>2, <1>3 DEF TwinInv, ApartInv
  <1>5. DbInv'
    BY <1>1, <1>2 DEF TwinInv, DbInv
  <1>6. rec \in Logged /\ Good(rec)
    BY <1>1 DEF TwinInv, MemInv, Inv
  <1>7. /\ \E T : mem'.attestations \in Seq(T)
        /\ Rows(mem') = IF rec.kind = "release" THEN Rows(mem) \cup {rec} ELSE Rows(mem)
        /\ Checks(mem') = IF rec.kind = "attestation" THEN Checks(mem) \cup {rec} ELSE Checks(mem)
        /\ mem'.handles = mem.handles \cup {rec.by} /\ IsIndex(mem')
    <2>1. PICK S1 : mem.releases \in Seq(S1)
      BY DEF NumInv
    <2>2. PICK S2 : mem.attestations \in Seq(S2)
      BY DEF TwinInv, MemInv
    <2>3. mem.releases \in Seq(S1 \cup S2) /\ mem.attestations \in Seq(S1 \cup S2)
      BY <2>1, <2>2
    <2>4. \A r \in Rows(mem) \cup Checks(mem) : r \in Recs
      BY DEF TwinInv, MemInv, Recs
    <2>5. \A r \in Rows(mem) \cup Checks(mem) : r.kind = rec.kind /\ r.cid = rec.cid => r = rec
      BY <1>6, <2>4 DEF TwinInv, ApartInv, Recs
    <2>6. /\ \A r \in Rows(mem) : r.kind = "release"
          /\ \A r \in Checks(mem) : r.kind = "attestation"
          /\ IsIndex(mem)
      BY DEF TwinInv, MemInv
    <2> HIDE DEF rec
    <2> QED BY <1>1, <1>6, <2>3, <2>5, <2>6, ObservedRows, Observed
  <1> HIDE DEF rec
  <1>8. MemInv'
    <2>1. \A u \in writes' : u.step = "index" => u.rec \in Logged
      BY <1>1 DEF TwinInv, MemInv
    <2>2. \A r \in Rows(mem') : r \in Logged /\ r.kind = "release"
      BY <1>6, <1>7 DEF TwinInv, MemInv
    <2>3. \A r \in Checks(mem') : r \in Logged /\ r.kind = "attestation"
      BY <1>6, <1>7 DEF TwinInv, MemInv
    <2>4. \A o \in mem'.handles : \E r \in Logged : r.by = o
      BY <1>6, <1>7 DEF TwinInv, MemInv
    <2>5. InMem(mem', rec)
      BY <1>7 DEF InMem
    <2>6. \A r : InMem(mem, r) => InMem(mem', r)
      BY <1>7 DEF InMem
    <2>7. ASSUME NEW r \in Logged
          PROVE  InMem(mem', r) \/ \E u \in writes' : u.step = "index" /\ u.rec = r
      <3>1. CASE r = rec
        BY <2>5, <3>1
      <3>2. CASE r # rec
        <4>1. InMem(mem, r) \/ \E u \in writes : u.step = "index" /\ u.rec = r
          BY DEF TwinInv, MemInv
        <4> QED BY <1>1, <2>6, <3>2, <4>1 DEF rec
      <3> QED BY <3>1, <3>2
    <2> QED BY <1>2, <1>7, <2>1, <2>2, <2>3, <2>4, <2>7 DEF MemInv
  <1> QED BY <1>4, <1>5, <1>8 DEF TwinInv

\* Ingest puts the next one in the tables.
LEMMA TwinIngest ==
  ASSUME Inv, NumInv, TwinInv, Ingest
  PROVE  TwinInv'
  <1> DEFINE rec == log[seen + 1]
  <1>1. /\ seen < Len(log) /\ seen' = seen + 1 /\ UNCHANGED <<log, writes, mem>>
        /\ \/ /\ rec.kind = "release"
              /\ db' = [release |-> upsert(db.release, rec), attestation |-> db.attestation,
                        actor |-> db.actor \cup {rec.by}]
           \/ /\ rec.kind = "attestation"
              /\ db' = [release |-> db.release, attestation |-> upsert(db.attestation, rec),
                        actor |-> db.actor \cup {rec.by}]
    BY DEF Ingest, release, attestation, actor
  <1>2. Logged' = Logged /\ Recs' = Recs /\ Tally' = Tally
    BY <1>1 DEF Logged, Recs, Tally, Published, Underway
  <1>3. ApartInv' /\ MemInv'
    <2> HIDE DEF Tally
    <2> QED BY <1>1, <1>2 DEF TwinInv, ApartInv, MemInv
  <1>4. seen \in 0 .. Len(log) /\ Len(log) \in Nat
    BY Countable DEF Inv
  <1>5. rec \in Logged
    <2>1. seen + 1 \in 1 .. Len(log)
      BY <1>1, <1>4
    <2> QED BY <2>1 DEF Logged
  <1> HIDE DEF rec
  <1>6. /\ \A r \in db.release : r.kind = "release" /\ r \in Recs
        /\ \A r \in db.attestation : r.kind = "attestation" /\ r \in Recs
    BY DEF TwinInv, DbInv, Recs
  <1>7. /\ rec.kind = "release" => \A r \in db.release : r.cid = rec.cid => r = rec
        /\ rec.kind = "attestation" => \A r \in db.attestation : r.cid = rec.cid => r = rec
    BY <1>5, <1>6 DEF TwinInv, ApartInv, Recs
  <1>8. /\ db'.release = IF rec.kind = "release" THEN db.release \cup {rec} ELSE db.release
        /\ db'.attestation = IF rec.kind = "attestation" THEN db.attestation \cup {rec}
                             ELSE db.attestation
        /\ db'.actor = db.actor \cup {rec.by}
    <2> DEFINE a == db.release
               b == db.attestation
               c == db.actor \cup {rec.by}
               x == upsert(a, rec)
               y == upsert(b, rec)
    <2>1. CASE rec.kind = "release"
      <3>1. x = a \cup {rec}
        BY <1>7, <2>1, UpsertIs
      <3>2. db' = [release |-> x, attestation |-> b, actor |-> c]
        BY <1>1, <2>1
      <3> HIDE DEF a, b, c, x, y
      <3>3. db'.release = x /\ db'.attestation = b /\ db'.actor = c
        BY <3>2
      <3> QED BY <2>1, <3>1, <3>3 DEF a, b, c
    <2>2. CASE rec.kind = "attestation"
      <3>1. y = b \cup {rec}
        BY <1>7, <2>2, UpsertIs
      <3>2. db' = [release |-> a, attestation |-> y, actor |-> c]
        BY <1>1, <2>2
      <3> HIDE DEF a, b, c, x, y
      <3>3. db'.release = a /\ db'.attestation = y /\ db'.actor = c
        BY <3>2
      <3> QED BY <2>2, <3>1, <3>3 DEF a, b, c
    <2> QED BY <1>1, <2>1, <2>2
  <1>9. ASSUME NEW i \in 1 .. seen'  PROVE InTables(db', log[i])
    <2>1. CASE i = seen + 1
      BY <1>8, <2>1 DEF InTables, rec
    <2>2. CASE i # seen + 1
      <3>1. i \in 1 .. seen
        BY <1>1, <1>4, <2>2
      <3>2. InTables(db, log[i])
        BY <3>1 DEF TwinInv, DbInv
      <3> QED BY <1>8, <3>2 DEF InTables
    <2> QED BY <2>1, <2>2
  <1>10. /\ \A r \in db'.release : r \in Logged /\ r.kind = "release"
         /\ \A r \in db'.attestation : r \in Logged /\ r.kind = "attestation"
         /\ \A o \in db'.actor : \E r \in Logged : r.by = o
    BY <1>5, <1>8 DEF TwinInv, DbInv
  <1>11. DbInv'
    BY <1>1, <1>2, <1>9, <1>10 DEF DbInv
  <1> QED BY <1>3, <1>11 DEF TwinInv

\* Every step keeps it.
LEMMA TwinKeeps ==
  ASSUME ~Collide
  PROVE  Inv /\ NumInv /\ TwinInv /\ [Next]_vars => TwinInv'
  <1> SUFFICES ASSUME Inv, NumInv, TwinInv, [Next]_vars  PROVE TwinInv'
    OBVIOUS
  <1>1. CASE UNCHANGED vars
    <2>1. UNCHANGED <<log, writes, mem, db, seen>>
      BY <1>1 DEF vars
    <2>2. Logged' = Logged /\ Recs' = Recs /\ Tally' = Tally
      BY <2>1 DEF Logged, Recs, Tally, Published, Underway
    <2> HIDE DEF Tally
    <2> QED BY <2>1, <2>2 DEF TwinInv, ApartInv, MemInv, DbInv
  <1> QED BY <1>1, TwinRelease, TwinAttestation, TwinCommit, TwinIndex, TwinIngest DEF Next

\* At start-up both have, or have still to see, the two certificates.
LEMMA TwinBegins == Init => TwinInv
  <1> SUFFICES ASSUME Init  PROVE TwinInv
    OBVIOUS
  <1>1. /\ log = <<Birth, Overhaul>> /\ writes = {} /\ seen = 0
        /\ db = [release |-> {}, attestation |-> {}, actor |-> {}]
        /\ mem = Observe(Observe(EmptyIndex, Birth), Overhaul)
    BY DEF Init
  <1>2. /\ Birth.kind = "release" /\ Birth.cid = 1 /\ Birth.by = 1
        /\ Overhaul.kind = "release" /\ Overhaul.cid = 2 /\ Overhaul.by = 2
        /\ Good(Birth) /\ Good(Overhaul)
    BY DEF Birth, Overhaul, Release, Good
  <1>3. /\ Len(log) = 2 /\ DOMAIN log = 1 .. 2 /\ log[1] = Birth /\ log[2] = Overhaul
    BY <1>1
  <1>4. Logged = {Birth, Overhaul} /\ Recs = {Birth, Overhaul}
    <2>1. Logged = {Birth, Overhaul}
      BY <1>3 DEF Logged
    <2> QED BY <1>1, <2>1 DEF Recs
  <1>5. Tally = 0
    <2>1. Published("attestation") = {} /\ Underway("attestation") = {}
      BY <1>1, <1>2, <1>3 DEF Published, Underway
    <2> QED BY <2>1, FS_EmptySet DEF Tally
  <1>6. ApartInv
    <2>1. Tally \in Nat
      BY <1>5
    <2>2. \A r \in Recs : r.by \in Orgs /\ Timed(r, Tally)
      BY <1>2, <1>4, ReadsAssumption DEF Timed
    <2>3. \A r1, r2 \in Recs : r1.kind = r2.kind /\ r1.cid = r2.cid => r1 = r2
      BY <1>2, <1>4
    <2> QED BY <2>1, <2>2, <2>3 DEF ApartInv
  <1>7. DbInv
    BY <1>1 DEF DbInv
  <1> DEFINE m1 == Observe(EmptyIndex, Birth)
             S  == {Birth, Overhaul}
  <1>8. /\ IsIndex(EmptyIndex) /\ EmptyIndex.releases = << >> /\ EmptyIndex.attestations = << >>
        /\ EmptyIndex.handles = {}
    BY DEF EmptyIndex, IsIndex
  <1>9. Rows(EmptyIndex) = {} /\ Checks(EmptyIndex) = {}
    BY <1>8 DEF Rows, Checks
  <1>10. /\ IsIndex(m1) /\ Rows(m1) = {Birth} /\ Checks(m1) = {} /\ m1.handles = {1}
         /\ \E T : m1.attestations \in Seq(T)
    <2>1. EmptyIndex.releases \in Seq(S) /\ EmptyIndex.attestations \in Seq(S)
      BY <1>8
    <2>2. IsIndex(m1)
      BY <1>8, Observed
    <2>3. /\ \E T : m1.attestations \in Seq(T)
          /\ Rows(m1) = Rows(EmptyIndex) \cup {Birth} /\ Checks(m1) = Checks(EmptyIndex)
          /\ m1.handles = EmptyIndex.handles \cup {1}
      <3> HIDE DEF S
      <3> QED BY <1>2, <1>8, <1>9, <2>1, ObservedRows, ZenonT(60)
    <2> HIDE DEF m1
    <2> QED BY <1>8, <1>9, <2>2, <2>3
  <1>11. m1.releases = Append(<< >>, Birth)
    <2>1. ~Holds(<< >>, Birth.cid)
      BY DEF Holds
    <2>2. m1.releases = IF Birth.kind = "release" /\ ~Holds(EmptyIndex.releases, Birth.cid)
                        THEN Append(EmptyIndex.releases, Birth) ELSE EmptyIndex.releases
      BY <1>8, Observed
    <2> HIDE DEF m1
    <2> QED BY <1>2, <1>8, <2>1, <2>2
  <1>12. mem = Observe(m1, Overhaul)
    BY <1>1
  <1> HIDE DEF m1
  <1>13. /\ IsIndex(mem) /\ Rows(mem) = {Birth, Overhaul} /\ Checks(mem) = {}
         /\ mem.handles = {1, 2} /\ \E T : mem.attestations \in Seq(T)
    <2>1. PICK T : m1.attestations \in Seq(T)
      BY <1>10
    <2> DEFINE U == T \cup S
    <2>2. m1.releases \in Seq(U) /\ m1.attestations \in Seq(U)
      BY <1>11, <2>1
    <2>3. IsIndex(mem)
      BY <1>10, <1>12, Observed
    <2>4. \A r \in Rows(m1) \cup Checks(m1) : r.kind = Overhaul.kind /\ r.cid = Overhaul.cid => r = Overhaul
      BY <1>2, <1>10
    <2>5. (\A r \in Rows(m1) : r.kind = "release") /\ \A r \in Checks(m1) : r.kind = "attestation"
      BY <1>2, <1>10
    <2>6. /\ \E V : mem.attestations \in Seq(V)
          /\ Rows(mem) = Rows(m1) \cup {Overhaul} /\ Checks(mem) = Checks(m1)
          /\ mem.handles = m1.handles \cup {2}
      <3> HIDE DEF U
      <3> QED BY <1>2, <1>10, <1>12, <2>2, <2>4, <2>5, ObservedRows
    <2> QED BY <1>10, <2>3, <2>6
  <1>14. \A r \in Logged : InMem(mem, r)
    BY <1>2, <1>4, <1>13 DEF InMem
  <1>15. \A o \in mem.handles : \E r \in Logged : r.by = o
    BY <1>2, <1>4, <1>13
  <1>16. MemInv
    <2>1. \A r \in Rows(mem) : r \in Logged /\ r.kind = "release"
      BY <1>2, <1>4, <1>13
    <2> QED BY <1>1, <1>13, <1>14, <1>15, <2>1 DEF MemInv
  <1> QED BY <1>6, <1>7, <1>16 DEF TwinInv

\* The two have the same rows, and the tables are in order.
Settled ==
  /\ Tables(db)
  /\ Rows(mem) = release /\ Checks(mem) = attestation /\ mem.handles = actor
  /\ \A r \in release \cup attestation : r.by \in Orgs

\* That is so once nothing is under way and ingest has seen everything.
LEMMA Settles ==
  ASSUME Inv, TwinInv, writes = {}, seen = Len(log)
  PROVE  Settled
  <1>1. /\ \A r \in Logged : InMem(mem, r)
        /\ \A r \in Rows(mem) : r \in Logged /\ r.kind = "release"
        /\ \A r \in Checks(mem) : r \in Logged /\ r.kind = "attestation"
        /\ \A o \in mem.handles : \E r \in Logged : r.by = o
    BY DEF TwinInv, MemInv
  <1>2. /\ \A r \in Logged : InTables(db, r)
        /\ \A r \in db.release : r \in Logged /\ r.kind = "release"
        /\ \A r \in db.attestation : r \in Logged /\ r.kind = "attestation"
        /\ \A o \in db.actor : \E r \in Logged : r.by = o
    BY DEF TwinInv, DbInv, Logged
  <1>3. Rows(mem) = db.release /\ Checks(mem) = db.attestation
    BY <1>1, <1>2 DEF InMem, InTables
  <1>4. mem.handles = db.actor
    <2>1. \A o \in mem.handles : o \in db.actor
      BY <1>1, <1>2 DEF InTables
    <2>2. \A o \in db.actor : o \in mem.handles
      BY <1>1, <1>2 DEF InMem
    <2> QED BY <2>1, <2>2
  <1>5. \A r \in Logged : r.by \in Orgs
    BY DEF TwinInv, ApartInv, Recs
  <1> QED BY <1>2, <1>3, <1>4, <1>5 DEF Settled, Inv, release, attestation, actor

\* Two finite sets that a function pairs off have as many members.
LEMMA PairedOff ==
  ASSUME NEW S, NEW T, IsFiniteSet(S), NEW f \in [S -> T],
         \A x, y \in S : f[x] = f[y] => x = y, \A t \in T : \E x \in S : f[x] = t
  PROVE  IsFiniteSet(T) /\ Cardinality(T) = Cardinality(S)
  <1>1. f \in Bijection(S, T)
    BY DEF Bijection, Injection, Surjection, IsInjective
  <1> QED BY <1>1, FS_Bijection DEF ExistsBijection

\* What is said of an organization's own releases.
LEMMA AccountsAgree ==
  ASSUME Settled, NEW o
  PROVE  MemAccountStats(mem, o) = accountStats(o)
  <1> DEFINE mine    == {r \in Rows(mem) : r.by = o}
             covered == {a.subject : a \in Checks(mem)}
  <1>1. mine = IssuedBy(o)
    BY DEF Settled, IssuedBy
  <1>2. {r \in mine : r.cid \in covered}
          = {r \in IssuedBy(o) : \E a \in attestation : a.subject = r.cid}
    BY <1>1 DEF Settled
  <1>3. {a \in Checks(mem) : a.by = o} = {a \in attestation : a.by = o}
    BY DEF Settled
  <1>4. MemAccountStats(mem, o) =
          [releases |-> Cardinality(mine),
           attested |-> Cardinality({r \in mine : r.cid \in covered}),
           checks   |-> Cardinality({a \in Checks(mem) : a.by = o})]
    BY DEF MemAccountStats
  <1> HIDE DEF mine, covered
  <1> QED BY <1>1, <1>2, <1>3, <1>4 DEF accountStats

\* The releases someone attested to, and the CIDs attestations give as their subject.
LEMMA SubjectsAre ==
  ASSUME Settled, NEW d
  PROVE  LET subjects == {a.subject : a \in
                            {x \in Checks(mem) : \E r \in ByCid(mem, x.subject) : r.by = d}}
         IN  Cardinality(subjects) = Cardinality(Attested(d))
  <1> DEFINE subjects == {a.subject : a \in
                            {x \in Checks(mem) : \E r \in ByCid(mem, x.subject) : r.by = d}}
             f == [r \in Attested(d) |-> r.cid]
  <1>1. /\ IsFiniteSet(Attested(d))
        /\ Attested(d) = {r \in IssuedBy(d) : \E a \in attestation : a.subject = r.cid}
    BY AttestedIs DEF Settled
  <1>2. \A r \in Attested(d) : r \in release /\ r.by = d
    BY <1>1 DEF IssuedBy
  <1>3. ASSUME NEW r \in Attested(d)  PROVE r.cid \in subjects
    <2>1. PICK a \in attestation : a.subject = r.cid
      BY <1>1
    <2>2. a \in Checks(mem) /\ r \in ByCid(mem, a.subject)
      BY <1>2, <2>1 DEF Settled, ByCid
    <2> QED BY <1>2, <2>1, <2>2
  <1>4. ASSUME NEW s \in subjects  PROVE \E r \in Attested(d) : r.cid = s
    <2>1. PICK a \in Checks(mem) : a.subject = s /\ \E r \in ByCid(mem, a.subject) : r.by = d
      OBVIOUS
    <2>2. PICK r \in ByCid(mem, s) : r.by = d
      BY <2>1
    <2>3. r \in release /\ r.cid = s /\ a \in attestation
      BY <2>1, <2>2 DEF Settled, ByCid
    <2> QED BY <1>1, <2>1, <2>2, <2>3 DEF IssuedBy
  <1>5. \A r1, r2 \in Attested(d) : r1.cid = r2.cid => r1 = r2
    BY <1>2 DEF Settled, Tables, release
  <1> HIDE DEF subjects
  <1>6. f \in [Attested(d) -> subjects]
    BY <1>3
  <1>7. \A x, y \in Attested(d) : f[x] = f[y] => x = y
    BY <1>5
  <1>8. \A s \in subjects : \E x \in Attested(d) : f[x] = s
    BY <1>4
  <1> HIDE DEF f
  <1>9. Cardinality(subjects) = Cardinality(Attested(d))
    BY <1>1, <1>6, <1>7, <1>8, PairedOff
  <1> QED BY <1>9 DEF subjects

\* The table of issuers.
LEMMA IssuersAgree ==
  ASSUME Settled
  PROVE  MemIssuerStats(mem) = issuerStats
  <1> DEFINE subjects(d) == {a.subject : a \in
                            {x \in Checks(mem) : \E r \in ByCid(mem, x.subject) : r.by = d}}
             all  == {r.by : r \in Rows(mem)}
             some == {a \in actor : IssuedBy(a) # {}}
             m(d) == [did |-> d, releases |-> Cardinality({r \in Rows(mem) : r.by = d}),
                      attested |-> Cardinality(subjects(d))]
             t(d) == [did |-> d, releases |-> Cardinality(IssuedBy(d)),
                      attested |-> Cardinality(Attested(d))]
  <1>1. MemIssuerStats(mem) = {m(d) : d \in all}
    BY DEF MemIssuerStats
  <1>2. issuerStats = {t(d) : d \in some}
    BY DEF issuerStats, Attested
  <1>3. all = some
    BY DEF Settled, Tables, IssuedBy, release, actor
  <1>4. ASSUME NEW d  PROVE m(d) = t(d)
    <2>1. Cardinality(subjects(d)) = Cardinality(Attested(d))
      BY SubjectsAre
    <2>2. {r \in Rows(mem) : r.by = d} = IssuedBy(d)
      BY DEF Settled, IssuedBy
    <2> HIDE DEF subjects
    <2> QED BY <2>1, <2>2
  <1> HIDE DEF m, t, all, some
  <1> QED BY <1>1, <1>2, <1>3, <1>4

\* What links an organization to another, by the kind of link; and what the index in
\* memory tallies.
Links(kind, did, other) ==
  CASE kind = "vouchedFor" -> {c \in Covers : c[2].by = did /\ c[1].by = other}
    [] kind = "vouchedBy"  -> {c \in Covers : c[1].by = did /\ c[2].by = other}
    [] kind = "earlier" -> {l \in IssuedBy(did) \X IssuedBy(other) : l[2].cid = l[1].prev}
    [] kind = "later"   -> {l \in IssuedBy(did) \X IssuedBy(other) : l[2].prev = l[1].cid}

Kinds == {"vouchedFor", "vouchedBy", "earlier", "later"}

Tallied(did) ==
  LET mine == {r \in Rows(mem) : r.by = did}
      vouched ==
        {<<"vouchedFor", a.by, a>> : a \in
           {x \in Checks(mem) : \E r \in mine : r.cid = x.subject}}
        \cup UNION {{<<"vouchedBy", r.by, a>> : r \in ByCid(mem, a.subject)} :
           a \in {x \in Checks(mem) : x.by = did}}
      linked ==
        (UNION {{<<"earlier", p.by, r>> : p \in ByCid(mem, r.prev)} : r \in mine})
        \cup {<<"later", r.by, r>> : r \in
           {x \in Rows(mem) : \E m \in mine : m.cid = x.prev}}
  IN  Adds(vouched \cup linked, did)

\* An entry, of each kind.
Entry(did, t) ==
  \/ \E a \in attestation, r \in release :
       r.by = did /\ r.cid = a.subject /\ t = <<"vouchedFor", a.by, a>>
  \/ \E a \in attestation, r \in release :
       a.by = did /\ r.cid = a.subject /\ t = <<"vouchedBy", r.by, a>>
  \/ \E r \in release, p \in release :
       r.by = did /\ p.cid = r.prev /\ t = <<"earlier", p.by, r>>
  \/ \E r \in release, p \in release :
       p.by = did /\ p.cid = r.prev /\ t = <<"later", r.by, r>>

LEMMA TalliedIs ==
  ASSUME Settled, NEW did
  PROVE  \A t : t \in Tallied(did) <=> Entry(did, t) /\ t[2] # did
  <1> DEFINE mine == {r \in Rows(mem) : r.by = did}
             one  == {<<"vouchedFor", a.by, a>> : a \in
                        {x \in Checks(mem) : \E r \in mine : r.cid = x.subject}}
             two  == UNION {{<<"vouchedBy", r.by, a>> : r \in ByCid(mem, a.subject)} :
                        a \in {x \in Checks(mem) : x.by = did}}
             three == UNION {{<<"earlier", p.by, r>> : p \in ByCid(mem, r.prev)} : r \in mine}
             four  == {<<"later", r.by, r>> : r \in
                        {x \in Rows(mem) : \E m \in mine : m.cid = x.prev}}
  <1>1. Tallied(did) = {t \in (one \cup two) \cup (three \cup four) : t[2] # did}
    <2>1. Tallied(did) = Adds((one \cup two) \cup (three \cup four), did)
      BY DEF Tallied
    <2> HIDE DEF one, two, three, four
    <2> QED BY <2>1 DEF Adds
  <1>2. \A t : t \in one <=> \E a \in attestation, r \in release :
                  r.by = did /\ r.cid = a.subject /\ t = <<"vouchedFor", a.by, a>>
    BY DEF Settled
  <1>3. \A t : t \in two <=> \E a \in attestation, r \in release :
                  a.by = did /\ r.cid = a.subject /\ t = <<"vouchedBy", r.by, a>>
    BY DEF Settled, ByCid
  <1>4. \A t : t \in three <=> \E r \in release, p \in release :
                  r.by = did /\ p.cid = r.prev /\ t = <<"earlier", p.by, r>>
    BY DEF Settled, ByCid
  <1>5. \A t : t \in four <=> \E r \in release, p \in release :
                  p.by = did /\ p.cid = r.prev /\ t = <<"later", r.by, r>>
    BY DEF Settled
  <1> HIDE DEF one, two, three, four
  <1> QED BY <1>1, <1>2, <1>3, <1>4, <1>5 DEF Entry

\* The entries of a kind for an organization.
Some(tallied, k, o) == {x \in tallied : x[1] = k /\ x[2] = o}

\* Entries that a set of links pairs off are as many as those.
LEMMA Paired ==
  ASSUME NEW links, IsFiniteSet(links), NEW tallied, NEW k, NEW o, NEW e,
         \A c \in links : <<k, o, e[c]>> \in tallied,
         \A c1, c2 \in links : e[c1] = e[c2] => c1 = c2,
         \A t \in tallied : t[1] = k /\ t[2] = o => \E c \in links : t = <<k, o, e[c]>>
  PROVE  /\ IsFiniteSet(Some(tallied, k, o))
         /\ Cardinality(Some(tallied, k, o)) = Cardinality(links)
  <1> DEFINE some == Some(tallied, k, o)
             f == [c \in links |-> <<k, o, e[c]>>]
  <1>1. f \in [links -> some]
    BY DEF Some
  <1>2. \A x, y \in links : f[x] = f[y] => x = y
    OBVIOUS
  <1>3. \A t \in some : \E x \in links : f[x] = t
    BY DEF Some
  <1> HIDE DEF f, some
  <1>4. IsFiniteSet(some) /\ Cardinality(some) = Cardinality(links)
    BY <1>1, <1>2, <1>3, PairedOff
  <1> QED BY <1>4 DEF some

\* There are as many entries of a kind for another organization as links of that kind.
LEMMA EntriesAre ==
  ASSUME Settled, NEW did, NEW o, o # did, NEW k \in Kinds
  PROVE  /\ IsFiniteSet(Some(Tallied(did), k, o)) /\ IsFiniteSet(Links(k, did, o))
         /\ Cardinality(Some(Tallied(did), k, o)) = Cardinality(Links(k, did, o))
  <1> DEFINE L == Links(k, did, o)
             T == Tallied(did)
  <1>1. \A t : t \in T <=> Entry(did, t) /\ t[2] # did
    BY TalliedIs
  <1>2. /\ IsFiniteSet(release) /\ IsFiniteSet(attestation)
        /\ \A r1, r2 \in release : r1.cid = r2.cid => r1 = r2
    BY DEF Settled, Tables, release, attestation
  <1>3. IsFiniteSet(release \X release) /\ IsFiniteSet(attestation \X release)
    BY <1>2, FS_Product
  <1>4. IsFiniteSet(L)
    <2>1. L \in SUBSET (attestation \X release) \/ L \in SUBSET (release \X release)
      BY DEF Links, Kinds, Covers, IssuedBy
    <2> HIDE DEF L
    <2> QED BY <1>3, <2>1, FS_Subset
  <1> HIDE DEF T
  <1>5. \A c : c \in Covers <=> \E a \in attestation, r \in release : c = <<a, r>> /\ r.cid = a.subject
    BY DEF Covers
  <1>6. CASE k = "vouchedFor" \/ k = "vouchedBy"
    <2> DEFINE e == [c \in L |-> c[1]]
    <2>1. \A c \in L : \E a \in attestation, r \in release :
            /\ c = <<a, r>> /\ r.cid = a.subject
            /\ \/ k = "vouchedFor" /\ r.by = did /\ a.by = o
               \/ k = "vouchedBy" /\ a.by = did /\ r.by = o
      BY <1>5, <1>6 DEF Links
    <2>2. ASSUME NEW a \in attestation, NEW r \in release, r.cid = a.subject,
                 \/ k = "vouchedFor" /\ r.by = did /\ a.by = o
                 \/ k = "vouchedBy" /\ a.by = did /\ r.by = o
          PROVE  <<a, r>> \in L /\ <<k, o, a>> \in T
      <3>1. <<a, r>> \in L
        BY <1>5, <1>6, <2>2 DEF Links
      <3>2. Entry(did, <<k, o, a>>)
        BY <2>2 DEF Entry
      <3> QED BY <1>1, <3>1, <3>2
    <2>3. ASSUME NEW t \in T, t[1] = k, t[2] = o
          PROVE  \E a \in attestation, r \in release :
                   /\ t = <<k, o, a>> /\ r.cid = a.subject
                   /\ \/ k = "vouchedFor" /\ r.by = did /\ a.by = o
                      \/ k = "vouchedBy" /\ a.by = did /\ r.by = o
      BY <1>1, <1>6, <2>3 DEF Entry
    <2> HIDE DEF L
    <2>4. \A c \in L : <<k, o, e[c]>> \in T
      BY <2>1, <2>2
    <2>5. \A c1, c2 \in L : e[c1] = e[c2] => c1 = c2
      BY <1>2, <2>1
    <2>6. ASSUME NEW t \in T, t[1] = k, t[2] = o  PROVE \E c \in L : t = <<k, o, e[c]>>
      <3>1. PICK a \in attestation, r \in release :
                   /\ t = <<k, o, a>> /\ r.cid = a.subject
                   /\ \/ k = "vouchedFor" /\ r.by = did /\ a.by = o
                      \/ k = "vouchedBy" /\ a.by = did /\ r.by = o
        BY <2>3, <2>6
      <3>2. <<a, r>> \in L /\ e[<<a, r>>] = a
        BY <2>2, <3>1
      <3> QED BY <3>1, <3>2
    <2> HIDE DEF e
    <2>7. IsFiniteSet(Some(T, k, o)) /\ Cardinality(Some(T, k, o)) = Cardinality(L)
      BY <1>4, <2>4, <2>5, <2>6, Paired
    <2> QED BY <1>4, <2>7 DEF L, T
  <1>7. CASE k = "earlier"
    <2> DEFINE e == [c \in L |-> c[1]]
    <2>1. \A c : c \in L <=> \E r \in release, p \in release :
            c = <<r, p>> /\ p.cid = r.prev /\ r.by = did /\ p.by = o
      BY <1>7 DEF Links, IssuedBy
    <2> HIDE DEF L
    <2>2. \A t : t \in T /\ t[1] = k /\ t[2] = o <=> \E r \in release, p \in release :
            t = <<k, o, r>> /\ p.cid = r.prev /\ r.by = did /\ p.by = o
      BY <1>1, <1>7 DEF Entry
    <2>4. \A c \in L : <<k, o, e[c]>> \in T
      BY <2>1, <2>2
    <2>5. \A c1, c2 \in L : e[c1] = e[c2] => c1 = c2
      BY <1>2, <2>1
    <2>6. ASSUME NEW t \in T, t[1] = k, t[2] = o  PROVE \E c \in L : t = <<k, o, e[c]>>
      <3>1. PICK r \in release, p \in release :
              t = <<k, o, r>> /\ p.cid = r.prev /\ r.by = did /\ p.by = o
        BY <2>2, <2>6
      <3>2. <<r, p>> \in L /\ e[<<r, p>>] = r
        BY <2>1, <3>1
      <3> QED BY <3>1, <3>2
    <2> HIDE DEF e
    <2>7. IsFiniteSet(Some(T, k, o)) /\ Cardinality(Some(T, k, o)) = Cardinality(L)
      BY <1>4, <2>4, <2>5, <2>6, Paired
    <2> QED BY <1>4, <2>7 DEF L, T
  <1>8. CASE k = "later"
    <2> DEFINE e == [c \in L |-> c[2]]
    <2>1. \A c : c \in L <=> \E p \in release, r \in release :
            c = <<p, r>> /\ p.cid = r.prev /\ p.by = did /\ r.by = o
      BY <1>8 DEF Links, IssuedBy
    <2> HIDE DEF L
    <2>2. \A t : t \in T /\ t[1] = k /\ t[2] = o <=> \E r \in release, p \in release :
            t = <<k, o, r>> /\ p.cid = r.prev /\ p.by = did /\ r.by = o
      BY <1>1, <1>8 DEF Entry
    <2>4. \A c \in L : <<k, o, e[c]>> \in T
      BY <2>1, <2>2
    <2>5. \A c1, c2 \in L : e[c1] = e[c2] => c1 = c2
      BY <1>2, <2>1
    <2>6. ASSUME NEW t \in T, t[1] = k, t[2] = o  PROVE \E c \in L : t = <<k, o, e[c]>>
      <3>1. PICK r \in release, p \in release :
              t = <<k, o, r>> /\ p.cid = r.prev /\ p.by = did /\ r.by = o
        BY <2>2, <2>6
      <3>2. <<p, r>> \in L /\ e[<<p, r>>] = r
        BY <2>1, <3>1
      <3> QED BY <3>1, <3>2
    <2> HIDE DEF e
    <2>7. IsFiniteSet(Some(T, k, o)) /\ Cardinality(Some(T, k, o)) = Cardinality(L)
      BY <1>4, <2>4, <2>5, <2>6, Paired
    <2> QED BY <1>4, <2>7 DEF L, T
  <1> QED BY <1>6, <1>7, <1>8 DEF Kinds

\* The organizations related to one.
LEMMA RelatedAgree ==
  ASSUME Settled, NEW did \in Orgs, NEW limit
  PROVE  MemRelatedAccounts(mem, did, limit) = relatedAccounts(did, limit)
  <1> DEFINE T == Tallied(did)
             n(k, o) == Cardinality(Links(k, did, o))
             A == {[kind |-> t[1], did |-> t[2],
                    n |-> Cardinality({x \in T : x[1] = t[1] /\ x[2] = t[2]})] : t \in T}
             B == {[kind |-> x[1], did |-> x[2], n |-> n(x[1], x[2])] :
                     x \in {y \in Kinds \X (Orgs \ {did}) : n(y[1], y[2]) > 0}}
             row(k, o) == [kind |-> k, did |-> o, n |-> n(k, o)]
  <1>1. MemRelatedAccounts(mem, did, limit) = Ranked(A, limit)
    BY DEF MemRelatedAccounts, Tallied
  <1>2. relatedAccounts(did, limit) = Ranked(B, limit)
    BY DEF relatedAccounts, Links, Kinds
  <1>3. \A t : t \in T <=> Entry(did, t) /\ t[2] # did
    BY TalliedIs
  <1>4. ASSUME NEW t \in T
        PROVE  /\ t[1] \in Kinds /\ t[2] \in Orgs \ {did}
               /\ t \in Some(T, t[1], t[2])
    <2>1. Entry(did, t) /\ t[2] # did
      BY <1>3
    <2>2. t[1] \in Kinds /\ t[2] \in Orgs
      BY <2>1 DEF Entry, Kinds, Settled
    <2> HIDE DEF T
    <2> QED BY <2>1, <2>2 DEF Some
  <1>5. ASSUME NEW k \in Kinds, NEW o \in Orgs \ {did}
        PROVE  /\ IsFiniteSet(Some(T, k, o)) /\ IsFiniteSet(Links(k, did, o))
               /\ Cardinality(Some(T, k, o)) = n(k, o)
               /\ n(k, o) \in Nat /\ (n(k, o) > 0 <=> Some(T, k, o) # {})
    <2>1. /\ IsFiniteSet(Some(T, k, o)) /\ IsFiniteSet(Links(k, did, o))
          /\ Cardinality(Some(T, k, o)) = n(k, o)
      BY EntriesAre
    <2> HIDE DEF T
    <2>2. n(k, o) \in Nat
      BY <2>1, FS_CardinalityType
    <2>3. n(k, o) = 0 <=> Some(T, k, o) = {}
      BY <2>1, FS_EmptySet
    <2> HIDE DEF n
    <2>4. n(k, o) > 0 <=> Some(T, k, o) # {}
      BY <2>2, <2>3
    <2> QED BY <2>1, <2>2, <2>4
  <1> HIDE DEF T
  <1>6. A = {[kind |-> t[1], did |-> t[2], n |-> Cardinality(Some(T, t[1], t[2]))] : t \in T}
    BY DEF Some
  <1> HIDE DEF A
  <1>7. A = {row(t[1], t[2]) : t \in T}
    <2>1. \A t \in T : Cardinality(Some(T, t[1], t[2])) = n(t[1], t[2])
      BY <1>4, <1>5
    <2> HIDE DEF n
    <2> QED BY <1>6, <2>1
  <1>8. B = {row(x[1], x[2]) : x \in {y \in Kinds \X (Orgs \ {did}) : n(y[1], y[2]) > 0}}
    OBVIOUS
  <1> HIDE DEF n, B, row
  <1>9. ASSUME NEW t \in T  PROVE row(t[1], t[2]) \in B
    <2> DEFINE y == <<t[1], t[2]>>
    <2>1. y \in Kinds \X (Orgs \ {did}) /\ y[1] = t[1] /\ y[2] = t[2]
      BY <1>4
    <2>2. n(y[1], y[2]) > 0
      BY <1>4, <1>5, <2>1
    <2> HIDE DEF y
    <2>3. row(y[1], y[2]) \in B
      BY <1>8, <2>1, <2>2
    <2> QED BY <2>1, <2>3
  <1>10. ASSUME NEW y \in Kinds \X (Orgs \ {did}), n(y[1], y[2]) > 0
         PROVE  row(y[1], y[2]) \in A
    <2>1. y[1] \in Kinds /\ y[2] \in Orgs \ {did}
      OBVIOUS
    <2>2. PICK t \in Some(T, y[1], y[2]) : TRUE
      BY <1>5, <1>10, <2>1
    <2>3. t \in T /\ t[1] = y[1] /\ t[2] = y[2]
      BY <2>2 DEF Some
    <2>4. row(t[1], t[2]) \in A
      BY <1>7, <2>3
    <2> QED BY <2>3, <2>4
  <1>11. A = B
    <2>1. \A a \in A : a \in B
      BY <1>7, <1>9
    <2>2. \A b \in B : b \in A
      BY <1>8, <1>10
    <2> QED BY <2>1, <2>2
  <1> QED BY <1>1, <1>2, <1>11

\* The first of the releases of a history.
First(c, n) == [d \in 1 .. n |-> c[d]]

\* A loop over the index in memory that stops where the history does takes the history.
LEMMA LoopIs ==
  ASSUME Settled, NEW r0 \in release, NEW m \in Nat \ {0}
  PROVE  MemChain(mem, r0.cid, m) = chain(r0.cid, m)
  <1> DEFINE cid == r0.cid
             c == chain(cid, m)
             k == Len(c)
             cut(n) == IF n <= k THEN n ELSE k
             H(n) == First(c, cut(n))
             next(so, n) ==
               LET cursor == IF so = << >> THEN cid ELSE Last(so).prev
               IN  IF Len(so) < n - 1 \/ ByCid(mem, cursor) = {} THEN so
                   ELSE Append(so, CHOOSE r \in ByCid(mem, cursor) : TRUE)
             Is(g) == g = [n \in 0 .. m |-> IF n = 0 THEN << >> ELSE next(g[n - 1], n)]
             h == [n \in 0 .. m |-> H(n)]
  <1>1. MemChain(mem, cid, m) = (CHOOSE g : Is(g))[m]
    BY DEF MemChain
  <1>2. /\ k \in 1 .. m /\ c \in Seq(release) /\ c[1] = r0
        /\ \A d \in 2 .. k : c[d - 1].prev = c[d].cid
        /\ k = m \/ \A p \in release : p.cid # c[k].prev
    BY ChainIs DEF Settled
  <1>3. \A r \in release : ByCid(mem, r.cid) = {r}
    BY DEF Settled, Tables, release, ByCid
  <1>4. \A x : (\A p \in release : p.cid # x) => ByCid(mem, x) = {}
    BY DEF Settled, ByCid
  <1> HIDE DEF c
  <1>5. ASSUME NEW n \in 1 .. m  PROVE next(H(n - 1), n) = H(n)
    <2> DEFINE so == H(n - 1)
    <2>1. \A j \in 0 .. k : First(c, j) \in Seq(release) /\ Len(First(c, j)) = j
      <3> SUFFICES ASSUME NEW j \in 0 .. k  PROVE First(c, j) \in Seq(release) /\ Len(First(c, j)) = j
        OBVIOUS
      <3>1. \A d \in 1 .. j : c[d] \in release
        BY <1>2
      <3>2. First(c, j) \in [1 .. j -> release] /\ j \in Nat
        BY <3>1 DEF First
      <3> QED BY <3>2
    <2>2. CASE n > k
      <3>1. H(n) = First(c, k) /\ so = First(c, k)
        BY <1>2, <2>2
      <3>2. k \in 0 .. k
        BY <1>2
      <3>3. so \in Seq(release) /\ Len(so) = k
        BY <2>1, <3>1, <3>2
      <3>4. CASE n - 1 > k
        <4> HIDE DEF H, so
        <4>1. Len(so) < n - 1
          BY <1>2, <3>3, <3>4
        <4> QED BY <3>1, <4>1 DEF so
      <3>5. CASE n - 1 = k
        <4>1. Last(so) = c[k] /\ so # << >>
          BY <1>2, <3>1, <3>3 DEF Last, First
        <4>2. ByCid(mem, c[k].prev) = {}
          BY <1>2, <1>4, <3>5
        <4> HIDE DEF H, so
        <4> QED BY <3>1, <4>1, <4>2 DEF so
      <3> QED BY <1>2, <2>2, <3>4, <3>5
    <2>3. CASE n <= k
      <3>1. /\ H(n) = First(c, n) /\ so = First(c, n - 1)
            /\ n \in 0 .. k /\ n - 1 \in 0 .. k /\ n \in 1 .. k
        BY <1>2, <2>3
      <3>2. so \in Seq(release) /\ Len(so) = n - 1 /\ H(n) \in Seq(release) /\ Len(H(n)) = n
        BY <2>1, <3>1
      <3>3. c[n] \in release
        BY <1>2, <3>1
      <3> DEFINE cursor == IF so = << >> THEN cid ELSE Last(so).prev
      <3>4. cursor = c[n].cid
        <4>1. CASE n = 1
          BY <1>2, <3>2, <4>1
        <4>2. CASE n # 1
          <5>1. n \in 2 .. k /\ so # << >> /\ Last(so) = so[n - 1] /\ n - 1 \in 1 .. n - 1
            BY <3>1, <3>2, <4>2 DEF Last
          <5>2. so[n - 1] = c[n - 1]
            BY <3>1, <5>1 DEF First
          <5> HIDE DEF so
          <5> QED BY <1>2, <5>1, <5>2
        <4> QED BY <4>1, <4>2
      <3>5. ByCid(mem, cursor) = {c[n]}
        BY <1>3, <3>3, <3>4
      <3>6. \A i \in 1 .. n - 1 : so[i] = c[i]
        BY <3>1 DEF First
      <3>7. \A i \in 1 .. n : H(n)[i] = c[i]
        BY <3>1 DEF First
      <3> DEFINE hn == H(n)
      <3>8. next(so, n) = Append(so, c[n])
        <4> HIDE DEF so
        <4>1. ~(Len(so) < n - 1)
          BY <3>2
        <4>2. (CHOOSE r \in ByCid(mem, cursor) : TRUE) = c[n]
          BY <3>5
        <4> HIDE DEF cursor
        <4>3. next(so, n) = IF Len(so) < n - 1 \/ ByCid(mem, cursor) = {} THEN so
                            ELSE Append(so, CHOOSE r \in ByCid(mem, cursor) : TRUE)
          BY DEF cursor
        <4> QED BY <3>5, <4>1, <4>2, <4>3
      <3> HIDE DEF so, H, hn, cursor
      <3>9. Append(so, c[n]) = hn
        <4>1. /\ Append(so, c[n]) \in Seq(release) /\ Len(Append(so, c[n])) = n
              /\ \A i \in 1 .. n - 1 : Append(so, c[n])[i] = c[i]
              /\ Append(so, c[n])[n] = c[n]
          BY <3>2, <3>3, <3>6
        <4>2. hn \in Seq(release) /\ Len(hn) = n /\ \A i \in 1 .. n : hn[i] = c[i]
          BY <3>2, <3>7 DEF hn
        <4> DEFINE ap == Append(so, c[n])
        <4>3. \A i \in 1 .. n : ap[i] = hn[i]
          BY <4>1, <4>2
        <4>4. DOMAIN ap = 1 .. n /\ DOMAIN hn = 1 .. n
          BY <4>1, <4>2
        <4>5. ap = [i \in 1 .. n |-> ap[i]] /\ hn = [i \in 1 .. n |-> hn[i]]
          BY <4>1, <4>2, <4>4
        <4> HIDE DEF ap
        <4>6. ap = hn
          BY <4>3, <4>5
        <4> QED BY <4>6 DEF ap
      <3> QED BY <3>8, <3>9 DEF so, hn
    <2> QED BY <1>2, <2>2, <2>3
  <1>6. H(0) = << >>
    BY <1>2 DEF First
  <1> HIDE DEF H, next
  <1>7. Is(h)
    <2> DEFINE w == [n \in 0 .. m |-> IF n = 0 THEN << >> ELSE next(h[n - 1], n)]
    <2>1. ASSUME NEW n \in 0 .. m  PROVE h[n] = w[n]
      <3>1. CASE n = 0
        BY <1>6, <3>1
      <3>2. CASE n # 0
        <4>1. n \in 1 .. m /\ n - 1 \in 0 .. m
          BY <3>2
        <4> QED BY <1>5, <3>2, <4>1
      <3> QED BY <3>1, <3>2
    <2>2. DOMAIN h = 0 .. m /\ DOMAIN w = 0 .. m
      OBVIOUS
    <2>3. h = w
      BY <2>1, <2>2
    <2> HIDE DEF h
    <2> QED BY <2>3
  <1>8. Is(CHOOSE g : Is(g))
    <2> HIDE DEF Is, h
    <2> QED BY <1>7
  <1> DEFINE out == CHOOSE g : Is(g)
             S == {n \in 0 .. m : out[n] # H(n)}
  <1>9. \A n \in 0 .. m : out[n] = IF n = 0 THEN << >> ELSE next(out[n - 1], n)
    <2> HIDE DEF out
    <2> QED BY <1>8 DEF out
  <1> HIDE DEF out, Is, h
  <1>10. ASSUME S # {}  PROVE FALSE
    <2>1. \E n \in S : \A j \in S : n <= j
      <3>1. S \subseteq Nat
        OBVIOUS
      <3> HIDE DEF S
      <3> QED BY <1>10, <3>1, LeastNat
    <2>2. PICK n \in S : \A j \in S : n <= j
      BY <2>1
    <2>3. n # 0
      BY <1>6, <1>9, <2>2
    <2>4. n \in 1 .. m /\ n - 1 \in 0 .. m /\ n - 1 \notin S
      BY <2>2, <2>3
    <2>5. out[n - 1] = H(n - 1)
      BY <2>4
    <2>6. out[n] = H(n)
      BY <1>5, <1>9, <2>3, <2>4, <2>5
    <2> QED BY <2>2, <2>6
  <1>11. out[m] = H(m) /\ m \in 0 .. m
    BY <1>10
  <1>12. H(m) = c
    <2>1. H(m) = First(c, k)
      BY <1>2 DEF H
    <2>2. c = [d \in 1 .. k |-> c[d]]
      BY <1>2
    <2> QED BY <2>1, <2>2 DEF First
  <1> QED BY <1>1, <1>11, <1>12 DEF out, c

\* Once everything published is in both, the index in memory and PostgreSQL give one
\* answer to every question (web/memory-index.ts, web/postgres.ts), whatever was published,
\* by however many organizations, with however many writes under way at once, and
\* whatever order records came in; no two attestations being the same bytes.
THEOREM OneAnswer ==
  ASSUME ~Collide
  PROVE  Spec => []TwinsAgree
  <1>1. Inv /\ TwinInv => TwinsAgree
    <2> SUFFICES ASSUME Inv, TwinInv, writes = {}, seen = Len(log)
                 PROVE  /\ MemIssuerStats(mem) = issuerStats
                        /\ mem.handles = actor
                        /\ \A o \in Orgs :
                             /\ MemAccountStats(mem, o) = accountStats(o)
                             /\ MemRelatedAccounts(mem, o, RelatedLimit)
                                  = relatedAccounts(o, RelatedLimit)
                        /\ \A r \in release :
                             MemChain(mem, r.cid, MaxChainDepth) = chain(r.cid, MaxChainDepth)
      BY DEF TwinsAgree
    <2>1. Settled
      BY Settles
    <2>2. MemIssuerStats(mem) = issuerStats
      BY <2>1, IssuersAgree
    <2>3. mem.handles = actor
      BY <2>1 DEF Settled
    <2>4. ASSUME NEW o \in Orgs
          PROVE  /\ MemAccountStats(mem, o) = accountStats(o)
                 /\ MemRelatedAccounts(mem, o, RelatedLimit) = relatedAccounts(o, RelatedLimit)
      BY <2>1, AccountsAgree, RelatedAgree
    <2>5. ASSUME NEW r \in release
          PROVE  MemChain(mem, r.cid, MaxChainDepth) = chain(r.cid, MaxChainDepth)
      <3>1. MaxChainDepth \in Nat \ {0}
        BY ReadsAssumption
      <3> QED BY <2>1, <3>1, LoopIs
    <2> QED BY <2>2, <2>3, <2>4, <2>5
  <1> QED BY Begins, Keeps, NumBegins, NumKeeps, TwinBegins, TwinKeeps, <1>1, PTL DEF Spec
=============================================================================
