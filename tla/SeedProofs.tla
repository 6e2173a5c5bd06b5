----------------------------- MODULE SeedProofs -----------------------------
(***************************************************************************)
(* What holds of the seed job for any number of deployments and attempts:  *)
(* that no certificate stands twice, and that what a completed job leaves  *)
(* is the whole script.                                                    *)
(***************************************************************************)
EXTENDS Seed, WellFoundedInduction, TLAPS

\* Every release that stands is the cast's, and none twice; none stands when the
\* profiles are written, and then those of the lines of the script that are done.
\* (Deployed never to write beside what is there.)
Inv ==
  /\ \A r \in releases : r.by \in Range(orgs)
  /\ SeededOnce
  /\ phase \in Running => mode \in Modes
  /\ At("profiles") => releases = {}
  /\ At("publish") =>
       /\ pos \in 1 .. Len(Script)
       /\ \A r \in releases : \E i \in 1 .. pos - 1 :
            Script[i].op = "release" /\ r.form = Script[i].form

\* Before anything is deployed.
LEMMA Begins == Init => Inv
  BY DEF Init, Inv, SeededOnce, At, Running

\* Steps after which no job is publishing, and no release more stands than before.
LEMMA KeptOnce ==
  ASSUME Inv, releases' \subseteq releases, phase' # "publish",
         phase' \in Running => mode' \in Modes,
         phase' = "profiles" => releases' = {}
  PROVE  Inv'
  BY DEF Inv, SeededOnce, At

\* Nothing is published before what stood is cleared, or is found not to stand.
LEMMA ClearedFirst ==
  ASSUME Inv, "force" \notin Modes, waitForPds \/ provision \/ clearRecords \/ Look
  PROVE  Inv'
  <1>1. CASE waitForPds
    <2>1. /\ UNCHANGED <<releases, mode>> /\ phase \in Running /\ phase = "wait"
          /\ phase' \in {"wait", "provision", "failed"}
      BY <1>1 DEF waitForPds, Goto, records, At, Running
    <2> QED BY <2>1, KeptOnce DEF Inv
  <1>2. CASE provision
    <2>1. UNCHANGED <<releases, mode>> /\ phase = "provision" /\ phase \in Running
      BY <1>2 DEF provision, At, Running
    <2>2. mode \in Modes
      BY <2>1 DEF Inv
    <2>3. mode \in {"plain", "reset"}
      BY <2>2, SeedAssumption
    <2>4. phase' \in {"provision", "clear", "look"}
      BY <1>2, <2>1, <2>3 DEF provision, Goto
    <2> QED BY <2>1, <2>2, <2>4, KeptOnce
  <1>3. CASE clearRecords
    <2>1. UNCHANGED mode /\ phase = "clear" /\ phase \in Running
      BY <1>3 DEF clearRecords, At, Running
    <2>2. releases' \subseteq releases
      BY <1>3 DEF clearRecords
    <2>3. phase' = "clear" \/ (phase' = "profiles" /\ releases' = {})
      <3> DEFINE holding == {x.by : x \in releases \cup attestations} \cup profiles
      <3>1. \/ holding = {} /\ phase' = "profiles" /\ releases' = releases
            \/ phase' = phase
        BY <1>3 DEF clearRecords, Goto
      <3>2. holding = {} => releases = {}
        OBVIOUS
      <3> QED BY <2>1, <3>1, <3>2
    <2> QED BY <2>1, <2>2, <2>3, KeptOnce DEF Inv
  <1>4. CASE Look
    <2>1. /\ UNCHANGED <<releases, mode>> /\ phase = "look" /\ phase \in Running
          /\ \/ phase' = "nothing to do"
             \/ phase' = "profiles" /\ \A o \in Range(orgs) : ~alreadySeeded(o)
      BY <1>4 DEF Look, Goto, records, At, Running
    <2>2. phase' = "profiles" => releases' = {}
      BY <2>1 DEF Inv, alreadySeeded, Of
    <2> QED BY <2>1, <2>2, KeptOnce DEF Inv
  <1> QED BY <1>1, <1>2, <1>3, <1>4

\* The next line of the script issues what no line before it did.
LEMMA PublishedOnce ==
  ASSUME Inv, Publish
  PROVE  Inv'
  <1> DEFINE step == Script[pos]
             new  == [by |-> step.by, form |-> step.form, prev |-> step.prev, job |-> job]
             Line(r, n) == \E i \in 1 .. n - 1 :
                             Script[i].op = "release" /\ r.form = Script[i].form
  <1>1. /\ pos \in 1 .. Len(Script) /\ Len(Script) \in Nat
        /\ \A r \in releases : Line(r, pos)
        /\ phase = "publish" /\ mode \in Modes
    BY ScriptAssumption DEF Publish, Inv, At, Running, Lines
  <1>2. /\ step.by \in Range(orgs)
        /\ \A i \in 1 .. pos - 1 :
             Script[i].op = "release" /\ step.op = "release" => Script[i].form # step.form
    BY <1>1, ScriptAssumption DEF Lines, Releases
  <1>3. \/ step.op = "release" /\ releases' = releases \cup {new}
        \/ releases' = releases
    BY DEF Publish
  <1>4. \A r \in releases' : r \in releases \/ (step.op = "release" /\ r = new)
    BY <1>3
  <1>5. new.by = step.by /\ new.form = step.form
    OBVIOUS
  <1> HIDE DEF new
  <1>6. \A r \in releases' : r.by \in Range(orgs)
    BY <1>2, <1>4, <1>5 DEF Inv
  <1>7. \A r \in releases' : Line(r, pos + 1)
    <2>1. \A i \in 1 .. pos - 1 : i \in 1 .. (pos + 1) - 1
      BY <1>1
    <2>2. pos \in 1 .. (pos + 1) - 1
      BY <1>1
    <2> QED BY <1>1, <1>4, <1>5, <2>1, <2>2
  <1>8. \A r1, r2 \in releases' : r1.form = r2.form => r1 = r2
    <2>1. step.op = "release" => \A r \in releases : r.form # new.form
      BY <1>1, <1>2, <1>5
    <2> HIDE DEF step
    <2> QED BY <1>4, <2>1 DEF Inv, SeededOnce
  <1>9. /\ mode' = mode
        /\ \/ pos < Len(Script) /\ pos' = pos + 1 /\ phase' = phase
           \/ phase' = "complete"
    BY DEF Publish, Goto
  <1>10. phase' = "publish" => pos' \in 1 .. Len(Script) /\ \A r \in releases' : Line(r, pos')
    BY <1>1, <1>7, <1>9
  <1>11. phase' # "profiles"
    BY <1>1, <1>9
  <1> QED BY <1>1, <1>6, <1>8, <1>9, <1>10, <1>11 DEF Inv, SeededOnce, At

\* No step disturbs it.
LEMMA OnceKept ==
  ASSUME "force" \notin Modes, Inv, [Next]_vars
  PROVE  Inv'
  <1>1. CASE Deploy
    <2>1. /\ releases' = releases /\ mode' \in Modes /\ phase' = "wait"
      BY <1>1 DEF Deploy, records, Goto
    <2> QED BY <2>1, KeptOnce
  <1>2. CASE Fail
    <2>1. releases' = releases /\ phase' = "failed"
      BY <1>2 DEF Fail, records, Goto
    <2> QED BY <2>1, KeptOnce DEF Running
  <1>3. CASE waitForPds \/ provision \/ clearRecords \/ Look
    BY <1>3, ClearedFirst
  <1>4. CASE writeStation
    <2>1. /\ UNCHANGED <<releases, mode>> /\ phase = "profiles" /\ phase \in Running
          /\ phase' = "profiles" \/ (phase' = "publish" /\ pos' = 1)
      BY <1>4 DEF writeStation, Goto, At, Running
    <2>2. releases = {} /\ mode \in Modes
      BY <2>1 DEF Inv, At
    <2>3. 1 \in 1 .. Len(Script)
      BY ScriptAssumption
    <2> QED BY <2>1, <2>2, <2>3 DEF Inv, SeededOnce, At
  <1>5. CASE Publish
    BY <1>5, PublishedOnce
  <1>6. CASE UNCHANGED vars
    BY <1>6 DEF vars, Inv, SeededOnce, At
  <1> QED BY <1>1, <1>2, <1>3, <1>4, <1>5, <1>6 DEF Next

\* However many deployments fail half way, and whether or not each was to clear what
\* is there, no certificate stands twice (seed/src/index.ts, alreadySeeded, clear),
\* as long as none is deployed to write beside what is there.
THEOREM NeverSeededTwice ==
  ASSUME "force" \notin Modes
  PROVE  Spec => []SeededOnce
  <1>1. Inv /\ [Next]_vars => Inv'
    BY OnceKept
  <1>2. Inv => SeededOnce
    BY DEF Inv
  <1> QED BY Begins, <1>1, <1>2, PTL DEF Spec

----------------------------------------------------------------------------
(* A job that completes.                                                   *)

\* The records that a line of the script writes.
Release(i, jb) == [by |-> Script[i].by, form |-> Script[i].form, prev |-> Script[i].prev, job |-> jb]
Attestation(i, jb) == [by |-> Script[i].by, form |-> Script[i].form, job |-> jb]

\* The first n lines have been published, and no other release stands.
Told(R, A, jb, n) ==
  /\ \A r \in R : \E i \in 1 .. n : Script[i].op = "release" /\ r = Release(i, jb)
  /\ \A i \in 1 .. n : Script[i].op = "release" => Release(i, jb) \in R
  /\ \A i \in 1 .. n : Script[i].op = "attest" => Attestation(i, jb) \in A

\* How far a job has come.
FarInv ==
  /\ Inv
  /\ accounts \subseteq Range(orgs) /\ profiles \subseteq Range(orgs)
  /\ phase \in {"clear", "look", "profiles", "publish", "complete"} => accounts = Range(orgs)
  /\ phase \in {"publish", "complete"} => profiles = Range(orgs)
  /\ At("publish") => Told(releases, attestations, job, pos - 1)
  /\ At("complete") => Told(releases, attestations, job, Len(Script))

LEMMA LeastNat ==
  ASSUME NEW T, T \subseteq Nat, T # {}
  PROVE  \E n \in T : \A m \in T : n <= m
  <1> DEFINE R == OpToRel(<, Nat)
  <1>1. IsWellFoundedOn(R, Nat)
    BY NatLessThanWellFounded
  <1> HIDE DEF R
  <1>2. PICK n \in T : \A m \in T : ~(<<m, n>> \in R)
    BY <1>1, WFMin
  <1>3. \A m \in T : ~(m < n)
    BY <1>2 DEF R, OpToRel
  <1> QED BY <1>3

\* The first of some of the cast is one of them.
LEMMA NextIsOne ==
  ASSUME NEW set, set \subseteq Range(orgs), set # {}
  PROVE  NextOf(set) \in set
  <1> DEFINE T == {i \in DOMAIN orgs : orgs[i] \in set}
  <1>1. DOMAIN orgs \subseteq Nat
    BY DEF orgs
  <1>2. T # {}
    BY DEF Range
  <1>3. PICK i \in T : \A k \in T : i <= k
    BY <1>1, <1>2, LeastNat
  <1>4. \A k \in 1 .. i - 1 : orgs[k] \notin set
    <2>1. DOMAIN orgs = 1 .. 29
      BY DEF orgs
    <2> HIDE DEF T
    <2>2. \A k \in 1 .. i - 1 : k \notin T
      BY <1>1, <1>3, <2>1 DEF T
    <2>3. \A k \in 1 .. i - 1 : k \in DOMAIN orgs
      BY <1>3, <2>1 DEF T
    <2> QED BY <2>2, <2>3 DEF T
  <1>5. \E j \in DOMAIN orgs : orgs[j] \in set /\ \A k \in 1 .. j - 1 : orgs[k] \notin set
    BY <1>3, <1>4
  <1> QED BY <1>5 DEF NextOf

\* Nothing is published, nor is the job complete.
LEMMA NotFar ==
  ASSUME FarInv, Inv', accounts' = accounts, profiles' \subseteq profiles,
         phase' \notin {"publish", "complete"},
         phase' \in {"clear", "look", "profiles"} => accounts = Range(orgs)
  PROVE  FarInv'
  BY DEF FarInv, At

LEMMA ProvisionFar ==
  ASSUME FarInv, Inv', provision
  PROVE  FarInv'
  <1> DEFINE missing == Range(orgs) \ accounts
  <1>1. /\ profiles' = profiles /\ phase = "provision"
        /\ \/ missing # {} /\ accounts' = accounts \cup {NextOf(missing)} /\ phase' = phase
           \/ /\ missing = {} /\ accounts' = accounts
              /\ phase' \in {"clear", "look", "profiles"}
    BY DEF provision, Goto, At
  <1>2. CASE missing # {}
    <2>1. missing \subseteq Range(orgs)
      OBVIOUS
    <2> HIDE DEF missing
    <2>2. NextOf(missing) \in missing
      BY <1>2, <2>1, NextIsOne
    <2>3. accounts' \subseteq Range(orgs)
      BY <1>1, <1>2, <2>1, <2>2 DEF FarInv
    <2> QED BY <1>1, <1>2, <2>3 DEF FarInv, At
  <1>3. CASE missing = {}
    <2>1. accounts = Range(orgs)
      BY <1>3 DEF FarInv
    <2>2. accounts' = accounts /\ phase' \in {"clear", "look", "profiles"}
      BY <1>1, <1>3
    <2> QED BY <1>1, <2>1, <2>2, NotFar
  <1> QED BY <1>2, <1>3

LEMMA StationsFar ==
  ASSUME FarInv, Inv', writeStation
  PROVE  FarInv'
  <1> DEFINE missing == Range(orgs) \ profiles
  <1>1. /\ UNCHANGED <<accounts, releases, attestations, job>> /\ phase = "profiles"
        /\ \/ missing # {} /\ profiles' = profiles \cup {NextOf(missing)} /\ phase' = phase
           \/ missing = {} /\ profiles' = profiles /\ phase' = "publish" /\ pos' = 1
    BY DEF writeStation, Goto, At
  <1>2. accounts = Range(orgs) /\ releases = {}
    BY <1>1 DEF FarInv, Inv, At
  <1>3. CASE missing # {}
    <2>1. missing \subseteq Range(orgs)
      OBVIOUS
    <2> HIDE DEF missing
    <2>2. NextOf(missing) \in missing
      BY <1>3, <2>1, NextIsOne
    <2>3. profiles' \subseteq Range(orgs)
      BY <1>1, <1>3, <2>1, <2>2 DEF FarInv
    <2> QED BY <1>1, <1>2, <1>3, <2>3 DEF FarInv, At
  <1>4. CASE missing = {}
    <2>1. profiles' = Range(orgs) /\ phase' = "publish" /\ pos' - 1 = 0
      BY <1>1, <1>4 DEF FarInv
    <2>2. Told({}, attestations, job, 0)
      BY DEF Told
    <2>3. Told(releases', attestations', job', pos' - 1)
      BY <1>1, <1>2, <2>1, <2>2
    <2> QED BY <1>1, <1>2, <2>1, <2>3 DEF FarInv, At
  <1> QED BY <1>3, <1>4

LEMMA PublishFar ==
  ASSUME FarInv, Inv', Publish
  PROVE  FarInv'
  <1> DEFINE rel == Release(pos, job)
             att == Attestation(pos, job)
  <1>1. /\ UNCHANGED <<accounts, profiles, job>> /\ phase = "publish"
        /\ \/ Script[pos].op = "release" /\ releases' = releases \cup {rel}
              /\ attestations' = attestations
           \/ Script[pos].op = "attest" /\ attestations' = attestations \cup {att}
              /\ releases' = releases
    BY DEF Publish, At, Release, Attestation
  <1>2. \/ pos < Len(Script) /\ pos' = pos + 1 /\ phase' = phase
        \/ ~(pos < Len(Script)) /\ phase' = "complete"
    BY DEF Publish, Goto
  <1>3. /\ pos \in 1 .. Len(Script) /\ Len(Script) \in Nat
        /\ Told(releases, attestations, job, pos - 1)
        /\ accounts = Range(orgs) /\ profiles = Range(orgs)
    BY <1>1, ScriptAssumption DEF FarInv, Inv, At
  <1> HIDE DEF rel, att
  <1>4. \A i \in 1 .. pos : i \in 1 .. pos - 1 \/ i = pos
    BY <1>3
  <1>5. \A i \in 1 .. pos - 1 : i \in 1 .. pos
    BY <1>3
  <1>6. pos \in 1 .. pos
    BY <1>3
  <1>7. \A r \in releases' : \E i \in 1 .. pos : Script[i].op = "release" /\ r = Release(i, job)
    BY <1>1, <1>3, <1>5, <1>6 DEF Told, rel
  <1>8. \A i \in 1 .. pos : Script[i].op = "release" => Release(i, job) \in releases'
    BY <1>1, <1>3, <1>4 DEF Told, rel
  <1>9. \A i \in 1 .. pos : Script[i].op = "attest" => Attestation(i, job) \in attestations'
    BY <1>1, <1>3, <1>4 DEF Told, att
  <1>10. Told(releases', attestations', job, pos)
    BY <1>7, <1>8, <1>9 DEF Told
  <1>11. CASE pos < Len(Script)
    <2>1. pos' - 1 = pos /\ phase' = "publish"
      BY <1>1, <1>2, <1>3, <1>11
    <2> QED BY <1>1, <1>3, <1>10, <2>1 DEF FarInv, At
  <1>12. CASE ~(pos < Len(Script))
    <2>1. pos = Len(Script) /\ phase' = "complete"
      BY <1>2, <1>3, <1>12
    <2> QED BY <1>1, <1>3, <1>10, <2>1 DEF FarInv, At
  <1> QED BY <1>11, <1>12

LEMMA FarKept ==
  ASSUME "force" \notin Modes, FarInv, [Next]_vars
  PROVE  FarInv'
  <1>1. Inv'
    BY OnceKept DEF FarInv
  <1>2. CASE Deploy \/ Fail \/ waitForPds
    <2>1. UNCHANGED records /\ phase' \in {"wait", "failed", "provision"}
      BY <1>2 DEF Deploy, Fail, waitForPds, Goto, At
    <2> QED BY <1>1, <2>1, NotFar DEF records
  <1>3. CASE provision
    BY <1>1, <1>3, ProvisionFar
  <1>4. CASE clearRecords \/ Look
    <2>1. /\ accounts' = accounts /\ profiles' \subseteq profiles /\ phase \in {"clear", "look"}
          /\ phase' \in {"clear", "profiles", "nothing to do"}
      BY <1>4 DEF clearRecords, Look, Goto, At, records
    <2>2. accounts = Range(orgs)
      BY <2>1 DEF FarInv
    <2> QED BY <1>1, <2>1, <2>2, NotFar
  <1>5. CASE writeStation
    BY <1>1, <1>5, StationsFar
  <1>6. CASE Publish
    BY <1>1, <1>6, PublishFar
  <1>7. CASE UNCHANGED vars
    BY <1>1, <1>7 DEF vars, FarInv, At
  <1> QED BY <1>2, <1>3, <1>4, <1>5, <1>6, <1>7 DEF Next

\* What the script leaves is what it is.
LEMMA ToldIsWhole ==
  ASSUME FarInv, At("complete")
  PROVE  CompleteIsWhole
  <1> DEFINE rel(i) == Release(i, job)
  <1>1. /\ \A r \in releases : \E i \in Releases : r = Release(i, job)
        /\ \A i \in Releases : Release(i, job) \in releases
        /\ \A i \in Lines : Script[i].op = "attest" => Attestation(i, job) \in attestations
    BY DEF FarInv, Told, Releases, Lines
  <1>2. \A i : /\ rel(i).by = Script[i].by /\ rel(i).form = Script[i].form
               /\ rel(i).prev = Script[i].prev /\ rel(i).job = job
    BY DEF Release
  <1>3. /\ accounts = Range(orgs) /\ profiles = Range(orgs)
        /\ Range(Script) = {Script[i] : i \in Lines}
    BY ScriptAssumption DEF FarInv, At, Range
  <1>4. {<<r.by, r.form>> : r \in releases} =
          {<<s.by, s.form>> : s \in {x \in Range(Script) : x.op = "release"}}
    <2>1. ASSUME NEW r \in releases
          PROVE  \E s \in Range(Script) : s.op = "release" /\ s.by = r.by /\ s.form = r.form
      <3>1. PICK i \in Releases : r = rel(i)
        BY <1>1
      <3>2. r.by = Script[i].by /\ r.form = Script[i].form
        BY <1>2, <3>1
      <3> QED BY <1>3, <3>2 DEF Releases
    <2>2. ASSUME NEW s \in Range(Script), s.op = "release"
          PROVE  \E r \in releases : r.by = s.by /\ r.form = s.form
      <3>1. PICK i \in Releases : s = Script[i]
        BY <1>3, <2>2 DEF Releases
      <3> QED BY <1>1, <1>2, <3>1
    <2> QED BY <2>1, <2>2
  <1>5. ASSUME NEW s \in Range(Script), s.op = "attest"
        PROVE  \E a \in Of(s.by, attestations), r \in releases :
                 a.form = s.form /\ r.form = s.form /\ a.job = r.job
    <2>1. PICK i \in Lines : s = Script[i]
      BY <1>3
    <2>2. PICK j \in Releases : Script[j].form = Script[i].form
      BY <1>5, <2>1, ScriptAssumption
    <2> DEFINE a == Attestation(i, job)
    <2>3. a \in attestations /\ a.by = s.by /\ a.form = s.form /\ a.job = job
      BY <1>1, <1>5, <2>1 DEF Attestation
    <2> HIDE DEF a
    <2>4. a \in Of(s.by, attestations)
      BY <2>3 DEF Of
    <2>5. rel(j) \in releases /\ rel(j).form = s.form /\ rel(j).job = job
      BY <1>1, <1>2, <2>1, <2>2
    <2> QED BY <2>3, <2>4, <2>5
  <1> HIDE DEF rel
  <1>6. ASSUME NEW r \in releases, NEW i \in Releases, r = Release(i, job), NEW p
        PROVE  p \in Before(r) <=>
                 \E h \in Releases : p = Release(h, job) /\ Continues(i, h)
    BY <1>1, <1>2, <1>6 DEF Before, Continues, rel
  <1>7. ASSUME NEW r \in releases, NEW q \in releases
        PROVE  /\ \A p \in Before(r) : p.form[1] = r.form[1]
               /\ Before(r) # {} /\ Before(q) = Before(r) => q = r
               /\ q.form[1] = r.form[1] /\ Before(q) = {} /\ Before(r) = {} => q = r
    <2>1. PICK i \in Releases : r = Release(i, job)
      BY <1>1
    <2>2. PICK j \in Releases : q = Release(j, job)
      BY <1>1
    <2>3. r.form = Script[i].form /\ q.form = Script[j].form
      BY <1>2, <2>1, <2>2 DEF rel
    <2>4. ASSUME NEW p \in Before(r)
          PROVE  \E h \in Releases : p = Release(h, job) /\ p.form = Script[h].form /\ Continues(i, h)
      BY <1>2, <1>6, <2>1, <2>4 DEF rel
    <2>5. \A p \in Before(r) : p.form[1] = r.form[1]
      BY <2>3, <2>4, ScriptAssumption
    <2>6. ASSUME Before(r) # {}, Before(q) = Before(r)
          PROVE  q = r
      <3>1. PICK p : p \in Before(r)
        BY <2>6
      <3>2. PICK h \in Releases : p.form = Script[h].form /\ Continues(i, h)
        BY <2>4, <3>1
      <3>3. PICK g \in Releases : p = Release(g, job) /\ Continues(j, g)
        BY <1>6, <2>2, <2>6, <3>1
      <3>4. Script[g].form = Script[h].form
        BY <1>2, <3>2, <3>3 DEF rel
      <3>5. Continues(j, h)
        BY <3>3, <3>4 DEF Continues
      <3>6. i = j
        BY <3>2, <3>5, ScriptAssumption
      <3> QED BY <2>1, <2>2, <3>6
    <2>7. ASSUME q.form[1] = r.form[1], Before(q) = {}, Before(r) = {}
          PROVE  q = r
      <3>1. \A h \in Releases : ~Continues(i, h) /\ ~Continues(j, h)
        BY <1>6, <2>1, <2>2, <2>7
      <3>2. i = j
        BY <2>3, <2>7, <3>1, ScriptAssumption
      <3> QED BY <2>1, <2>2, <3>2
    <2> QED BY <2>5, <2>6, <2>7
  <1>8. Whole
    BY <1>3, <1>4, <1>5 DEF Whole
  <1> QED BY <1>7, <1>8 DEF CompleteIsWhole

\* A job that says it is complete leaves the whole demonstration, however many before
\* it failed, and wherever: every part one history from its only origin, with no two
\* releases after one (seed/src/scenarios.ts, publishLineage), as long as none is
\* deployed to write beside what is there.
THEOREM CompletedWhole ==
  ASSUME "force" \notin Modes
  PROVE  Spec => []CompleteIsWhole
  <1>1. Init => FarInv
    BY Begins DEF Init, FarInv, At
  <1>2. FarInv /\ [Next]_vars => FarInv'
    BY FarKept
  <1>3. FarInv => CompleteIsWhole
    <2>1. ~At("complete") => CompleteIsWhole
      BY DEF CompleteIsWhole
    <2> QED BY <2>1, ToldIsWhole
  <1> QED BY <1>1, <1>2, <1>3, PTL DEF Spec
=============================================================================
