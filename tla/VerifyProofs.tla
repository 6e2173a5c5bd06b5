---------------------------- MODULE VerifyProofs ----------------------------
(***************************************************************************)
(* What holds of verification for any organizations, records, documents,   *)
(* depth of walk, and any number of changes and failures while it is under *)
(* way: that a report is whole, that what verifies was issued, that a      *)
(* history is the one the records tell, and that what is genuine passes.   *)
(***************************************************************************)
EXTENDS Verify, FiniteSetTheorems, TLAPS

JobFields ==
  {"kind", "b", "stamped", "anchor", "step", "at", "pin", "seen", "dated", "keys",
   "proof", "links", "stages", "reached", "why", "quiet", "forged", "claimed"}

\* A record as it is written: the fields it has, and no blank public one.
RecordOK(r) ==
  /\ DOMAIN r = {"root", "public", "prev", "pin"}
  /\ DOMAIN r.public = {"part", "note"}
  /\ r.public = [f \in {"part", "note"} |-> r.public[f]]
  /\ \A f \in {"part", "note"} : r.public[f] # Null
  /\ r.prev \in Uris \cup {None, NoUri, Malformed, Elsewhere}

\* What a repository holds was published, and every paper is of a record.
WorldOK ==
  /\ DOMAIN repo = Uris
  /\ \A u \in Uris : repo[u] # None => <<u, repo[u]>> \in ever
  /\ \A e \in ever : /\ e[1] \in Uris
                     /\ e = <<e[1], e[2]>>
                     /\ RecordOK(e[2])
  /\ \A b \in papers : b.uri \in Uris
  /\ rotations \in [Dids -> Nat]

----------------------------------------------------------------------------
(* The verification: j, with E every <<URI, record>> published so far and  *)
(* W the organizations whose server signs with a key of its own.           *)

Published(E) == {[uri |-> e[1], cid |-> e[2]] : e \in E}

AtHead(j) == j.kind = "bundle" /\ j.links = << >>

Last(s) == s[Len(s)]

\* The links so far are a path of published records from the one asked about.
PathOK(j, E) ==
  LET L == j.links IN
  /\ L \in Seq(Published(E))
  /\ Len(L) <= MAX_CHAIN_DEPTH + 1
  /\ L # << >> => L[1].uri = j.b.uri
  /\ \A i \in 1 .. Len(L) : Owner[L[i].uri] \notin j.forged
  /\ \A i \in 1 .. Len(L) - 1 :
       /\ L[i].cid.prev = L[i + 1].uri
       /\ L[i].cid.pin \in {None, L[i + 1].cid}
       /\ L[i].cid.public["part"] = L[i + 1].cid.public["part"]
  /\ L # << >> /\ j.reached /\ j.kind # "fetch" => Last(L).cid.prev \in Ends

\* What is asked about next is what the last record of the path names.
NextOK(j) ==
  j.step # "done" =>
    /\ Len(j.links) <= MAX_CHAIN_DEPTH
    /\ ~j.reached
    /\ j.at \in Uris
    /\ j.links = << >> => j.at = j.b.uri
    /\ j.links # << >> => j.at = Last(j.links).cid.prev /\ j.pin = Last(j.links).cid.pin

\* A server that has signed with a key of its own since before the verification
\* is known by that key and no other, and no record is signed with it.
KeysOK(j, E, W) ==
  /\ j.forged \subseteq W
  /\ j.step \in {"keys", "check"} \/ (j.step = "proof" /\ ~AtHead(j)) =>
       (Owner[j.at] \in j.forged => j.seen = WrongKey(Owner[j.at]))
  /\ j.step = "proof" /\ AtHead(j) =>
       (Owner[j.at] \in j.forged => j.keys \subseteq {WrongKey(Owner[j.at])})
  /\ j.step = "check" =>
       /\ j.proof.key # WrongKey(Owner[j.at])
       /\ j.proof.record # None => <<j.at, j.proof.record>> \in E

\* The stages so far are the first ones, in order.
Names == {StageNames[i] : i \in 1 .. 7}

Statuses == {"pass", "fail", "warn", "skipped"}

InOrder(stages, n) ==
  /\ stages \in Seq(Names \X Statuses)
  /\ Len(stages) = n
  /\ \A i \in 1 .. n : stages[i][1] = StageNames[i]

StagesOK(j) ==
  j.kind = "bundle" =>
    /\ j.step = "handle" => InOrder(j.stages, 0) /\ j.links = << >>
    /\ j.step = "did"    => InOrder(j.stages, IF j.links = << >> THEN 0 ELSE 6)
    /\ j.step = "keys"   => InOrder(j.stages, 1) /\ j.links = << >>
    /\ j.step = "proof"  => InOrder(j.stages, IF j.links = << >> THEN 1 ELSE 6)
    /\ j.step = "check"  => InOrder(j.stages, 6) /\ j.links # << >>
    /\ j.step = "done"   => InOrder(j.stages, 7)

\* What the document has been checked for: a stage has failed, or the handle was
\* that of the repository and the record was the document's.
Matches(j) ==
  /\ j.claimed = {Owner[j.b.uri]}
  /\ j.links[1].cid.root = j.b.doc
  /\ j.links[1].cid.public = publicValues(j.b.doc)

HeadOK(j) ==
  /\ j.kind = "bundle" =>
       /\ j.step \notin {"handle", "done"} => j.claimed = {Owner[j.b.uri]}
       /\ j.step = "done" /\ j.links = << >> => Failed(j.stages)
       /\ j.links # << >> => Failed(j.stages) \/ Matches(j)
  /\ j.why = "fetched" => j.links # << >>

Shaped(j) ==
  /\ DOMAIN j = JobFields
  /\ j.kind \in {"bundle", "trace", "fetch"}
  /\ j.step \in {"handle", "did", "keys", "proof", "check", "done"}
  /\ j.step \in {"handle", "keys"} => j.kind = "bundle" /\ j.links = << >>

Sound(j, E, W) ==
  /\ Shaped(j)
  /\ PathOK(j, E)
  /\ NextOK(j)
  /\ KeysOK(j, E, W)
  /\ StagesOK(j)
  /\ HeadOK(j)

\* The inductive invariant.
VerifyInv ==
  /\ WorldOK
  /\ job = Idle \/ Sound(job, ever, impostors)

----------------------------------------------------------------------------
(* Stages.                                                                 *)

\* A stage added after the first n is the next one, and what has failed has
\* failed.
LEMMA AddInOrder ==
  ASSUME NEW s, NEW n \in 0 .. 6, InOrder(s, n), NEW status \in Statuses, NEW name,
         name = StageNames[n + 1]
  PROVE  /\ InOrder(add(s, name, status), n + 1)
         /\ Failed(s) => Failed(add(s, name, status))
         /\ status = "fail" => Failed(add(s, name, status))
<1>. DEFINE t == Append(s, <<name, status>>)
<1>1. name \in Names
  BY DEF Names
<1>2. /\ t \in Seq(Names \X Statuses)
      /\ Len(t) = n + 1
      /\ \A i \in 1 .. n : t[i] = s[i]
      /\ t[n + 1] = <<name, status>>
  BY <1>1 DEF InOrder
<1>3. InOrder(t, n + 1)
  BY <1>2 DEF InOrder
<1>4. DOMAIN s = 1 .. n /\ DOMAIN t = 1 .. n + 1
  BY <1>2 DEF InOrder
<1>. QED BY <1>2, <1>3, <1>4 DEF add, Failed

\* Skipping the rest makes the report whole.
LEMMA SkipRestWhole ==
  ASSUME NEW s, NEW n \in 0 .. 7, InOrder(s, n)
  PROVE  /\ InOrder(skipRest(s), 7)
         /\ Failed(s) => Failed(skipRest(s))
<1>. DEFINE rest == [i \in 1 .. Len(StageNames) - Len(s) |-> <<StageNames[Len(s) + i], "skipped">>]
            t == s \o rest
<1>1. Len(StageNames) = 7 /\ \A i \in 1 .. 7 : StageNames[i] \in Names
  BY DEF StageNames, Names
<1>2. rest \in Seq(Names \X Statuses) /\ Len(rest) = 7 - n
  BY <1>1 DEF InOrder, Statuses
<1>3. /\ t \in Seq(Names \X Statuses)
      /\ Len(t) = 7
      /\ \A i \in 1 .. n : t[i] = s[i]
      /\ \A i \in n + 1 .. 7 : t[i] = rest[i - n]
  <2>. DEFINE S == Names \X Statuses
  <2>1. s \in Seq(S) /\ Len(s) = n
    BY DEF InOrder
  <2>2. rest \in Seq(S) /\ Len(rest) = 7 - n
    BY <1>2
  <2>. HIDE DEF rest, S
  <2>3. /\ t \in Seq(S)
        /\ Len(t) = 7
        /\ \A i \in 1 .. n : t[i] = s[i]
        /\ \A i \in n + 1 .. 7 : t[i] = rest[i - n]
    BY <2>1, <2>2
  <2>. QED BY <2>3 DEF S
<1>4. \A i \in n + 1 .. 7 : t[i] = <<StageNames[i], "skipped">>
  <2>. TAKE i \in n + 1 .. 7
  <2>1. Len(s) = n /\ i - n \in 1 .. 7 - n /\ n + (i - n) = i
    BY DEF InOrder
  <2>2. rest[i - n] = <<StageNames[n + (i - n)], "skipped">>
    BY <2>1, <1>1
  <2>. QED BY <2>1, <2>2, <1>3
<1>5. InOrder(t, 7)
  <2>1. \A i \in 1 .. 7 : i \in 1 .. n \/ i \in n + 1 .. 7
    OBVIOUS
  <2>2. \A i \in 1 .. n : t[i][1] = StageNames[i]
    BY <1>3 DEF InOrder
  <2>. HIDE DEF t, rest
  <2>3. \A i \in n + 1 .. 7 : t[i][1] = StageNames[i]
    BY <1>4
  <2>4. \A i \in 1 .. 7 : t[i][1] = StageNames[i]
    BY <2>1, <2>2, <2>3
  <2>. QED BY <2>4, <1>3 DEF InOrder
<1>6. DOMAIN s = 1 .. n /\ DOMAIN t = 1 .. 7
  <2>1. s \in Seq(Names \X Statuses) /\ Len(s) = n
    BY DEF InOrder
  <2>. HIDE DEF t, rest
  <2>. QED BY <2>1, <1>3
<1>7. Failed(s) => Failed(t)
  <2>. HIDE DEF t, rest
  <2>. QED BY <1>3, <1>6 DEF Failed
<1>. QED BY <1>5, <1>7 DEF skipRest

----------------------------------------------------------------------------
(* How the work ends.                                                      *)

\* What no step of the work changes.
SameCase(f, j) ==
  /\ f.kind = j.kind
  /\ f.b = j.b
  /\ f.forged = j.forged
  /\ f.claimed = j.claimed

LEMMA FinishIs ==
  ASSUME NEW j, DOMAIN j = JobFields, NEW why
  PROVE  LET f == finish(j, why) IN
         /\ DOMAIN f = JobFields
         /\ SameCase(f, j)
         /\ f.links = j.links
         /\ f.reached = j.reached
         /\ f.step = "done"
         /\ f.why = why
         /\ f.stages = (IF j.kind = "bundle" THEN skipRest(j.stages) ELSE j.stages)
BY DEF finish, JobFields, SameCase

LEMMA StopIs ==
  ASSUME NEW j, DOMAIN j = JobFields, NEW reached, NEW why
  PROVE  LET f == Stop(j, reached, why) IN
         /\ DOMAIN f = JobFields
         /\ SameCase(f, j)
         /\ f.links = j.links
         /\ f.reached = reached
         /\ f.step = "done"
         /\ f.why = why
         /\ f.stages = (IF j.kind = "bundle"
                        THEN skipRest(add(j.stages, "chain", IF reached THEN "pass" ELSE "fail"))
                        ELSE j.stages)
<1>. DEFINE status == IF reached THEN "pass" ELSE "fail"
            k == [j EXCEPT !.reached = reached, !.stages = add(@, "chain", status)]
            l == [j EXCEPT !.reached = reached]
<1>1. CASE j.kind = "bundle"
  <2>1. /\ DOMAIN k = JobFields
        /\ SameCase(k, j)
        /\ k.links = j.links
        /\ k.reached = reached
        /\ k.stages = add(j.stages, "chain", status)
    BY DEF JobFields, SameCase
  <2>2. Stop(j, reached, why) = finish(k, why)
    BY <1>1 DEF Stop
  <2>. HIDE DEF k
  <2>. QED BY <1>1, <2>1, <2>2, FinishIs DEF SameCase
<1>2. CASE j.kind # "bundle"
  <2>1. /\ DOMAIN l = JobFields
        /\ SameCase(l, j)
        /\ l.links = j.links
        /\ l.reached = reached
        /\ l.stages = j.stages
    BY DEF JobFields, SameCase
  <2>2. Stop(j, reached, why) = finish(l, why)
    BY <1>2 DEF Stop
  <2>. HIDE DEF l
  <2>. QED BY <1>2, <2>1, <2>2, FinishIs DEF SameCase
<1>. QED BY <1>1, <1>2

\* A verification that has walked some of a history, and may end there.
Walked(j, E, W) ==
  /\ DOMAIN j = JobFields
  /\ j.kind \in {"bundle", "trace", "fetch"}
  /\ PathOK(j, E)
  /\ j.forged \subseteq W
  /\ j.kind = "bundle" => /\ InOrder(j.stages, 6)
                          /\ j.links # << >>
                          /\ Failed(j.stages) \/ Matches(j)

\* However it ends, it ends sound.
LEMMA StopSound ==
  ASSUME NEW j, NEW E, NEW W, Walked(j, E, W),
         NEW reached \in BOOLEAN, NEW why, why # "fetched",
         j.links # << >> /\ reached /\ j.kind # "fetch" => Last(j.links).cid.prev \in Ends
  PROVE  Sound(Stop(j, reached, why), E, W)
<1>. DEFINE f == Stop(j, reached, why)
            chain == add(j.stages, "chain", IF reached THEN "pass" ELSE "fail")
<1>1. /\ DOMAIN f = JobFields
      /\ SameCase(f, j)
      /\ f.links = j.links
      /\ f.reached = reached
      /\ f.step = "done"
      /\ f.why = why
      /\ f.stages = (IF j.kind = "bundle" THEN skipRest(chain) ELSE j.stages)
  BY StopIs DEF Walked
<1>. HIDE DEF f
<1>2. ASSUME j.kind = "bundle"
      PROVE  InOrder(f.stages, 7) /\ f.links # << >> /\ (Failed(f.stages) \/ Matches(f))
  <2>1. InOrder(j.stages, 6)
    BY <1>2 DEF Walked
  <2>2. InOrder(chain, 7) /\ (Failed(j.stages) => Failed(chain))
    <3>1. StageNames[6 + 1] = "chain"
      BY DEF StageNames
    <3>. QED BY <2>1, <3>1, AddInOrder DEF Statuses
  <2>3. InOrder(skipRest(chain), 7) /\ (Failed(chain) => Failed(skipRest(chain)))
    BY <2>2, SkipRestWhole
  <2>. QED BY <1>1, <1>2, <2>2, <2>3 DEF Walked, SameCase, Matches
<1>3. PathOK(f, E)
  BY <1>1 DEF Walked, SameCase, PathOK
<1>4. Shaped(f) /\ NextOK(f) /\ KeysOK(f, E, W)
  BY <1>1 DEF Walked, SameCase, Shaped, NextOK, KeysOK
<1>5. StagesOK(f) /\ HeadOK(f)
  BY <1>1, <1>2 DEF SameCase, StagesOK, HeadOK
<1>6. Sound(f, E, W)
  BY <1>3, <1>4, <1>5 DEF Sound
<1>. QED BY <1>6 DEF f

\* Before there is a history to speak of, it ends with a stage that failed.
LEMMA EarlySound ==
  ASSUME NEW j, NEW E, NEW W, NEW why, why # "fetched",
         DOMAIN j = JobFields, j.kind \in {"bundle", "trace", "fetch"},
         j.links = << >>, j.forged \subseteq W,
         NEW n \in 0 .. 7,
         j.kind = "bundle" => InOrder(j.stages, n) /\ Failed(j.stages)
  PROVE  Sound(finish(j, why), E, W)
<1>. DEFINE f == finish(j, why)
<1>1. /\ DOMAIN f = JobFields
      /\ SameCase(f, j)
      /\ f.links = << >>
      /\ f.step = "done"
      /\ f.why = why
      /\ f.stages = (IF j.kind = "bundle" THEN skipRest(j.stages) ELSE j.stages)
  BY FinishIs
<1>. HIDE DEF f
<1>2. f.kind = "bundle" => InOrder(f.stages, 7) /\ Failed(f.stages)
  BY <1>1, SkipRestWhole DEF SameCase
<1>3. PathOK(f, E)
  BY <1>1, VerifyAssumption DEF PathOK
<1>4. Shaped(f) /\ NextOK(f) /\ KeysOK(f, E, W)
  BY <1>1 DEF SameCase, Shaped, NextOK, KeysOK
<1>5. StagesOK(f) /\ HeadOK(f)
  BY <1>1, <1>2 DEF StagesOK, HeadOK
<1>6. Sound(f, E, W)
  BY <1>3, <1>4, <1>5 DEF Sound
<1>. QED BY <1>6 DEF f

\* A stage of its own that fails is such an end.
LEMMA FailAtSound ==
  ASSUME NEW j, NEW E, NEW W, NEW why, why # "fetched",
         DOMAIN j = JobFields, j.kind = "bundle",
         j.links = << >>, j.forged \subseteq W,
         NEW n \in 0 .. 6, InOrder(j.stages, n), NEW name, name = StageNames[n + 1]
  PROVE  Sound(FailAt(j, name, why), E, W)
<1>. DEFINE k == [j EXCEPT !.stages = add(@, name, "fail")]
<1>1. /\ DOMAIN k = JobFields
      /\ SameCase(k, j)
      /\ k.links = j.links
      /\ k.stages = add(j.stages, name, "fail")
  BY DEF JobFields, SameCase
<1>2. FailAt(j, name, why) = finish(k, why)
  BY DEF FailAt
<1>3. InOrder(k.stages, n + 1) /\ Failed(k.stages)
  BY <1>1, AddInOrder DEF Statuses
<1>4. n + 1 \in 0 .. 7
  OBVIOUS
<1>. HIDE DEF k
<1>. QED BY <1>1, <1>2, <1>3, <1>4, EarlySound DEF SameCase

----------------------------------------------------------------------------
(* The walk.                                                               *)

\* The record asked for is there and signed, and is the next of the path.
Arrived(j, u, r, E, W) ==
  /\ DOMAIN j = JobFields
  /\ j.kind \in {"bundle", "trace", "fetch"}
  /\ j.forged \subseteq W
  /\ ~j.reached
  /\ PathOK(j, E)
  /\ Len(j.links) <= MAX_CHAIN_DEPTH
  /\ u \in Uris
  /\ <<u, r>> \in E
  /\ RecordOK(r)
  /\ Owner[u] \notin j.forged
  /\ j.links = << >> => u = j.b.uri
  /\ j.links # << >> => LET last == Last(j.links) IN
       /\ last.cid.prev = u
       /\ last.cid.pin \in {None, r}
       /\ last.cid.public["part"] = r.public["part"]
  /\ j.kind = "bundle" =>
       /\ InOrder(j.stages, 6)
       /\ j.claimed = {Owner[j.b.uri]}
       /\ \/ Failed(j.stages)
          \/ IF j.links = << >> THEN r.root = j.b.doc /\ r.public = publicValues(j.b.doc)
             ELSE Matches(j)

\* Its link makes the path one longer.
LEMMA LinkAdded ==
  ASSUME NEW j, NEW u, NEW r, NEW E, NEW W, Arrived(j, u, r, E, W),
         NEW k, DOMAIN k = JobFields, SameCase(k, j), ~k.reached,
         NEW link \in Published(E), link.uri = u, link.cid = r,
         k.links = Append(j.links, link), k.stages = j.stages
  PROVE  /\ Walked(k, E, W)
         /\ Len(k.links) = Len(j.links) + 1
         /\ k.links # << >>
         /\ Last(k.links) = link
<1>. DEFINE L == j.links
            M == Append(L, link)
            n == Len(L)
<1>1. /\ DOMAIN k = JobFields
      /\ SameCase(k, j)
      /\ k.links = M
      /\ ~k.reached
      /\ k.stages = j.stages
  OBVIOUS
<1>2. L \in Seq(Published(E)) /\ n \in Nat
  BY DEF Arrived, PathOK
<1>3. /\ M \in Seq(Published(E))
      /\ Len(M) = n + 1
      /\ \A i \in 1 .. n : M[i] = L[i]
      /\ M[n + 1] = link
  <2>. HIDE DEF L
  <2>. QED BY <1>2
<1>4. M # << >> /\ Last(M) = link
  <2>. HIDE DEF M, L
  <2>. QED BY <1>2, <1>3 DEF Last
<1>5. n = 0 <=> L = << >>
  <2>. HIDE DEF L
  <2>. QED BY <1>2
<1>. HIDE DEF M
<1>6. M[1].uri = j.b.uri
  <2>1. CASE n = 0
    BY <2>1, <1>3, <1>5 DEF Arrived
  <2>2. CASE n # 0
    BY <2>2, <1>2, <1>3, <1>5 DEF Arrived, PathOK
  <2>. QED BY <2>1, <2>2
<1>7. \A i \in 1 .. n + 1 : Owner[M[i].uri] \notin j.forged
  <2>. TAKE i \in 1 .. n + 1
  <2>1. CASE i = n + 1
    BY <2>1, <1>3 DEF Arrived
  <2>2. CASE i # n + 1
    <3>1. i \in 1 .. n
      BY <2>2, <1>2
    <3>. QED BY <3>1, <1>3 DEF Arrived, PathOK
  <2>. QED BY <2>1, <2>2
<1>8. ASSUME NEW i \in 1 .. n
       PROVE  /\ M[i].cid.prev = M[i + 1].uri
              /\ M[i].cid.pin \in {None, M[i + 1].cid}
              /\ M[i].cid.public["part"] = M[i + 1].cid.public["part"]
  <2>1. CASE i = n
    <3>1. L # << >> /\ M[i] = Last(L) /\ M[i + 1] = link
      BY <2>1, <1>2, <1>3, <1>5 DEF Last
    <3>. QED BY <3>1 DEF Arrived
  <2>2. CASE i # n
    <3>1. i \in 1 .. n - 1 /\ i + 1 \in 1 .. n
      BY <2>2, <1>2
    <3>2. M[i] = L[i] /\ M[i + 1] = L[i + 1]
      BY <3>1, <1>3
    <3>. QED BY <3>1, <3>2 DEF Arrived, PathOK
  <2>. QED BY <2>1, <2>2
<1>9. n + 1 <= MAX_CHAIN_DEPTH + 1
  BY <1>2, VerifyAssumption DEF Arrived
<1>10. PathOK(k, E)
  <2>1. Len(M) - 1 = n
    BY <1>2, <1>3
  <2>2. k.links = M /\ k.b = j.b /\ k.forged = j.forged /\ ~k.reached
    BY <1>1 DEF SameCase
  <2>3. \A i \in 1 .. Len(M) - 1 :
          /\ M[i].cid.prev = M[i + 1].uri
          /\ M[i].cid.pin \in {None, M[i + 1].cid}
          /\ M[i].cid.public["part"] = M[i + 1].cid.public["part"]
    BY <2>1, <1>8
  <2>4. /\ Len(M) <= MAX_CHAIN_DEPTH + 1
        /\ \A i \in 1 .. Len(M) : Owner[M[i].uri] \notin k.forged
        /\ M # << >> => M[1].uri = k.b.uri
        /\ M \in Seq(Published(E))
    BY <2>2, <1>3, <1>6, <1>7, <1>9
  <2>. QED BY <2>2, <2>3, <2>4 DEF PathOK
<1>11. k.kind = "bundle" => Failed(k.stages) \/ Matches(k)
  <2>1. CASE n = 0
    BY <2>1, <1>1, <1>3, <1>5 DEF Arrived, Matches, SameCase
  <2>2. CASE n # 0
    BY <2>2, <1>1, <1>2, <1>3, <1>5 DEF Arrived, Matches, SameCase
  <2>. QED BY <2>1, <2>2
<1>12. Walked(k, E, W)
  BY <1>1, <1>4, <1>10, <1>11 DEF Walked, Arrived, SameCase
<1>. QED BY <1>1, <1>3, <1>4, <1>12

\* The walk ends there, or asks for what that record names.
LEMMA WalkSound ==
  ASSUME NEW j, NEW u, NEW r, NEW E, NEW W, Arrived(j, u, r, E, W)
  PROVE  Sound(Walk(j, u, r), E, W)
<1>. DEFINE link == [uri |-> u, cid |-> r]
            k == [j EXCEPT !.links = Append(@, link)]
            g == [k EXCEPT !.step = "did", !.at = r.prev, !.pin = r.pin]
            n == Len(j.links)
<1>1. /\ DOMAIN k = JobFields
      /\ SameCase(k, j)
      /\ ~k.reached
      /\ k.links = Append(j.links, link)
      /\ k.stages = j.stages
  BY DEF Arrived, JobFields, SameCase
<1>2. /\ DOMAIN g = JobFields
      /\ SameCase(g, j)
      /\ ~g.reached
      /\ g.links = k.links
      /\ g.stages = j.stages
      /\ g.step = "did"
      /\ g.at = r.prev
      /\ g.pin = r.pin
  BY DEF Arrived, JobFields, SameCase
<1>. DEFINE birth == Stop(k, TRUE, "birth")
            long == Stop(k, FALSE, "long")
            malformed == Stop(k, FALSE, "malformed")
            elsewhere == Stop(k, FALSE, "elsewhere")
            m == Len(k.links)
<1>3. Walk(j, u, r) =
        CASE r.prev \in Ends -> birth
          [] r.prev \notin Ends /\ m > MAX_CHAIN_DEPTH -> long
          [] r.prev = Malformed /\ m <= MAX_CHAIN_DEPTH -> malformed
          [] r.prev = Elsewhere /\ m <= MAX_CHAIN_DEPTH -> elsewhere
          [] OTHER -> g
  BY DEF Walk
<1>. HIDE DEF birth, long, malformed, elsewhere
<1>4. link \in Published(E) /\ link.uri = u /\ link.cid = r
  BY DEF Arrived, Published
<1>. HIDE DEF k, g, link
<1>5. /\ Walked(k, E, W)
      /\ m = n + 1
      /\ k.links # << >>
      /\ Last(k.links).cid = r
  <2>1. Walked(k, E, W)
    BY <1>1, <1>4, LinkAdded
  <2>2. m = n + 1
    BY <1>1, <1>4, LinkAdded
  <2>3. k.links # << >>
    BY <1>1, <1>4, LinkAdded
  <2>4. Last(k.links) = link
    BY <1>1, <1>4, LinkAdded
  <2>. QED BY <2>1, <2>2, <2>3, <2>4, <1>4
<1>6. n \in Nat /\ MAX_CHAIN_DEPTH \in Nat
  BY VerifyAssumption DEF Arrived, PathOK
<1>7. r.prev \in Ends => Sound(birth, E, W)
  BY <1>5, StopSound DEF birth
<1>8. Sound(long, E, W) /\ Sound(malformed, E, W) /\ Sound(elsewhere, E, W)
  BY <1>5, StopSound DEF long, malformed, elsewhere
<1>9. ASSUME r.prev \notin Ends \cup {Malformed, Elsewhere}, n + 1 <= MAX_CHAIN_DEPTH
      PROVE  Sound(g, E, W)
  <2>1. PathOK(g, E)
    BY <1>1, <1>2, <1>5, ZenonT(60) DEF Walked, PathOK, SameCase
  <2>2. r.prev \in Uris
    BY <1>9 DEF Arrived, RecordOK, Ends
  <2>3. NextOK(g)
    BY <2>2, <1>2, <1>5, <1>6, <1>9 DEF NextOK
  <2>4. Shaped(g) /\ KeysOK(g, E, W)
    BY <1>2 DEF Arrived, Shaped, KeysOK, SameCase
  <2>5. StagesOK(g) /\ HeadOK(g)
    BY <1>1, <1>2, <1>5 DEF Arrived, Walked, StagesOK, HeadOK, SameCase, Matches
  <2>. QED BY <2>1, <2>3, <2>4, <2>5 DEF Sound
<1>10. m \in Nat
  BY <1>5, <1>6
<1>. HIDE DEF m
<1>. QED BY <1>3, <1>5, <1>6, <1>7, <1>8, <1>9, <1>10

\* Between two questions about a predecessor, or about a record of no document.
LEMMA SoundWalked ==
  ASSUME NEW j, NEW E, NEW W, Sound(j, E, W), ~AtHead(j),
         j.step \in {"did", "proof", "check"}
  PROVE  Walked(j, E, W)
<1>1. j.kind = "bundle" => j.links # << >>
  BY DEF AtHead
<1>. QED BY <1>1 DEF Sound, Shaped, KeysOK, StagesOK, HeadOK, Walked

\* A predecessor that was there and signed.
LEMMA FollowSound ==
  ASSUME NEW j, NEW E, NEW W, Sound(j, E, W), j.step = "check", j.links # << >>,
         Owner[j.at] \notin j.forged, NEW r,
         r # None => <<j.at, r>> \in E /\ RecordOK(r)
  PROVE  Sound(Follow(j, r), E, W)
<1>1. Walked(j, E, W)
  BY SoundWalked DEF AtHead
<1>2. \A why : why # "fetched" => Sound(Stop(j, FALSE, why), E, W)
  BY <1>1, StopSound
<1>3. ASSUME r # None, j.pin \in {None, r},
             r.public["part"] = Last(j.links).cid.public["part"]
      PROVE  Sound(Walk(j, j.at, r), E, W)
  <2>1. Arrived(j, j.at, r, E, W)
    BY <1>1, <1>3 DEF Sound, Shaped, NextOK, StagesOK, HeadOK, Walked, Arrived
  <2>. QED BY <2>1, WalkSound
<1>. QED BY <1>2, <1>3 DEF Follow, Last

----------------------------------------------------------------------------
(* The record of the document.                                             *)

\* A document that agrees with a record field by field has its public fields: a
\* record has no blank one.
LEMMA AgreesExactly ==
  ASSUME NEW r, RecordOK(r), NEW doc,
         \A f \in DOMAIN r.public : r.public[f] = doc[f]
  PROVE  r.public = publicValues(doc)
BY DEF RecordOK, publicValues

\* Whatever it is checked for fails, or it is the one the document opens.
LEMMA HeadChecked ==
  ASSUME NEW k, NEW r, RecordOK(r), InOrder(k.stages, 3)
  PROVE  LET p == Physical(Agree(Recompute(k, r), k, r), k, r) IN
         /\ InOrder(p, 6)
         /\ Failed(p) \/ (r.root = k.b.doc /\ r.public = publicValues(k.b.doc))
<1>. DEFINE rs == IF r.root = k.b.doc THEN "pass" ELSE "fail"
            as == IF \A f \in DOMAIN r.public : r.public[f] = k.b.doc[f] THEN "pass" ELSE "fail"
            ps == IF k.stamped = None THEN "skipped"
                  ELSE IF k.stamped = r.public["part"] THEN "pass" ELSE "fail"
            s4 == add(k.stages, "recompute", rs)
            s5 == add(s4, "agree", as)
            s6 == add(s5, "physical", ps)
<1>1. s4 = Recompute(k, r) /\ s5 = Agree(s4, k, r) /\ s6 = Physical(s5, k, r)
  BY DEF Recompute, Agree, Physical
<1>2. rs \in Statuses /\ as \in Statuses /\ ps \in Statuses
  BY DEF Statuses
<1>3. StageNames[3 + 1] = "recompute" /\ StageNames[4 + 1] = "agree"
      /\ StageNames[5 + 1] = "physical"
  BY DEF StageNames
<1>4. (rs = "fail" \/ r.root = k.b.doc) /\ (as = "fail" \/ r.public = publicValues(k.b.doc))
  BY AgreesExactly
<1>. HIDE DEF rs, as, ps
<1>5. InOrder(s4, 4) /\ (rs = "fail" => Failed(s4))
  BY <1>2, <1>3, AddInOrder
<1>. HIDE DEF s4
<1>6. InOrder(s5, 5) /\ (Failed(s4) => Failed(s5)) /\ (as = "fail" => Failed(s5))
  <2>1. 4 \in 0 .. 6 /\ 4 + 1 = 5
    OBVIOUS
  <2>2. InOrder(s5, 4 + 1) /\ (Failed(s4) => Failed(s5))
    BY <1>2, <1>3, <1>5, <2>1, AddInOrder
  <2>3. as = "fail" => Failed(s5)
    BY <1>2, <1>3, <1>5, <2>1, AddInOrder
  <2>. QED BY <2>1, <2>2, <2>3
<1>. HIDE DEF s5
<1>7. InOrder(s6, 6) /\ (Failed(s5) => Failed(s6))
  BY <1>2, <1>3, <1>6, AddInOrder
<1>. HIDE DEF s6
<1>. QED BY <1>1, <1>4, <1>5, <1>6, <1>7

LEMMA FetchedAndSigned ==
  ASSUME NEW s, InOrder(s, 1), NEW a \in Statuses, NEW b \in Statuses
  PROVE  LET t == add(add(s, "fetch", a), "signature", b) IN
         /\ InOrder(t, 3)
         /\ a = "fail" => Failed(t)
<1>. DEFINE s2 == add(s, "fetch", a)
            s3 == add(s2, "signature", b)
<1>1. StageNames[1 + 1] = "fetch" /\ StageNames[2 + 1] = "signature"
  BY DEF StageNames
<1>2. InOrder(s2, 2) /\ (a = "fail" => Failed(s2))
  BY <1>1, AddInOrder
<1>. HIDE DEF s2
<1>3. InOrder(s3, 3) /\ (Failed(s2) => Failed(s3))
  BY <1>1, <1>2, AddInOrder
<1>. HIDE DEF s3
<1>. QED BY <1>2, <1>3 DEF s3, s2

\* Its proof came: it does not verify, proves the record absent, or the record
\* is checked and the walk begins.
LEMMA CheckHeadSound ==
  ASSUME NEW j, NEW E, NEW W, Sound(j, E, W), j.step = "proof", AtHead(j),
         NEW proof, proof.key # WrongKey(Owner[j.at]),
         proof.record # None => <<j.at, proof.record>> \in E /\ RecordOK(proof.record)
  PROVE  Sound(CheckHead(j, proof), E, W)
<1>. DEFINE stagesOf(a, b) == add(add(j.stages, "fetch", a), "signature", b)
            with(s) == [j EXCEPT !.stages = s]
            dated == IF j.dated THEN "pass" ELSE "warn"
            k == with(stagesOf("pass", dated))
            r == proof.record
            p == Physical(Agree(Recompute(k, r), k, r), k, r)
            h == [k EXCEPT !.stages = p]
<1>1. InOrder(j.stages, 1) /\ j.kind = "bundle" /\ j.links = << >>
  BY DEF Sound, StagesOK, AtHead
<1>2. \A s : /\ DOMAIN with(s) = JobFields
             /\ SameCase(with(s), j)
             /\ with(s).links = << >>
             /\ with(s).stages = s
  BY <1>1 DEF Sound, Shaped, JobFields, SameCase
<1>3. \A a, b \in Statuses : InOrder(stagesOf(a, b), 3) /\ (a = "fail" => Failed(stagesOf(a, b)))
  BY <1>1, FetchedAndSigned
<1>4. "fail" \in Statuses /\ "pass" \in Statuses /\ dated \in Statuses
  BY DEF Statuses
<1>5. ASSUME NEW b \in Statuses, NEW why, why # "fetched"
      PROVE  Sound(finish(with(stagesOf("fail", b)), why), E, W)
  <2>. DEFINE s == stagesOf("fail", b)
              g == with(s)
  <2>1. InOrder(s, 3) /\ Failed(s)
    BY <1>3, <1>4
  <2>2. DOMAIN g = JobFields /\ SameCase(g, j) /\ g.links = << >> /\ g.stages = s
    BY <1>2
  <2>. HIDE DEF g, s
  <2>3. g.kind \in {"bundle", "trace", "fetch"} /\ g.forged \subseteq W
    BY <2>2 DEF Sound, Shaped, KeysOK, SameCase
  <2>4. Sound(finish(g, why), E, W)
    BY <2>1, <2>2, <2>3, <1>5, EarlySound
  <2>. QED BY <2>4 DEF g, s
<1>6. ASSUME proof.key \in j.keys, r # None
      PROVE  Sound(Walk(h, j.at, r), E, W)
  <2>1. Owner[j.at] \notin j.forged
    BY <1>6 DEF Sound, KeysOK
  <2>2. DOMAIN k = JobFields /\ SameCase(k, j) /\ k.stages = stagesOf("pass", dated)
    BY <1>2
  <2>3. InOrder(k.stages, 3)
    BY <2>2, <1>3, <1>4
  <2>4. /\ DOMAIN h = JobFields
        /\ SameCase(h, j)
        /\ h.links = << >>
        /\ h.reached = j.reached
        /\ h.stages = p
    BY <1>1 DEF Sound, Shaped, JobFields, SameCase
  <2>. HIDE DEF k
  <2>5. InOrder(p, 6) /\ (Failed(p) \/ (r.root = k.b.doc /\ r.public = publicValues(k.b.doc)))
    BY <2>3, <1>6, HeadChecked
  <2>. HIDE DEF h, p
  <2>6. Arrived(h, j.at, r, E, W)
    <3>1. h.forged \subseteq W /\ ~h.reached /\ PathOK(h, E) /\ Len(h.links) <= MAX_CHAIN_DEPTH
      <4>1. h.forged \subseteq W /\ ~h.reached
        BY <2>4 DEF Sound, KeysOK, NextOK, SameCase
      <4>2. Len(h.links) = 0 /\ h.links \in Seq(Published(E))
        BY <2>4
      <4>3. PathOK(h, E)
        BY <2>4, <4>2, VerifyAssumption DEF PathOK
      <4>. QED BY <4>1, <4>2, <4>3, VerifyAssumption
    <3>2. j.at \in Uris /\ j.at = h.b.uri /\ Owner[j.at] \notin h.forged
      BY <2>1, <2>4, <1>1 DEF Sound, NextOK, SameCase
    <3>3. h.claimed = {Owner[h.b.uri]}
      BY <2>4, <1>1 DEF Sound, HeadOK, SameCase
    <3>. QED BY <2>2, <2>4, <2>5, <3>1, <3>2, <3>3, <1>1, <1>6 DEF Arrived, SameCase
  <2>. QED BY <2>6, WalkSound
<1>7. CASE proof.key \notin j.keys
  BY <1>4, <1>5, <1>7 DEF CheckHead, verifyWithAnyKey
<1>8. CASE proof.key \in j.keys /\ r = None
  BY <1>4, <1>5, <1>8 DEF CheckHead, verifyWithAnyKey
<1>9. CASE proof.key \in j.keys /\ r # None
  BY <1>6, <1>9 DEF CheckHead, verifyWithAnyKey
<1>. QED BY <1>7, <1>8, <1>9

\* The first record of a history, or a record alone.
LEMMA FirstSound ==
  ASSUME NEW j, NEW E, NEW W, Sound(j, E, W), j.step = "check", j.links = << >>,
         Owner[j.at] \notin j.forged, NEW r,
         r # None => <<j.at, r>> \in E /\ RecordOK(r)
  PROVE  Sound(IF j.kind = "trace" THEN TraceRecord(j, r) ELSE FetchRecord(j, r), E, W)
<1>1. j.kind # "bundle"
  BY DEF Sound, StagesOK
<1>2. DOMAIN j = JobFields /\ j.kind \in {"bundle", "trace", "fetch"} /\ j.forged \subseteq W
  BY DEF Sound, Shaped, KeysOK
<1>3. Sound(finish(j, "absent"), E, W)
  <2>1. 0 \in 0 .. 7
    OBVIOUS
  <2>. QED BY <1>1, <1>2, <2>1, EarlySound
<1>4. ASSUME r # None
      PROVE  Sound(Walk(j, j.at, r), E, W)
  <2>1. Arrived(j, j.at, r, E, W)
    BY <1>1, <1>2, <1>4 DEF Sound, NextOK, Arrived
  <2>. QED BY <2>1, WalkSound
<1>5. ASSUME r # None, j.kind # "trace"
      PROVE  Sound(FetchRecord(j, r), E, W)
  <2>. DEFINE link == [uri |-> j.at, cid |-> r]
              k == [j EXCEPT !.reached = r.root # None, !.links = <<link>>]
              f == finish(k, "fetched")
  <2>1. /\ DOMAIN k = JobFields
        /\ SameCase(k, j)
        /\ k.links = <<link>>
    BY <1>2 DEF JobFields, SameCase
  <2>2. link \in Published(E) /\ link.uri = j.b.uri /\ link.uri = j.at
    BY <1>5 DEF Published, Sound, NextOK
  <2>3. FetchRecord(j, r) = f
    BY <1>5 DEF FetchRecord
  <2>. HIDE DEF k, link
  <2>4. /\ DOMAIN f = JobFields
        /\ SameCase(f, j)
        /\ f.links = <<link>>
        /\ f.step = "done"
        /\ f.why = "fetched"
    BY <2>1, FinishIs DEF SameCase
  <2>. HIDE DEF f
  <2>5. /\ <<link>> \in Seq(Published(E))
        /\ Len(<<link>>) = 1
        /\ <<link>>[1] = link
        /\ <<link>> # << >>
    BY <2>2
  <2>6. f.kind = "fetch" /\ f.forged \subseteq W /\ Owner[link.uri] \notin f.forged
    BY <1>1, <1>2, <1>5, <2>2, <2>4 DEF SameCase
  <2>7. PathOK(f, E)
    <3>1. f.links \in Seq(Published(E)) /\ Len(f.links) = 1 /\ f.links[1] = link
      BY <2>4, <2>5
    <3>2. f.b = j.b
      BY <2>4 DEF SameCase
    <3>3. 1 <= MAX_CHAIN_DEPTH + 1
      BY VerifyAssumption
    <3>4. \A i \in 1 .. 1 : Owner[f.links[i].uri] \notin f.forged
      BY <2>6, <3>1
    <3>5. f.links[1].uri = f.b.uri /\ Len(f.links) - 1 = 0 /\ f.kind = "fetch"
      <4>1. f.links[1].uri = f.b.uri
        BY <2>2, <3>1, <3>2
      <4>2. Len(f.links) - 1 = 0
        BY <3>1
      <4>. QED BY <4>1, <4>2, <2>6
    <3>. HIDE DEF f
    <3>. QED BY <3>1, <3>3, <3>4, <3>5 DEF PathOK
  <2>8. Shaped(f) /\ NextOK(f) /\ KeysOK(f, E, W) /\ StagesOK(f) /\ HeadOK(f)
    BY <2>4, <2>5, <2>6 DEF Shaped, NextOK, KeysOK, StagesOK, HeadOK
  <2>. QED BY <2>3, <2>7, <2>8 DEF Sound
<1>. QED BY <1>3, <1>4, <1>5 DEF TraceRecord, FetchRecord

----------------------------------------------------------------------------
(* Steps of the verification.                                              *)

\* The same verification, but for whether the network has kept quiet and for how
\* much has been published since.
SameJob(f, j) ==
  /\ DOMAIN f = DOMAIN j
  /\ SameCase(f, j)
  /\ f.step = j.step
  /\ f.at = j.at
  /\ f.pin = j.pin
  /\ f.seen = j.seen
  /\ f.keys = j.keys
  /\ f.proof = j.proof
  /\ f.links = j.links
  /\ f.stages = j.stages
  /\ f.reached = j.reached
  /\ f.why = j.why

LEMMA QuietIsSame ==
  ASSUME NEW j, DOMAIN j = JobFields, NEW quiet
  PROVE  SameJob([j EXCEPT !.quiet = quiet], j)
BY DEF SameJob, SameCase, JobFields

LEMMA PublishedGrows ==
  ASSUME NEW E, NEW F, E \subseteq F, NEW L \in Seq(Published(E))
  PROVE  L \in Seq(Published(F))
<1>1. Published(E) \subseteq Published(F)
  BY DEF Published
<1>. DEFINE S == Published(E)
            T == Published(F)
<1>. HIDE DEF S, T
<1>2. S \subseteq T /\ L \in Seq(S)
  BY <1>1 DEF S, T
<1>3. L \in Seq(T)
  BY <1>2
<1>. QED BY <1>3 DEF T

LEMMA SoundStays ==
  ASSUME NEW j, NEW f, NEW E, NEW F, NEW V, NEW W, Sound(j, E, V), SameJob(f, j),
         E \subseteq F, V \subseteq W
  PROVE  Sound(f, F, W)
<1>1. PathOK(f, F)
  <2>1. PathOK(j, E)
    BY DEF Sound
  <2>2. f.links \in Seq(Published(F))
    BY <2>1, PublishedGrows DEF PathOK, SameJob
  <2>. QED BY <2>1, <2>2 DEF PathOK, SameJob, SameCase
<1>2. Shaped(f)
  BY DEF Sound, Shaped, SameJob, SameCase
<1>3. NextOK(f)
  BY DEF Sound, NextOK, SameJob, SameCase
<1>4. KeysOK(f, F, W)
  BY DEF Sound, KeysOK, AtHead, SameJob, SameCase
<1>5. StagesOK(f)
  BY DEF Sound, StagesOK, SameJob, SameCase
<1>6. HeadOK(f)
  BY DEF Sound, HeadOK, Matches, SameJob, SameCase
<1>. QED BY <1>1, <1>2, <1>3, <1>4, <1>5, <1>6 DEF Sound

LEMMA StepSound ==
  ASSUME WorldOK, NEW failed, NEW next, Step(failed, next), Sound(next, ever, impostors)
  PROVE  VerifyInv'
<1>1. WorldOK'
  BY DEF Step, WorldOK, world, RecordOK
<1>2. SameJob(job', next)
  BY QuietIsSame DEF Step, Sound, Shaped
<1>3. ever' = ever /\ impostors' = impostors
  BY DEF Step, world
<1>4. Sound(job', ever', impostors')
  BY <1>2, <1>3, SoundStays
<1>. QED BY <1>1, <1>4 DEF VerifyInv

LEMMA ResolveHandleSound ==
  ASSUME WorldOK, Sound(job, ever, impostors), ResolveHandle
  PROVE  VerifyInv'
<1>1. PICK failed \in BOOLEAN :
        LET did == Asked(resolveHandle(job.b.handle), failed)
            j == [job EXCEPT !.claimed = {did}]
        IN  Step(failed, IF did = Owner[job.b.uri] THEN [j EXCEPT !.step = "did"]
                         ELSE FailAt(j, "resolve", "handle"))
  BY DEF ResolveHandle
<1>. DEFINE did == Asked(resolveHandle(job.b.handle), failed)
            j == [job EXCEPT !.claimed = {did}]
            f == [j EXCEPT !.step = "did"]
            g == FailAt(j, "resolve", "handle")
<1>2. job.step = "handle" /\ job.kind = "bundle" /\ job.links = << >> /\ InOrder(job.stages, 0)
  BY DEF ResolveHandle, Sound, Shaped, StagesOK
<1>3. /\ DOMAIN j = JobFields
      /\ j.kind = job.kind /\ j.links = job.links /\ j.stages = job.stages
      /\ j.forged = job.forged
  BY DEF Sound, Shaped, JobFields
<1>4. ASSUME did = Owner[job.b.uri]
      PROVE  Sound(f, ever, impostors)
  <2>1. /\ DOMAIN f = JobFields
        /\ f.kind = job.kind /\ f.b = job.b /\ f.forged = job.forged
        /\ f.claimed = {Owner[job.b.uri]}
        /\ f.step = "did" /\ f.at = job.at /\ f.links = job.links /\ f.stages = job.stages
        /\ f.reached = job.reached /\ f.why = job.why
    BY <1>4 DEF Sound, Shaped, JobFields
  <2>. HIDE DEF f
  <2>2. Shaped(f) /\ PathOK(f, ever) /\ NextOK(f)
    BY <1>2, <2>1 DEF Sound, Shaped, PathOK, NextOK
  <2>3. KeysOK(f, ever, impostors) /\ StagesOK(f) /\ HeadOK(f)
    BY <1>2, <2>1 DEF Sound, KeysOK, StagesOK, HeadOK
  <2>. QED BY <2>2, <2>3 DEF Sound
<1>5. Sound(g, ever, impostors)
  <2>1. "resolve" = StageNames[0 + 1] /\ 0 \in 0 .. 6
    BY DEF StageNames
  <2>2. j.forged \subseteq impostors
    BY <1>3 DEF Sound, KeysOK
  <2>. HIDE DEF j
  <2>. QED BY <1>2, <1>3, <2>1, <2>2, FailAtSound
<1>6. Step(failed, IF did = Owner[job.b.uri] THEN f ELSE g)
  BY <1>1
<1>. HIDE DEF did, f, g
<1>7. Sound(IF did = Owner[job.b.uri] THEN f ELSE g, ever, impostors)
  BY <1>4, <1>5
<1>. QED BY <1>6, <1>7, StepSound

LEMMA ResolveDidSound ==
  ASSUME WorldOK, Sound(job, ever, impostors), ResolveDid
  PROVE  VerifyInv'
<1>1. PICK failed \in BOOLEAN :
        LET id == Asked(resolveDid(Owner[job.at]), failed)
        IN  Step(failed,
              IF id = None THEN FailAt(job, "resolve", "identity")
              ELSE [job EXCEPT !.seen = id.signingKey, !.step = "keys", !.anchor = rotations,
                               !.stages = add(@, "resolve", "pass")])
  BY DEF ResolveDid
<1>. DEFINE id == Asked(resolveDid(Owner[job.at]), failed)
            f == [job EXCEPT !.seen = id.signingKey, !.step = "keys", !.anchor = rotations,
                             !.stages = add(@, "resolve", "pass")]
            g == FailAt(job, "resolve", "identity")
<1>2. job.step = "did" /\ job.kind = "bundle" /\ job.links = << >> /\ InOrder(job.stages, 0)
  BY DEF ResolveDid, AtDocument, Sound, StagesOK
<1>3. "resolve" = StageNames[0 + 1] /\ 0 \in 0 .. 6 /\ "pass" \in Statuses
  BY DEF StageNames, Statuses
<1>4. ASSUME id # None
      PROVE  Sound(f, ever, impostors)
  <2>1. Owner[job.at] \in impostors => id.signingKey = WrongKey(Owner[job.at])
    BY <1>4 DEF Asked, resolveDid
  <2>2. InOrder(add(job.stages, "resolve", "pass"), 1)
    BY <1>2, <1>3, AddInOrder
  <2>3. /\ DOMAIN f = JobFields
        /\ f.kind = job.kind /\ f.b = job.b /\ f.forged = job.forged /\ f.claimed = job.claimed
        /\ f.step = "keys" /\ f.at = job.at /\ f.links = job.links
        /\ f.stages = add(job.stages, "resolve", "pass") /\ f.seen = id.signingKey
        /\ f.reached = job.reached /\ f.why = job.why
    BY DEF Sound, Shaped, JobFields
  <2>. HIDE DEF f, id
  <2>4. Shaped(f) /\ PathOK(f, ever) /\ NextOK(f)
    BY <1>2, <2>3 DEF Sound, Shaped, PathOK, NextOK
  <2>5. KeysOK(f, ever, impostors) /\ StagesOK(f) /\ HeadOK(f)
    BY <1>2, <2>1, <2>2, <2>3 DEF Sound, KeysOK, StagesOK, HeadOK
  <2>. QED BY <2>4, <2>5 DEF Sound
<1>5. Sound(g, ever, impostors)
  <2>1. job.forged \subseteq impostors /\ DOMAIN job = JobFields
    BY DEF Sound, KeysOK, Shaped
  <2>. QED BY <1>2, <1>3, <2>1, FailAtSound
<1>6. Step(failed, IF id = None THEN g ELSE f)
  BY <1>1
<1>. HIDE DEF id, f, g
<1>7. Sound(IF id = None THEN g ELSE f, ever, impostors)
  BY <1>4, <1>5
<1>. QED BY <1>6, <1>7, StepSound

LEMMA ResolveNextSound ==
  ASSUME WorldOK, Sound(job, ever, impostors), ResolveNext
  PROVE  VerifyInv'
<1>1. PICK failed \in BOOLEAN :
        LET id == Asked(resolveDid(Owner[job.at]), failed)
        IN  Step(failed, IF id = None THEN Stop(job, FALSE, "identity")
                         ELSE [job EXCEPT !.seen = id.signingKey, !.step = "proof"])
  BY DEF ResolveNext
<1>. DEFINE id == Asked(resolveDid(Owner[job.at]), failed)
            f == [job EXCEPT !.seen = id.signingKey, !.step = "proof"]
            g == Stop(job, FALSE, "identity")
<1>2. job.step = "did" /\ ~AtHead(job)
  BY DEF ResolveNext, AtDocument, AtHead
<1>3. ASSUME id # None
      PROVE  Sound(f, ever, impostors)
  <2>1. Owner[job.at] \in impostors => id.signingKey = WrongKey(Owner[job.at])
    BY <1>3 DEF Asked, resolveDid
  <2>2. /\ DOMAIN f = JobFields
        /\ f.kind = job.kind /\ f.b = job.b /\ f.forged = job.forged /\ f.claimed = job.claimed
        /\ f.step = "proof" /\ f.at = job.at /\ f.pin = job.pin /\ f.links = job.links
        /\ f.stages = job.stages /\ f.seen = id.signingKey
        /\ f.reached = job.reached /\ f.why = job.why
    BY DEF Sound, Shaped, JobFields
  <2>. HIDE DEF f, id
  <2>3. Shaped(f) /\ PathOK(f, ever) /\ NextOK(f)
    BY <1>2, <2>2 DEF Sound, Shaped, PathOK, NextOK
  <2>4. KeysOK(f, ever, impostors)
    BY <1>2, <2>1, <2>2 DEF Sound, KeysOK, AtHead
  <2>5. StagesOK(f) /\ HeadOK(f)
    BY <1>2, <2>2 DEF Sound, StagesOK, HeadOK, Matches, AtHead
  <2>. QED BY <2>3, <2>4, <2>5 DEF Sound
<1>4. Sound(g, ever, impostors)
  BY <1>2, SoundWalked, StopSound
<1>5. Step(failed, IF id = None THEN g ELSE f)
  BY <1>1
<1>. HIDE DEF id, f, g
<1>6. Sound(IF id = None THEN g ELSE f, ever, impostors)
  BY <1>3, <1>4
<1>. QED BY <1>5, <1>6, StepSound

\* The keys that may verify for a server known to be an impostor: its own.
LEMMA KeysKnown ==
  ASSUME Sound(job, ever, impostors), job.step \in {"keys", "check"},
         Owner[job.at] \in job.forged, NEW failed
  PROVE  KeysOr(Asked(signingKeysAt(Owner[job.at], job.anchor), failed))
           \subseteq {WrongKey(Owner[job.at])}
<1>1. job.seen = WrongKey(Owner[job.at]) /\ Owner[job.at] \in impostors
  BY DEF Sound, KeysOK
<1>2. \/ KeysOr(Asked(signingKeysAt(Owner[job.at], job.anchor), failed)) = {job.seen}
      \/ KeysOr(Asked(signingKeysAt(Owner[job.at], job.anchor), failed))
           = {WrongKey(Owner[job.at])}
  BY <1>1 DEF KeysOr, Asked, signingKeysAt
<1>. QED BY <1>1, <1>2

\* A proof is signed with a key the organization has published, and what it
\* proves was published.
LEMMA ProofKnown ==
  ASSUME WorldOK, NEW u \in Uris
  PROVE  /\ getRecordProof(u).key # WrongKey(Owner[u])
         /\ LET r == getRecordProof(u).record
            IN  r # None => <<u, r>> \in ever /\ RecordOK(r)
<1>1. rotations[Owner[u]] \in Nat
  BY VerifyAssumption DEF WorldOK, Uris
<1>2. getRecordProof(u).key # WrongKey(Owner[u])
  BY <1>1 DEF getRecordProof, Key, WrongKey
<1>3. repo[u] # None => <<u, repo[u]>> \in ever /\ RecordOK(repo[u])
  BY DEF WorldOK
<1>. QED BY <1>2, <1>3 DEF getRecordProof

LEMMA AskKeysSound ==
  ASSUME WorldOK, Sound(job, ever, impostors), AskKeys
  PROVE  VerifyInv'
<1>1. PICK failed \in BOOLEAN :
        LET keys == Asked(signingKeysAt(Owner[job.at], job.anchor), failed)
        IN  Step(failed, [job EXCEPT !.keys = KeysOr(keys), !.step = "proof",
                                     !.dated = keys # None])
  BY DEF AskKeys
<1>. DEFINE keys == Asked(signingKeysAt(Owner[job.at], job.anchor), failed)
            f == [job EXCEPT !.keys = KeysOr(keys), !.step = "proof", !.dated = keys # None]
<1>2. job.step = "keys" /\ job.kind = "bundle" /\ job.links = << >> /\ InOrder(job.stages, 1)
  BY DEF AskKeys, Sound, Shaped, StagesOK
<1>3. Owner[job.at] \in job.forged => KeysOr(keys) \subseteq {WrongKey(Owner[job.at])}
  BY <1>2, KeysKnown
<1>. HIDE DEF keys
<1>4. /\ DOMAIN f = JobFields
      /\ f.kind = job.kind /\ f.b = job.b /\ f.forged = job.forged /\ f.claimed = job.claimed
      /\ f.step = "proof" /\ f.at = job.at /\ f.links = job.links
      /\ f.stages = job.stages /\ f.keys = KeysOr(keys)
      /\ f.reached = job.reached /\ f.why = job.why
  BY DEF Sound, Shaped, JobFields
<1>5. Step(failed, f)
  BY <1>1 DEF keys
<1>. HIDE DEF f
<1>6. Shaped(f) /\ PathOK(f, ever) /\ NextOK(f)
  BY <1>2, <1>4 DEF Sound, Shaped, PathOK, NextOK
<1>7. KeysOK(f, ever, impostors)
  BY <1>2, <1>3, <1>4 DEF Sound, KeysOK, AtHead
<1>8. StagesOK(f) /\ HeadOK(f)
  BY <1>2, <1>4 DEF Sound, StagesOK, HeadOK
<1>9. Sound(f, ever, impostors)
  BY <1>6, <1>7, <1>8 DEF Sound
<1>. QED BY <1>5, <1>9, StepSound

LEMMA AskProofSound ==
  ASSUME WorldOK, Sound(job, ever, impostors), AskProof
  PROVE  VerifyInv'
<1>1. PICK failed \in BOOLEAN :
        LET proof == Asked(getRecordProof(job.at), failed)
        IN  Step(failed, IF proof = None THEN FailAt(job, "fetch", "unreachable")
                         ELSE CheckHead(job, proof))
  BY DEF AskProof
<1>. DEFINE proof == Asked(getRecordProof(job.at), failed)
            g == FailAt(job, "fetch", "unreachable")
            h == CheckHead(job, proof)
<1>2. job.step = "proof" /\ AtHead(job) /\ InOrder(job.stages, 1)
  BY DEF AskProof, AtDocument, AtHead, Sound, StagesOK
<1>3. job.at \in Uris
  BY <1>2 DEF Sound, NextOK
<1>4. proof # None => proof = getRecordProof(job.at)
  BY DEF Asked
<1>. HIDE DEF proof
<1>5. proof # None => Sound(h, ever, impostors)
  BY <1>2, <1>3, <1>4, ProofKnown, CheckHeadSound
<1>6. Sound(g, ever, impostors)
  <2>1. "fetch" = StageNames[1 + 1] /\ 1 \in 0 .. 6
    BY DEF StageNames
  <2>2. job.forged \subseteq impostors /\ DOMAIN job = JobFields
    BY DEF Sound, KeysOK, Shaped
  <2>. QED BY <1>2, <2>1, <2>2, FailAtSound DEF AtHead
<1>7. Step(failed, IF proof = None THEN g ELSE h)
  BY <1>1 DEF proof
<1>. HIDE DEF g, h
<1>8. Sound(IF proof = None THEN g ELSE h, ever, impostors)
  BY <1>5, <1>6
<1>. QED BY <1>7, <1>8, StepSound

LEMMA AskNextSound ==
  ASSUME WorldOK, Sound(job, ever, impostors), AskNext
  PROVE  VerifyInv'
<1>1. PICK failed \in BOOLEAN :
        LET proof == Asked(getRecordProof(job.at), failed)
        IN  Step(failed, IF proof = None THEN Stop(job, FALSE, "unreachable")
                         ELSE [job EXCEPT !.proof = proof, !.step = "check",
                                          !.anchor = IF job.kind = "fetch" THEN rotations
                                                     ELSE @])
  BY DEF AskNext
<1>. DEFINE proof == Asked(getRecordProof(job.at), failed)
            f == [job EXCEPT !.proof = proof, !.step = "check",
                             !.anchor = IF job.kind = "fetch" THEN rotations ELSE @]
            g == Stop(job, FALSE, "unreachable")
<1>2. job.step = "proof" /\ ~AtHead(job)
  BY DEF AskNext, AtDocument, AtHead
<1>3. job.at \in Uris
  BY <1>2 DEF Sound, NextOK
<1>4. ASSUME proof # None
      PROVE  Sound(f, ever, impostors)
  <2>1. proof = getRecordProof(job.at)
    BY <1>4 DEF Asked
  <2>. HIDE DEF proof
  <2>2. /\ proof.key # WrongKey(Owner[job.at])
        /\ proof.record # None => <<job.at, proof.record>> \in ever
    BY <2>1, <1>3, ProofKnown
  <2>3. /\ DOMAIN f = JobFields
        /\ f.kind = job.kind /\ f.b = job.b /\ f.forged = job.forged /\ f.claimed = job.claimed
        /\ f.step = "check" /\ f.at = job.at /\ f.pin = job.pin /\ f.links = job.links
        /\ f.stages = job.stages /\ f.seen = job.seen /\ f.proof = proof
        /\ f.reached = job.reached /\ f.why = job.why
    BY DEF Sound, Shaped, JobFields
  <2>. HIDE DEF f
  <2>4. Shaped(f) /\ PathOK(f, ever) /\ NextOK(f)
    BY <1>2, <2>3 DEF Sound, Shaped, PathOK, NextOK
  <2>5. KeysOK(f, ever, impostors)
    BY <1>2, <2>2, <2>3 DEF Sound, KeysOK, AtHead
  <2>6. StagesOK(f) /\ HeadOK(f)
    BY <1>2, <2>3 DEF Sound, StagesOK, HeadOK, Matches, AtHead
  <2>. QED BY <2>4, <2>5, <2>6 DEF Sound
<1>5. Sound(g, ever, impostors)
  BY <1>2, SoundWalked, StopSound
<1>6. Step(failed, IF proof = None THEN g ELSE f)
  BY <1>1
<1>. HIDE DEF proof, f, g
<1>7. Sound(IF proof = None THEN g ELSE f, ever, impostors)
  BY <1>4, <1>5
<1>. QED BY <1>6, <1>7, StepSound

LEMMA CheckProofSound ==
  ASSUME WorldOK, Sound(job, ever, impostors), CheckProof
  PROVE  VerifyInv'
<1>. DEFINE first == IF job.kind = "trace" THEN TraceRecord(job, job.proof.record)
                     ELSE FetchRecord(job, job.proof.record)
            next(keys) ==
              CASE ~verifyWithAnyKey(job.proof, keys) -> Stop(job, FALSE, "unsigned")
                [] verifyWithAnyKey(job.proof, keys) /\ job.links # << >> ->
                     Follow(job, job.proof.record)
                [] verifyWithAnyKey(job.proof, keys) /\ job.links = << >> -> first
<1>1. PICK failed \in BOOLEAN :
        Step(failed, next(KeysOr(Asked(signingKeysAt(Owner[job.at], job.anchor), failed))))
  BY DEF CheckProof
<1>. DEFINE keys == KeysOr(Asked(signingKeysAt(Owner[job.at], job.anchor), failed))
            r == job.proof.record
            unsigned == Stop(job, FALSE, "unsigned")
            follow == Follow(job, r)
<1>2. job.step = "check" /\ ~AtHead(job)
  BY DEF CheckProof, Sound, StagesOK, AtHead
<1>3. /\ job.proof.key # WrongKey(Owner[job.at])
      /\ r # None => <<job.at, r>> \in ever /\ RecordOK(r)
  BY <1>2 DEF Sound, KeysOK, WorldOK
<1>4. verifyWithAnyKey(job.proof, keys) => Owner[job.at] \notin job.forged
  <2>1. Owner[job.at] \in job.forged => keys \subseteq {WrongKey(Owner[job.at])}
    BY <1>2, KeysKnown
  <2>. HIDE DEF keys
  <2>. QED BY <2>1, <1>3 DEF verifyWithAnyKey
<1>. HIDE DEF keys
<1>5. Sound(unsigned, ever, impostors)
  BY <1>2, SoundWalked, StopSound
<1>6. verifyWithAnyKey(job.proof, keys) /\ job.links # << >> => Sound(follow, ever, impostors)
  BY <1>2, <1>3, <1>4, FollowSound
<1>7. verifyWithAnyKey(job.proof, keys) /\ job.links = << >> => Sound(first, ever, impostors)
  BY <1>2, <1>3, <1>4, FirstSound
<1>. HIDE DEF first, unsigned, follow
<1>8. Sound(next(keys), ever, impostors)
  BY <1>5, <1>6, <1>7 DEF unsigned, follow
<1>9. Step(failed, next(keys))
  BY <1>1 DEF keys
<1>. QED BY <1>8, <1>9, StepSound

\* The question begins at the record asked about.
LEMMA NewJobSound ==
  ASSUME NEW kind \in {"bundle", "trace", "fetch"}, NEW b, b.uri \in Uris, NEW stamped
  PROVE  Sound(NewJob(kind, b, stamped), ever, impostors)
<1>. DEFINE j == NewJob(kind, b, stamped)
<1>1. /\ DOMAIN j = JobFields
      /\ j.kind = kind
      /\ j.b = b
      /\ j.step = (IF kind = "bundle" THEN "handle" ELSE "did")
      /\ j.at = b.uri
      /\ j.links = << >>
      /\ j.stages = << >>
      /\ ~j.reached
      /\ j.why # "fetched"
      /\ j.forged = impostors
  BY DEF NewJob, JobFields
<1>. HIDE DEF j
<1>2. Shaped(j) /\ KeysOK(j, ever, impostors)
  BY <1>1 DEF Shaped, KeysOK
<1>3. Len(j.links) = 0 /\ j.links \in Seq(Published(ever))
  BY <1>1
<1>4. NextOK(j) /\ PathOK(j, ever)
  BY <1>1, <1>3, VerifyAssumption DEF NextOK, PathOK
<1>5. StagesOK(j) /\ HeadOK(j)
  BY <1>1 DEF StagesOK, HeadOK, InOrder
<1>6. Sound(j, ever, impostors)
  BY <1>2, <1>4, <1>5 DEF Sound
<1>. QED BY <1>6 DEF j

LEMMA StartSound ==
  ASSUME WorldOK, NEW j, Start(j), Sound(j, ever, impostors)
  PROVE  VerifyInv'
<1>1. WorldOK'
  BY DEF Start, WorldOK, world, RecordOK
<1>2. job' = j /\ ever' = ever /\ impostors' = impostors
  BY DEF Start, world
<1>. QED BY <1>1, <1>2 DEF VerifyInv

LEMMA VerifyBundleSound ==
  ASSUME WorldOK, NEW b \in Bundles, NEW stamped, verifyBundle(b, stamped)
  PROVE  VerifyInv'
<1>. DEFINE j == NewJob("bundle", b, stamped)
            g == FailAt(j, "resolve", "malformed")
<1>1. Start(IF b.uri = Malformed THEN g ELSE j)
  BY DEF verifyBundle
<1>2. ASSUME b.uri # Malformed
      PROVE  Sound(j, ever, impostors)
  BY <1>2, NewJobSound DEF Bundles
<1>3. Sound(g, ever, impostors)
  <2>1. /\ DOMAIN j = JobFields /\ j.kind = "bundle" /\ j.links = << >>
        /\ j.forged = impostors /\ j.stages = << >>
    BY DEF NewJob, JobFields
  <2>2. "resolve" = StageNames[0 + 1] /\ 0 \in 0 .. 6
    BY DEF StageNames
  <2>. HIDE DEF j
  <2>3. InOrder(j.stages, 0)
    BY <2>1 DEF InOrder
  <2>. QED BY <2>1, <2>2, <2>3, FailAtSound
<1>. HIDE DEF j, g
<1>4. Sound(IF b.uri = Malformed THEN g ELSE j, ever, impostors)
  BY <1>2, <1>3
<1>. QED BY <1>1, <1>4, StartSound

----------------------------------------------------------------------------
(* Steps of the network.                                                   *)

\* What the network does to a verification is to disturb it.
LEMMA DisturbedSound ==
  ASSUME VerifyInv, WorldOK', ever \subseteq ever', impostors \subseteq impostors',
         job' = IF job = Idle THEN Idle ELSE Disturbed
  PROVE  VerifyInv'
<1>1. CASE job = Idle
  BY <1>1 DEF VerifyInv
<1>2. CASE job # Idle
  <2>1. Sound(job, ever, impostors) /\ job' = Disturbed
    BY <1>2 DEF VerifyInv
  <2>2. SameJob(job', job)
    <3>1. DOMAIN job = JobFields
      BY <2>1 DEF Sound, Shaped
    <3>2. SameJob([job EXCEPT !.quiet = FALSE], job)
      BY <3>1, QuietIsSame
    <3> QED BY <2>1, <3>2 DEF Disturbed
  <2>. QED BY <2>1, <2>2, SoundStays DEF VerifyInv
<1>. QED BY <1>1, <1>2

\* A record put in place of another, or in the place of none.
LEMMA PutWorld ==
  ASSUME WorldOK, NEW u \in Uris, NEW r, RecordOK(r),
         repo' = [repo EXCEPT ![u] = r], ever' = ever \cup {<<u, r>>},
         rotations' = rotations, \A b \in papers' : b.uri \in Uris
  PROVE  WorldOK'
<1>1. DOMAIN repo' = Uris
  BY DEF WorldOK
<1>2. \A v \in Uris : repo'[v] # None => <<v, repo'[v]>> \in ever'
  BY DEF WorldOK
<1>3. \A e \in ever' : e[1] \in Uris /\ e = <<e[1], e[2]>> /\ RecordOK(e[2])
  BY DEF WorldOK
<1>. QED BY <1>1, <1>2, <1>3 DEF WorldOK, RecordOK

\* An issued record leaves blank fields out.
LEMMA RecordIs ==
  ASSUME NEW doc, NEW prev \in Uris \cup {None}, NEW pin
  PROVE  RecordOK(Record(doc, doc, prev, pin))
BY VerifyAssumption DEF RecordOK, Record, publicValues

LEMMA RewrittenIs ==
  ASSUME NEW r, RecordOK(r), NEW q \in Rewritten(r)
  PROVE  RecordOK(q)
<1>1. CASE \E x \in Documents \cup {None} : q = [r EXCEPT !.root = x]
  BY <1>1 DEF RecordOK
<1>2. CASE \E x \in Documents : q = [r EXCEPT !.public = publicValues(x)]
  BY <1>2, VerifyAssumption DEF RecordOK, publicValues
<1>3. CASE \E x \in Issued \cup {NoUri, Malformed, Elsewhere} : q = [r EXCEPT !.prev = x, !.pin = None]
  BY <1>3 DEF RecordOK, Issued
<1>. QED BY <1>1, <1>2, <1>3 DEF Rewritten

LEMMA IssueSound ==
  ASSUME VerifyInv, NEW u \in Uris, NEW doc, NEW prev, Issue(u, doc, prev)
  PROVE  VerifyInv'
<1>. DEFINE r == Record(doc, doc, prev, IF prev = None THEN None ELSE repo[prev])
<1>1. prev \in Uris \cup {None}
  BY DEF Issue, Issued
<1>2. RecordOK(r)
  BY <1>1, RecordIs
<1>3. /\ repo' = [repo EXCEPT ![u] = r]
      /\ ever' = ever \cup {<<u, r>>}
      /\ rotations' = rotations /\ impostors' = impostors
      /\ job' = IF job = Idle THEN Idle ELSE Disturbed
  BY DEF Issue
<1>4. \A b \in papers' : b.uri \in Uris
  BY DEF Issue, VerifyInv, WorldOK
<1>. HIDE DEF r
<1>5. WorldOK'
  BY <1>2, <1>3, <1>4, PutWorld DEF VerifyInv
<1>. QED BY <1>3, <1>5, DisturbedSound

LEMMA RewriteSound ==
  ASSUME VerifyInv, NEW u \in Uris, Rewrite(u)
  PROVE  VerifyInv'
<1>1. PICK r \in Rewritten(repo[u]) \ {repo[u]} :
        /\ repo' = [repo EXCEPT ![u] = r]
        /\ ever' = ever \cup {<<u, r>>}
  BY DEF Rewrite
<1>2. RecordOK(repo[u])
  BY DEF Rewrite, VerifyInv, WorldOK
<1>3. RecordOK(r)
  BY <1>2, RewrittenIs
<1>4. /\ rotations' = rotations /\ impostors' = impostors /\ papers' = papers
      /\ job' = IF job = Idle THEN Idle ELSE Disturbed
  BY DEF Rewrite, Change
<1>5. WorldOK'
  BY <1>1, <1>3, <1>4, PutWorld DEF VerifyInv, WorldOK
<1>. QED BY <1>1, <1>4, <1>5, DisturbedSound

LEMMA DeleteSound ==
  ASSUME VerifyInv, NEW u \in Uris, Delete(u)
  PROVE  VerifyInv'
<1>1. /\ repo' = [repo EXCEPT ![u] = None]
      /\ ever' = ever /\ rotations' = rotations /\ impostors' = impostors
      /\ papers' = papers
      /\ job' = IF job = Idle THEN Idle ELSE Disturbed
  BY DEF Delete, Change
<1>2. WorldOK'
  BY <1>1 DEF VerifyInv, WorldOK, RecordOK
<1>. QED BY <1>1, <1>2, DisturbedSound

\* Keys and handles.
LEMMA IdentitySound ==
  ASSUME VerifyInv,
         \/ \E d \in Dids : rotateKey(d) \/ publishWrongKey(d)
         \/ \E h \in Handles, d \in Dids \cup {None} : repointHandle(h, d)
  PROVE  VerifyInv'
<1>1. /\ repo' = repo /\ ever' = ever /\ papers' = papers
      /\ impostors \subseteq impostors'
      /\ job' = IF job = Idle THEN Idle ELSE Disturbed
  BY DEF rotateKey, publishWrongKey, repointHandle, Change
<1>2. rotations' \in [Dids -> Nat]
  BY DEF rotateKey, publishWrongKey, repointHandle, VerifyInv, WorldOK
<1>3. WorldOK'
  BY <1>1, <1>2 DEF VerifyInv, WorldOK, RecordOK
<1>. QED BY <1>1, <1>3, DisturbedSound

----------------------------------------------------------------------------
(* The invariant.                                                          *)

LEMMA InitVerify == Init => VerifyInv
BY DEF Init, VerifyInv, WorldOK

LEMMA VerifierSound ==
  ASSUME VerifyInv, Verifier
  PROVE  VerifyInv'
<1>1. WorldOK
  BY DEF VerifyInv
<1>2. CASE \E b \in Bundles, stamped \in {None} \cup {doc.part : doc \in Documents} :
             verifyBundle(b, stamped)
  BY <1>1, <1>2, VerifyBundleSound
<1>3. CASE \E b \in papers : traceChain(b) \/ fetchVerifiedRelease(b)
  <2>1. PICK b \in papers : traceChain(b) \/ fetchVerifiedRelease(b)
    BY <1>3
  <2>2. PICK kind \in {"trace", "fetch"} : Start(NewJob(kind, b, None))
    BY <2>1 DEF traceChain, fetchVerifiedRelease
  <2>3. b.uri \in Uris /\ kind \in {"bundle", "trace", "fetch"}
    BY <1>1 DEF WorldOK
  <2>4. Sound(NewJob(kind, b, None), ever, impostors)
    BY <2>3, NewJobSound
  <2>. QED BY <1>1, <2>2, <2>4, StartSound
<1>4. CASE ResolveHandle \/ ResolveDid \/ AskKeys \/ AskProof \/ ResolveNext \/ AskNext \/ CheckProof
  <2>1. job # Idle
    <3>1. job.step # "idle"
      BY <1>4 DEF ResolveHandle, ResolveDid, AskKeys, AskProof, ResolveNext, AskNext, CheckProof
    <3>. QED BY <3>1 DEF Idle
  <2>2. Sound(job, ever, impostors)
    BY <2>1 DEF VerifyInv
  <2>. QED BY <1>1, <1>4, <2>2, ResolveHandleSound, ResolveDidSound, AskKeysSound,
              AskProofSound, ResolveNextSound, AskNextSound, CheckProofSound
<1>. QED BY <1>2, <1>3, <1>4 DEF Verifier

LEMMA NetworkSound ==
  ASSUME VerifyInv, Network
  PROVE  VerifyInv'
<1>1. CASE \E u \in Uris, doc \in Documents, prev \in Uris \cup {None} : Issue(u, doc, prev)
  BY <1>1, IssueSound
<1>2. CASE \E u \in Uris : Rewrite(u) \/ Delete(u)
  BY <1>2, RewriteSound, DeleteSound
<1>3. CASE \/ \E d \in Dids : rotateKey(d) \/ publishWrongKey(d)
           \/ \E h \in Handles, d \in Dids \cup {None} : repointHandle(h, d)
  BY <1>3, IdentitySound
<1>. QED BY <1>1, <1>2, <1>3 DEF Network

LEMMA StutterSound ==
  ASSUME VerifyInv, UNCHANGED vars
  PROVE  VerifyInv'
BY DEF VerifyInv, WorldOK, RecordOK, vars, world

LEMMA VerifyInductive == Spec => []VerifyInv
<1>1. Init => VerifyInv
  BY InitVerify
<1>2. VerifyInv /\ [Next]_vars => VerifyInv'
  BY NetworkSound, VerifierSound, StutterSound DEF Next
<1>. QED BY <1>1, <1>2, PTL DEF Spec

----------------------------------------------------------------------------
(* What it says of a report.                                               *)

LEMMA DoneIsSound ==
  ASSUME VerifyInv, Done
  PROVE  Sound(job, ever, impostors)
BY DEF VerifyInv, Done, Idle

\* Whichever of the early exits a verification of a document takes (skipRest), its
\* report names all seven stages, once each and in their order.
THEOREM WholeReport == Spec => []ReportsAreWhole
<1>1. ASSUME VerifyInv, Done, job.kind = "bundle"
      PROVE  [i \in DOMAIN job.stages |-> job.stages[i][1]] = StageNames
  <2>1. InOrder(job.stages, 7)
    BY <1>1, DoneIsSound DEF Done, Sound, StagesOK
  <2>2. DOMAIN job.stages = 1 .. 7 /\ \A i \in 1 .. 7 : job.stages[i][1] = StageNames[i]
    BY <2>1 DEF InOrder
  <2>3. StageNames = [i \in 1 .. 7 |-> StageNames[i]]
    BY DEF StageNames
  <2>. QED BY <2>2, <2>3
<1>2. VerifyInv => ReportsAreWhole
  BY <1>1 DEF ReportsAreWhole
<1>. QED BY <1>2, VerifyInductive, PTL

\* A document that verifies was published, over this commitment and with these
\* public fields, in the repository its handle resolved to, by a server that signs
\* with a published key; so was a record fetched to check a disclosure.
THEOREM VerifiedIsIssued == Spec => []VerifiedWasIssued
<1>1. ASSUME VerifyInv, Done, job.links # << >>
      PROVE  /\ Owner[job.b.uri] \notin job.forged
             /\ <<job.b.uri, job.links[1].cid>> \in ever
  <2>1. PathOK(job, ever)
    BY <1>1, DoneIsSound DEF Sound
  <2>2. 1 \in 1 .. Len(job.links) /\ job.links[1] \in Published(ever)
    BY <1>1, <2>1 DEF PathOK
  <2>3. job.links[1].uri = job.b.uri /\ Owner[job.links[1].uri] \notin job.forged
    BY <1>1, <2>1, <2>2 DEF PathOK
  <2>4. PICK e \in ever : job.links[1] = [uri |-> e[1], cid |-> e[2]]
    BY <2>2 DEF Published
  <2>5. e = <<e[1], e[2]>>
    BY <1>1 DEF VerifyInv, WorldOK
  <2>. QED BY <2>3, <2>4, <2>5
<1>2. ASSUME VerifyInv, Verified
      PROVE  job.links # << >> /\ Matches(job)
  BY <1>2, DoneIsSound DEF Verified, Done, Sound, HeadOK
<1>3. ASSUME VerifyInv, Done, job.why = "fetched"
      PROVE  job.links # << >>
  BY <1>3, DoneIsSound DEF Sound, HeadOK
<1>4. ASSUME VerifyInv, Verified
      PROVE  \E e \in ever : /\ e[1] = job.b.uri
                             /\ e[2].root = job.b.doc
                             /\ e[2].public = publicValues(job.b.doc)
  <2>1. <<job.b.uri, job.links[1].cid>> \in ever
    BY <1>1, <1>2, <1>4 DEF Verified
  <2>. QED BY <1>2, <1>4, <2>1 DEF Matches
<1>5. VerifyInv => VerifiedWasIssued
  BY <1>1, <1>2, <1>3, <1>4 DEF VerifiedWasIssued, Verified, Matches
<1>. QED BY <1>5, VerifyInductive, PTL

\* A history is a path of published records, each the one the record before it
\* names and pins, of one part, from the record asked about to one with no
\* predecessor if it says so; and it is no longer than the walk is allowed.
THEOREM HistoriesAreTold == Spec => []HistoriesHold
<1>1. ASSUME VerifyInv, Done, job.links # << >>
      PROVE  \A i \in DOMAIN job.links : <<job.links[i].uri, job.links[i].cid>> \in ever
  <2>1. job.links \in Seq(Published(ever))
    BY <1>1, DoneIsSound DEF Sound, PathOK
  <2>. TAKE i \in DOMAIN job.links
  <2>2. job.links[i] \in Published(ever)
    BY <2>1
  <2>3. PICK e \in ever : job.links[i] = [uri |-> e[1], cid |-> e[2]]
    BY <2>2 DEF Published
  <2>4. e = <<e[1], e[2]>>
    BY <1>1 DEF VerifyInv, WorldOK
  <2>. QED BY <2>3, <2>4
<1>2. ASSUME VerifyInv, Done, job.links # << >>
      PROVE  PathOK(job, ever) /\ DOMAIN job.links = 1 .. Len(job.links)
  BY <1>2, DoneIsSound DEF Sound, PathOK
<1>3. VerifyInv => HistoriesHold
  BY <1>1, <1>2 DEF HistoriesHold, PathOK, Last
<1>. QED BY <1>3, VerifyInductive, PTL

----------------------------------------------------------------------------
(* On a network that keeps still.                                          *)

\* A record put in the place of none names one of before, and pins it.
Genuine(e, E) ==
  \/ e[2].prev = None
  \/ /\ e[2].prev \in Uris
     /\ e[2].prev < e[1]
     /\ <<e[2].prev, e[2].pin>> \in E

\* What stands where another record stood, or stood where another stands.
Changed(e, E) == \E f \in E : f[1] = e[1] /\ f # e

\* Records are issued one after the other, and papers as their records are.
IssuedOK(E, P) ==
  /\ IsFiniteSet(E)
  /\ \E n \in 0 .. Cardinality(Uris) : {u \in Uris : \E e \in E : e[1] = u} = 1 .. n
  /\ \A e \in E : Genuine(e, E) \/ Changed(e, E)
  /\ \A b \in P :
       /\ b.handle = HomeHandle[Owner[b.uri]]
       /\ b.doc \in Documents
       /\ \E e \in E : /\ e[1] = b.uri
                       /\ e[2].root = b.doc
                       /\ e[2].public = publicValues(b.doc)

\* A verification that nothing has gone wrong with: the keys are those in force,
\* no stage has failed, and as many records as the walk has seen are behind it.
Right(j, rot, rep) ==
  /\ j.anchor = rot
  /\ j.kind = "bundle" => ~Failed(j.stages)
  /\ j.links # << >> => Last(j.links).uri <= Cardinality(Uris) + 1 - Len(j.links)
  /\ j.step \in {"keys", "check"} \/ (j.step = "proof" /\ ~AtHead(j)) =>
       j.seen = <<Owner[j.at], rot[Owner[j.at]]>>
  /\ j.step = "proof" /\ AtHead(j) => j.keys = {<<Owner[j.at], rot[Owner[j.at]]>>}
  /\ j.step = "check" =>
       /\ j.proof.key = <<Owner[j.at], rot[Owner[j.at]]>>
       /\ j.proof.record = rep[j.at]
  /\ j.step = "done" => j.reached

\* The inductive invariant.
GenuineInv ==
  /\ VerifyInv
  /\ IssuedOK(ever, papers)
  /\ job # Idle /\ Clean => Right(job, rotations, repo)

\* No document is blank in public; an answer is not taken for none.
NothingBlank == \A doc \in Documents : \A f \in {"part", "note"} : doc[f] # Null

NoneIsNoAnswer ==
  /\ \A r : RecordOK(r) => r # None
  /\ \A d, k : [did |-> d, signingKey |-> k] # None /\ [key |-> d, record |-> k] # None

----------------------------------------------------------------------------
(* Nothing fails.                                                          *)

LEMMA NotFailedAdd ==
  ASSUME NEW s, NEW n \in 0 .. 6, InOrder(s, n), ~Failed(s),
         NEW name \in Names, NEW status \in Statuses, status # "fail"
  PROVE  ~Failed(add(s, name, status))
<1>. DEFINE t == Append(s, <<name, status>>)
<1>1. s \in Seq(Names \X Statuses) /\ Len(s) = n
  BY DEF InOrder
<1>2. /\ DOMAIN t = 1 .. n + 1
      /\ \A i \in 1 .. n : t[i] = s[i]
      /\ t[n + 1] = <<name, status>>
  BY <1>1
<1>3. \A i \in 1 .. n : s[i][2] # "fail"
  BY <1>1 DEF Failed
<1>. HIDE DEF t
<1>4. \A i \in DOMAIN t : t[i][2] # "fail"
  <2>. TAKE i \in DOMAIN t
  <2>1. i \in 1 .. n \/ i = n + 1
    BY <1>2
  <2>. QED BY <2>1, <1>2, <1>3
<1>. QED BY <1>4 DEF Failed, add, t

LEMMA NotFailedSkip ==
  ASSUME NEW s, NEW n \in 0 .. 7, InOrder(s, n), ~Failed(s)
  PROVE  ~Failed(skipRest(s))
<1>. DEFINE rest == [i \in 1 .. Len(StageNames) - Len(s) |-> <<StageNames[Len(s) + i], "skipped">>]
            t == s \o rest
            S == Names \X Statuses
<1>1. s \in Seq(S) /\ Len(s) = n /\ Len(StageNames) = 7
  BY DEF InOrder, StageNames
<1>2. rest \in Seq(S) /\ Len(rest) = 7 - n /\ \A i \in 1 .. 7 - n : rest[i][2] # "fail"
  <2>1. Len(StageNames) = 7 /\ \A i \in 1 .. 7 : StageNames[i] \in Names
    BY DEF StageNames, Names
  <2>2. rest \in Seq(Names \X Statuses) /\ Len(rest) = 7 - n
    BY <2>1 DEF InOrder, Statuses
  <2>3. ASSUME NEW i \in 1 .. 7 - n
        PROVE  rest[i][2] # "fail"
    BY <1>1
  <2>. QED BY <2>2, <2>3
<1>3. \A i \in 1 .. n : s[i][2] # "fail"
  BY <1>1 DEF Failed
<1>. HIDE DEF S, rest
<1>4. /\ DOMAIN t = 1 .. 7
      /\ \A i \in 1 .. n : t[i] = s[i]
      /\ \A i \in n + 1 .. 7 : t[i] = rest[i - n]
  BY <1>1, <1>2, SMTT(30)
<1>. HIDE DEF t
<1>5. \A i \in DOMAIN t : t[i][2] # "fail"
  <2>. TAKE i \in DOMAIN t
  <2>1. i \in 1 .. n \/ (i \in n + 1 .. 7 /\ i - n \in 1 .. 7 - n)
    BY <1>4
  <2>. QED BY <2>1, <1>2, <1>3, <1>4
<1>. QED BY <1>5 DEF Failed, skipRest, t, rest

----------------------------------------------------------------------------
(* No step changes what a verification is asked, or whether the network    *)
(* has kept still.                                                         *)

Kept(f, j) ==
  /\ DOMAIN f = JobFields
  /\ f.kind = j.kind
  /\ f.b = j.b
  /\ f.stamped = j.stamped
  /\ f.quiet = j.quiet

LEMMA KeptFinish ==
  ASSUME NEW j, DOMAIN j = JobFields, NEW why
  PROVE  Kept(finish(j, why), j) /\ finish(j, why).anchor = j.anchor
BY DEF finish, JobFields, Kept

LEMMA KeptStop ==
  ASSUME NEW j, DOMAIN j = JobFields, NEW reached, NEW why
  PROVE  Kept(Stop(j, reached, why), j) /\ Stop(j, reached, why).anchor = j.anchor
<1>. DEFINE k == [j EXCEPT !.reached = reached,
                           !.stages = add(@, "chain", IF reached THEN "pass" ELSE "fail")]
            l == [j EXCEPT !.reached = reached]
<1>1. Kept(k, j) /\ Kept(l, j) /\ k.anchor = j.anchor /\ l.anchor = j.anchor
  BY DEF JobFields, Kept
<1>2. Stop(j, reached, why) = IF j.kind = "bundle" THEN finish(k, why) ELSE finish(l, why)
  BY DEF Stop
<1>. HIDE DEF k, l
<1>3. /\ Kept(finish(k, why), k) /\ finish(k, why).anchor = k.anchor
      /\ Kept(finish(l, why), l) /\ finish(l, why).anchor = l.anchor
  BY <1>1, KeptFinish DEF Kept
<1>. QED BY <1>1, <1>2, <1>3 DEF Kept

LEMMA KeptFailAt ==
  ASSUME NEW j, DOMAIN j = JobFields, NEW name, NEW why
  PROVE  Kept(FailAt(j, name, why), j)
<1>. DEFINE k == [j EXCEPT !.stages = add(@, name, "fail")]
<1>1. Kept(k, j)
  BY DEF JobFields, Kept
<1>. HIDE DEF k
<1>2. Kept(finish(k, why), k)
  BY <1>1, KeptFinish DEF Kept
<1>3. FailAt(j, name, why) = finish(k, why)
  BY DEF FailAt, k
<1>. QED BY <1>1, <1>2, <1>3 DEF Kept

LEMMA KeptWalk ==
  ASSUME NEW j, DOMAIN j = JobFields, NEW u, NEW r
  PROVE  Kept(Walk(j, u, r), j)
<1>. DEFINE k == [j EXCEPT !.links = Append(@, [uri |-> u, cid |-> r])]
            g == [k EXCEPT !.step = "did", !.at = r.prev, !.pin = r.pin]
            birth == Stop(k, TRUE, "birth")
            long == Stop(k, FALSE, "long")
            malformed == Stop(k, FALSE, "malformed")
            elsewhere == Stop(k, FALSE, "elsewhere")
            m == Len(k.links)
<1>1. Kept(k, j) /\ Kept(g, j)
  BY DEF JobFields, Kept
<1>2. Walk(j, u, r) =
        CASE r.prev \in Ends -> birth
          [] r.prev \notin Ends /\ m > MAX_CHAIN_DEPTH -> long
          [] r.prev = Malformed /\ m <= MAX_CHAIN_DEPTH -> malformed
          [] r.prev = Elsewhere /\ m <= MAX_CHAIN_DEPTH -> elsewhere
          [] OTHER -> g
  BY DEF Walk
<1>. HIDE DEF k, g, m
<1>3. Kept(birth, k) /\ Kept(long, k) /\ Kept(malformed, k) /\ Kept(elsewhere, k)
  <2>1. DOMAIN k = JobFields
    BY <1>1 DEF Kept
  <2>. QED BY <2>1, KeptStop
<1>. HIDE DEF birth, long, malformed, elsewhere
<1>4. Kept(birth, j) /\ Kept(long, j) /\ Kept(malformed, j) /\ Kept(elsewhere, j)
  BY <1>1, <1>3 DEF Kept
<1>. QED BY <1>1, <1>2, <1>4

LEMMA KeptFollow ==
  ASSUME NEW j, DOMAIN j = JobFields, NEW r
  PROVE  Kept(Follow(j, r), j)
<1>1. \A why : Kept(Stop(j, FALSE, why), j)
  BY KeptStop
<1>2. Kept(Walk(j, j.at, r), j)
  BY KeptWalk
<1>. QED BY <1>1, <1>2 DEF Follow

LEMMA KeptFirst ==
  ASSUME NEW j, DOMAIN j = JobFields, NEW r
  PROVE  Kept(IF j.kind = "trace" THEN TraceRecord(j, r) ELSE FetchRecord(j, r), j)
<1>. DEFINE k == [j EXCEPT !.reached = r.root # None, !.links = <<[uri |-> j.at, cid |-> r]>>]
<1>1. Kept(k, j)
  BY DEF JobFields, Kept
<1>2. FetchRecord(j, r) = IF r = None THEN finish(j, "absent") ELSE finish(k, "fetched")
  BY DEF FetchRecord
<1>. HIDE DEF k
<1>3. Kept(finish(k, "fetched"), j)
  <2>1. Kept(finish(k, "fetched"), k)
    BY <1>1, KeptFinish DEF Kept
  <2>. QED BY <1>1, <2>1 DEF Kept
<1>4. Kept(finish(j, "absent"), j) /\ Kept(Walk(j, j.at, r), j)
  BY KeptFinish, KeptWalk
<1>. QED BY <1>2, <1>3, <1>4 DEF TraceRecord

LEMMA KeptCheckHead ==
  ASSUME NEW j, DOMAIN j = JobFields, NEW proof
  PROVE  Kept(CheckHead(j, proof), j)
<1>. DEFINE with(s) == [j EXCEPT !.stages = s]
            signed == add(add(j.stages, "fetch", "pass"), "signature",
                          IF j.dated THEN "pass" ELSE "warn")
            k == with(signed)
            r == proof.record
            h == [k EXCEPT !.stages = Physical(Agree(Recompute(k, r), k, r), k, r)]
            a == with(add(add(j.stages, "fetch", "fail"), "signature", "fail"))
            b == with(add(add(j.stages, "fetch", "fail"), "signature", "pass"))
<1>1. Kept(a, j) /\ Kept(b, j) /\ Kept(k, j)
  BY DEF JobFields, Kept
<1>2. Kept(h, j)
  <2>1. Kept(h, k)
    <3>. HIDE DEF k
    <3>. QED BY <1>1 DEF JobFields, Kept
  <2>. HIDE DEF k, h
  <2>. QED BY <1>1, <2>1 DEF Kept
<1>3. CheckHead(j, proof) \in {finish(a, "unsigned"), finish(b, "absent"), Walk(h, j.at, r)}
  BY DEF CheckHead
<1>. HIDE DEF a, b, h
<1>4. Kept(finish(a, "unsigned"), a) /\ Kept(finish(b, "absent"), b) /\ Kept(Walk(h, j.at, r), h)
  BY <1>1, <1>2, KeptFinish, KeptWalk DEF Kept
<1>. QED BY <1>1, <1>2, <1>3, <1>4 DEF Kept

----------------------------------------------------------------------------
(* The walk comes to the birth.                                            *)

LEMMA StopRight ==
  ASSUME NEW j, DOMAIN j = JobFields, NEW rot, NEW rep,
         j.anchor = rot,
         j.kind = "bundle" => InOrder(j.stages, 6) /\ ~Failed(j.stages),
         j.links # << >> => Last(j.links).uri <= Cardinality(Uris) + 1 - Len(j.links)
  PROVE  Right(Stop(j, TRUE, "birth"), rot, rep)
<1>. DEFINE reached == TRUE
            f == Stop(j, reached, "birth")
<1>0. reached = TRUE /\ reached \in BOOLEAN
  OBVIOUS
<1>. HIDE DEF reached
<1>1. f.anchor = rot /\ f.kind = j.kind
  BY KeptStop DEF Kept
<1>2. /\ f.links = j.links
      /\ f.reached = reached
      /\ f.step = "done"
      /\ f.stages = (IF j.kind = "bundle"
                     THEN skipRest(add(j.stages, "chain", IF reached THEN "pass" ELSE "fail"))
                     ELSE j.stages)
  BY StopIs
<1>. HIDE DEF f
<1>3. ASSUME j.kind = "bundle"
      PROVE  ~Failed(f.stages)
  <2>. DEFINE chain == add(j.stages, "chain", "pass")
  <2>1. /\ StageNames[6 + 1] = "chain" /\ "chain" \in Names
        /\ "pass" \in Statuses /\ "pass" # "fail" /\ 6 \in 0 .. 6 /\ 7 \in 0 .. 7
    BY DEF StageNames, Names, Statuses
  <2>2. InOrder(j.stages, 6) /\ ~Failed(j.stages)
    BY <1>3
  <2>3. InOrder(chain, 7)
    BY <2>1, <2>2, AddInOrder
  <2>4. ~Failed(chain)
    BY <2>1, <2>2, NotFailedAdd
  <2>. HIDE DEF chain
  <2>5. ~Failed(skipRest(chain))
    BY <2>1, <2>3, <2>4, NotFailedSkip
  <2>. QED BY <1>0, <1>2, <1>3, <2>5 DEF chain
<1>4. Right(f, rot, rep)
  BY <1>0, <1>1, <1>2, <1>3 DEF Right
<1>. QED BY <1>0, <1>4 DEF f

\* A record of a history in which each is issued after the one it names.
LEMMA WalkRight ==
  ASSUME NEW j, DOMAIN j = JobFields, NEW rot, NEW rep, NEW S,
         NEW u \in Uris, NEW r, r.prev = None \/ (r.prev \in Uris /\ r.prev < u),
         j.anchor = rot,
         j.kind = "bundle" => InOrder(j.stages, 6) /\ ~Failed(j.stages),
         j.links \in Seq(S), [uri |-> u, cid |-> r] \in S,
         u <= Cardinality(Uris) - Len(j.links),
         Cardinality(Uris) <= MAX_CHAIN_DEPTH + 1
  PROVE  Right(Walk(j, u, r), rot, rep)
<1>. DEFINE link == [uri |-> u, cid |-> r]
            k == [j EXCEPT !.links = Append(@, link)]
            g == [k EXCEPT !.step = "did", !.at = r.prev, !.pin = r.pin]
            birth == Stop(k, TRUE, "birth")
            long == Stop(k, FALSE, "long")
            malformed == Stop(k, FALSE, "malformed")
            elsewhere == Stop(k, FALSE, "elsewhere")
            m == Len(k.links)
            C == Cardinality(Uris)
            n == Len(j.links)
<1>1. /\ DOMAIN k = JobFields /\ k.kind = j.kind /\ k.anchor = rot /\ k.stages = j.stages
      /\ k.links = Append(j.links, link)
  BY DEF JobFields
<1>2. /\ g.kind = j.kind /\ g.anchor = rot /\ g.stages = j.stages
      /\ g.links = k.links /\ g.step = "did"
  BY DEF JobFields
<1>3. link.uri = u
  OBVIOUS
<1>4. Walk(j, u, r) =
        CASE r.prev \in Ends -> birth
          [] r.prev \notin Ends /\ m > MAX_CHAIN_DEPTH -> long
          [] r.prev = Malformed /\ m <= MAX_CHAIN_DEPTH -> malformed
          [] r.prev = Elsewhere /\ m <= MAX_CHAIN_DEPTH -> elsewhere
          [] OTHER -> g
  BY DEF Walk
<1>5. link \in S
  OBVIOUS
<1>6. C \in Nat /\ Uris = 1 .. C /\ MAX_CHAIN_DEPTH \in Nat
  BY VerifyAssumption, FS_CardinalityType
<1>. HIDE DEF k, g, link, C
<1>7. /\ n \in Nat
      /\ m = n + 1
      /\ k.links # << >>
      /\ Last(k.links) = link
  <2>. DEFINE M == Append(j.links, link)
  <2>1. n \in Nat /\ Len(M) = n + 1 /\ M[n + 1] = link /\ M # << >>
    BY <1>5
  <2>. HIDE DEF M
  <2>2. k.links = M
    BY <1>1 DEF M
  <2>. QED BY <2>1, <2>2 DEF Last
<1>. HIDE DEF n, m
<1>8. u \in 1 .. C /\ u <= C - n /\ C <= MAX_CHAIN_DEPTH + 1
  BY <1>6 DEF C, n
<1>9. Last(k.links).uri <= C + 1 - m
  BY <1>3, <1>6, <1>7, <1>8
<1>10. r.prev \in Ends => Right(birth, rot, rep)
  BY <1>1, <1>9, StopRight DEF m, C
<1>11. Right(g, rot, rep)
  BY <1>2, <1>9 DEF Right, m, C
<1>12. ASSUME r.prev # None
       PROVE  m <= MAX_CHAIN_DEPTH /\ r.prev \notin Ends \cup {Malformed, Elsewhere}
  <2>1. r.prev \in 1 .. C /\ r.prev < u
    BY <1>6, <1>12
  <2>2. m <= MAX_CHAIN_DEPTH
    BY <2>1, <1>6, <1>7, <1>8
  <2>3. r.prev \in Uris
    BY <1>12
  <2>. QED BY <2>2, <2>3, VerifyAssumption DEF Ends
<1>13. m \in Nat
  BY <1>7
<1>. HIDE DEF birth, long, malformed, elsewhere
<1>14. CASE r.prev = None
  <2>1. Walk(j, u, r) = birth
    <3>1. r.prev \in Ends /\ r.prev # Malformed /\ r.prev # Elsewhere
      BY <1>14, VerifyAssumption DEF Ends
    <3>. QED BY <1>4, <3>1
  <2>. QED BY <1>10, <1>14, <2>1 DEF Ends
<1>15. CASE r.prev # None
  <2>1. r.prev \notin Ends /\ ~(m > MAX_CHAIN_DEPTH) /\ r.prev # Malformed /\ r.prev # Elsewhere
    BY <1>6, <1>12, <1>13, <1>15
  <2>2. Walk(j, u, r) = g
    BY <1>4, <2>1
  <2>. QED BY <1>11, <2>2
<1>. QED BY <1>14, <1>15

----------------------------------------------------------------------------
(* Nothing is wrong with the network.                                      *)

LEMMA CleanNet ==
  ASSUME WorldOK, IssuedOK(ever, papers), Clean
  PROVE  /\ \A e \in ever : Genuine(e, ever) /\ repo[e[1]] = e[2]
         /\ \A e, f \in ever : e[2].public["part"] = f[2].public["part"]
         /\ job.b \in papers /\ job.b.uri \in Uris
<1>1. ASSUME NEW e \in ever
      PROVE  Genuine(e, ever) /\ repo[e[1]] = e[2]
  <2>1. \A f \in ever : f[1] = e[1] => f = e
    <3>. TAKE f \in ever
    <3>1. repo[f[1]] = f[2] /\ repo[e[1]] = e[2]
      BY DEF Clean, Unrewritten
    <3>2. f = <<f[1], f[2]>> /\ e = <<e[1], e[2]>>
      BY DEF WorldOK
    <3>. QED BY <3>1, <3>2
  <2>. QED BY <2>1 DEF IssuedOK, Changed, Clean, Unrewritten
<1>2. \A e, f \in ever : e[2].public["part"] = f[2].public["part"]
  <2>. DEFINE part == [e \in ever |-> e[2].public["part"]]
              T == {e[2].public["part"] : e \in ever}
  <2>1. part \in Surjection(ever, T)
    BY DEF Surjection
  <2>2. \A e \in ever : part[e] = e[2].public["part"] /\ part[e] \in T
    OBVIOUS
  <2>3. Cardinality(T) = 1
    BY DEF Clean
  <2>. HIDE DEF part, T
  <2>4. IsFiniteSet(T)
    BY <2>1, FS_Surjection DEF IssuedOK
  <2>5. PICK x : T = {x}
    BY <2>3, <2>4, FS_Singleton
  <2>. QED BY <2>2, <2>5
<1>3. job.b \in papers /\ job.b.uri \in Uris
  BY DEF Clean, WorldOK
<1>. QED BY <1>1, <1>2, <1>3

\* What is asked about stands as it was issued, and the pin is of it.
LEMMA AskedStands ==
  ASSUME WorldOK, IssuedOK(ever, papers), Clean, NoneIsNoAnswer,
         Sound(job, ever, impostors), job.step # "done",
         job.links # << >> => Last(job.links).uri <= Cardinality(Uris) + 1 - Len(job.links)
  PROVE  /\ job.at \in Uris
         /\ <<job.at, repo[job.at]>> \in ever
         /\ repo[job.at] # None
         /\ RecordOK(repo[job.at])
         /\ job.at <= Cardinality(Uris) - Len(job.links)
         /\ job.links # << >> => job.pin = repo[job.at]
<1>. DEFINE L == job.links
            C == Cardinality(Uris)
<1>1. job.at \in Uris /\ L \in Seq(Published(ever))
  BY DEF Sound, NextOK, PathOK
<1>2. C \in Nat /\ Uris = 1 .. C
  BY VerifyAssumption, FS_CardinalityType
<1>3. /\ <<job.at, repo[job.at]>> \in ever
      /\ job.at <= C - Len(L)
      /\ L # << >> => job.pin = repo[job.at]
  <2>1. CASE L = << >>
    <3>1. job.at = job.b.uri /\ job.b \in papers
      BY <2>1, CleanNet DEF Sound, NextOK
    <3>2. PICK e \in ever : e[1] = job.b.uri
      BY <3>1 DEF IssuedOK
    <3>3. e = <<e[1], e[2]>> /\ repo[e[1]] = e[2]
      BY <3>2, CleanNet DEF WorldOK
    <3>4. Len(L) = 0
      BY <2>1
    <3>. HIDE DEF C
    <3>. QED BY <2>1, <3>1, <3>2, <3>3, <3>4, <1>1, <1>2
  <2>2. CASE L # << >>
    <3>. DEFINE last == Last(L)
                e == <<last.uri, last.cid>>
    <3>1. Len(L) \in Nat \ {0} /\ last \in Published(ever)
      BY <1>1, <2>2 DEF Last
    <3>2. job.at = last.cid.prev /\ job.pin = last.cid.pin
      BY <2>2 DEF Sound, NextOK
    <3>3. last.uri <= C + 1 - Len(L)
      BY <2>2
    <3>. HIDE DEF last
    <3>4. e \in ever
      <4>1. PICK f \in ever : last = [uri |-> f[1], cid |-> f[2]]
        BY <3>1 DEF Published
      <4>2. f = <<f[1], f[2]>>
        BY DEF WorldOK
      <4>. QED BY <4>1, <4>2
    <3>5. e[1] = last.uri /\ e[2] = last.cid
      OBVIOUS
    <3>. HIDE DEF e
    <3>6. Genuine(e, ever) /\ e[1] \in Uris
      BY <3>4, CleanNet DEF WorldOK
    <3>7. job.at # None
      BY <1>1, VerifyAssumption
    <3>8. job.at < last.uri /\ <<job.at, job.pin>> \in ever
      BY <3>2, <3>5, <3>6, <3>7 DEF Genuine
    <3>9. repo[job.at] = job.pin
      BY <3>8, CleanNet
    <3>10. job.at <= C - Len(L)
      <4>1. job.at \in 1 .. C /\ last.uri \in 1 .. C
        BY <1>1, <1>2, <3>5, <3>6
      <4>. HIDE DEF C, L
      <4>. QED BY <4>1, <1>2, <3>1, <3>3, <3>8
    <3>. QED BY <3>8, <3>9, <3>10
  <2>. QED BY <2>1, <2>2
<1>4. RecordOK(repo[job.at])
  <2>. DEFINE e == <<job.at, repo[job.at]>>
  <2>1. e \in ever /\ e[2] = repo[job.at]
    BY <1>3
  <2>. HIDE DEF e
  <2>2. RecordOK(e[2])
    BY <2>1 DEF WorldOK
  <2>. QED BY <2>1, <2>2
<1>. QED BY <1>1, <1>3, <1>4 DEF NoneIsNoAnswer

----------------------------------------------------------------------------
(* Steps of the verification.                                              *)

LEMMA SameRight ==
  ASSUME NEW j, NEW f, NEW rot, NEW rep, Right(j, rot, rep), SameJob(f, j), f.anchor = j.anchor
  PROVE  Right(f, rot, rep)
BY DEF Right, SameJob, SameCase, AtHead

LEMMA StepRight ==
  ASSUME GenuineInv, job # Idle, NEW failed, NEW next, Step(failed, next), VerifyInv',
         Kept(next, job), ~failed /\ Clean => Right(next, rotations, repo)
  PROVE  GenuineInv'
<1>1. /\ job' = [next EXCEPT !.quiet = next.quiet /\ ~failed]
      /\ repo' = repo /\ rotations' = rotations /\ impostors' = impostors
      /\ handles' = handles /\ papers' = papers /\ ever' = ever
  BY DEF Step, world
<1>2. SameJob(job', next) /\ job'.b = next.b /\ job'.stamped = next.stamped
      /\ job'.anchor = next.anchor
      /\ job'.quiet = (next.quiet /\ ~failed)
  <2>. DEFINE quiet == next.quiet /\ ~failed
              f == [next EXCEPT !.quiet = quiet]
  <2>1. DOMAIN next = JobFields
    BY DEF Kept
  <2>. HIDE DEF quiet
  <2>2. SameJob(f, next)
    BY <2>1, QuietIsSame
  <2>3. f.b = next.b /\ f.stamped = next.stamped /\ f.anchor = next.anchor /\ f.quiet = quiet
    BY <2>1 DEF JobFields
  <2>. HIDE DEF f
  <2>4. job' = f
    BY <1>1 DEF f, quiet
  <2>. QED BY <2>2, <2>3, <2>4 DEF quiet
<1>3. IssuedOK(ever', papers')
  BY <1>1 DEF GenuineInv
<1>4. ASSUME Clean'
      PROVE  Right(job', rotations', repo')
  <2>1. next.quiet /\ ~failed
    BY <1>2, <1>4 DEF Clean
  <2>2. Clean
    BY <1>1, <1>2, <1>4, <2>1 DEF Clean, Kept, Unrewritten
  <2>3. Right(next, rotations, repo)
    BY <2>1, <2>2
  <2>. QED BY <1>1, <1>2, <2>3, SameRight
<1>. QED BY <1>3, <1>4 DEF GenuineInv

\* A verification under way.
LEMMA UnderWay ==
  ASSUME GenuineInv, job.step # "idle"
  PROVE  /\ job # Idle
         /\ WorldOK
         /\ IssuedOK(ever, papers)
         /\ Sound(job, ever, impostors)
         /\ DOMAIN job = JobFields
         /\ Clean => Right(job, rotations, repo)
<1>1. job # Idle
  BY DEF Idle
<1>. QED BY <1>1 DEF GenuineInv, VerifyInv, Sound, Shaped

LEMMA ResolveHandleRight ==
  ASSUME GenuineInv, ResolveHandle
  PROVE  GenuineInv'
<1>1. PICK failed \in BOOLEAN :
        LET did == Asked(resolveHandle(job.b.handle), failed)
            j == [job EXCEPT !.claimed = {did}]
        IN  Step(failed, IF did = Owner[job.b.uri] THEN [j EXCEPT !.step = "did"]
                         ELSE FailAt(j, "resolve", "handle"))
  BY DEF ResolveHandle
<1>. DEFINE did == Asked(resolveHandle(job.b.handle), failed)
            j == [job EXCEPT !.claimed = {did}]
            f == [j EXCEPT !.step = "did"]
            g == FailAt(j, "resolve", "handle")
            next == IF did = Owner[job.b.uri] THEN f ELSE g
<1>2. job.step = "handle"
  BY DEF ResolveHandle
<1>3. /\ job # Idle /\ WorldOK /\ IssuedOK(ever, papers)
      /\ Sound(job, ever, impostors) /\ DOMAIN job = JobFields
      /\ Clean => Right(job, rotations, repo)
  BY <1>2, UnderWay
<1>4. VerifyInv'
  BY <1>3, ResolveHandleSound
<1>5. Kept(j, job) /\ Kept(f, job)
  BY <1>3 DEF Kept, JobFields
<1>6. f.anchor = job.anchor /\ f.kind = job.kind /\ f.stages = job.stages
      /\ f.links = job.links /\ f.step = "did"
  BY <1>3 DEF JobFields
<1>7. ASSUME ~failed, Clean
      PROVE  did = Owner[job.b.uri]
  <2>1. job.b.handle = HomeHandle[Owner[job.b.uri]] /\ job.b.uri \in Uris
    BY <1>3, <1>7, CleanNet DEF IssuedOK
  <2>2. Owner[job.b.uri] \in Dids
    BY <2>1, VerifyAssumption
  <2>. QED BY <1>7, <2>1, <2>2 DEF Asked, resolveHandle, Clean
<1>8. Step(failed, next)
  BY <1>1
<1>. HIDE DEF did, f
<1>9. Kept(g, job)
  <2>. HIDE DEF j
  <2>1. DOMAIN j = JobFields
    BY <1>5 DEF Kept
  <2>2. Kept(g, j)
    BY <2>1, KeptFailAt
  <2>. QED BY <1>5, <2>2 DEF Kept
<1>. HIDE DEF g
<1>10. Kept(next, job)
  BY <1>5, <1>9
<1>11. ASSUME ~failed, Clean
       PROVE  Right(next, rotations, repo)
  <2>1. Right(f, rotations, repo)
    BY <1>3, <1>6, <1>11 DEF Right
  <2>2. next = f
    BY <1>7, <1>11
  <2>. HIDE DEF next
  <2>. QED BY <2>1, <2>2
<1>. HIDE DEF next
<1>. QED BY <1>3, <1>4, <1>8, <1>10, <1>11, StepRight

LEMMA ResolveDidRight ==
  ASSUME GenuineInv, NoneIsNoAnswer, ResolveDid
  PROVE  GenuineInv'
<1>1. PICK failed \in BOOLEAN :
        LET id == Asked(resolveDid(Owner[job.at]), failed)
        IN  Step(failed,
              IF id = None THEN FailAt(job, "resolve", "identity")
              ELSE [job EXCEPT !.seen = id.signingKey, !.step = "keys", !.anchor = rotations,
                               !.stages = add(@, "resolve", "pass")])
  BY DEF ResolveDid
<1>. DEFINE id == Asked(resolveDid(Owner[job.at]), failed)
            f == [job EXCEPT !.seen = id.signingKey, !.step = "keys", !.anchor = rotations,
                             !.stages = add(@, "resolve", "pass")]
            g == FailAt(job, "resolve", "identity")
            next == IF id = None THEN g ELSE f
<1>2. job.step = "did" /\ job.kind = "bundle" /\ job.links = << >>
  BY DEF ResolveDid, AtDocument
<1>3. /\ job # Idle /\ WorldOK /\ IssuedOK(ever, papers)
      /\ Sound(job, ever, impostors) /\ DOMAIN job = JobFields
      /\ Clean => Right(job, rotations, repo)
  BY <1>2, UnderWay
<1>4. VerifyInv'
  BY <1>3, ResolveDidSound
<1>5. Kept(f, job)
  BY <1>3 DEF Kept, JobFields
<1>6. Kept(g, job)
  BY <1>3, KeptFailAt
<1>7. /\ f.anchor = rotations /\ f.kind = job.kind /\ f.links = job.links /\ f.at = job.at
      /\ f.step = "keys" /\ f.seen = id.signingKey /\ f.stages = add(job.stages, "resolve", "pass")
  BY <1>3 DEF JobFields
<1>8. ASSUME ~failed, Clean
      PROVE  id # None /\ id.signingKey = <<Owner[job.at], rotations[Owner[job.at]]>>
  BY <1>8 DEF Asked, resolveDid, Clean, Key, NoneIsNoAnswer
<1>9. Step(failed, next)
  BY <1>1
<1>. HIDE DEF id, f, g
<1>10. Kept(next, job)
  BY <1>5, <1>6
<1>11. ASSUME ~failed, Clean
       PROVE  Right(next, rotations, repo)
  <2>1. InOrder(job.stages, 0) /\ ~Failed(job.stages)
    BY <1>2, <1>3, <1>11 DEF Sound, StagesOK, Right
  <2>2. "resolve" \in Names /\ "pass" \in Statuses /\ "pass" # "fail" /\ 0 \in 0 .. 6
    BY DEF Names, StageNames, Statuses
  <2>3. ~Failed(f.stages)
    BY <1>7, <2>1, <2>2, NotFailedAdd
  <2>4. Right(f, rotations, repo)
    BY <1>2, <1>3, <1>7, <1>8, <1>11, <2>3 DEF Right
  <2>5. next = f
    BY <1>8, <1>11
  <2>. HIDE DEF next
  <2>. QED BY <2>4, <2>5
<1>. HIDE DEF next
<1>. QED BY <1>3, <1>4, <1>9, <1>10, <1>11, StepRight

LEMMA ResolveNextRight ==
  ASSUME GenuineInv, NoneIsNoAnswer, ResolveNext
  PROVE  GenuineInv'
<1>1. PICK failed \in BOOLEAN :
        LET id == Asked(resolveDid(Owner[job.at]), failed)
        IN  Step(failed, IF id = None THEN Stop(job, FALSE, "identity")
                         ELSE [job EXCEPT !.seen = id.signingKey, !.step = "proof"])
  BY DEF ResolveNext
<1>. DEFINE id == Asked(resolveDid(Owner[job.at]), failed)
            f == [job EXCEPT !.seen = id.signingKey, !.step = "proof"]
            g == Stop(job, FALSE, "identity")
            next == IF id = None THEN g ELSE f
<1>2. job.step = "did" /\ ~AtHead(job)
  BY DEF ResolveNext, AtDocument, AtHead
<1>3. /\ job # Idle /\ WorldOK /\ IssuedOK(ever, papers)
      /\ Sound(job, ever, impostors) /\ DOMAIN job = JobFields
      /\ Clean => Right(job, rotations, repo)
  BY <1>2, UnderWay
<1>4. VerifyInv'
  BY <1>3, ResolveNextSound
<1>5. Kept(f, job)
  BY <1>3 DEF Kept, JobFields
<1>6. Kept(g, job)
  BY <1>3, KeptStop
<1>7. /\ f.anchor = job.anchor /\ f.kind = job.kind /\ f.links = job.links /\ f.at = job.at
      /\ f.step = "proof" /\ f.seen = id.signingKey /\ f.stages = job.stages
  BY <1>3 DEF JobFields
<1>8. ASSUME ~failed, Clean
      PROVE  id # None /\ id.signingKey = <<Owner[job.at], rotations[Owner[job.at]]>>
  BY <1>8 DEF Asked, resolveDid, Clean, Key, NoneIsNoAnswer
<1>9. Step(failed, next)
  BY <1>1
<1>. HIDE DEF id, f, g
<1>10. Kept(next, job)
  BY <1>5, <1>6
<1>11. ASSUME ~failed, Clean
       PROVE  Right(next, rotations, repo)
  <2>1. ~AtHead(f)
    BY <1>2, <1>7 DEF AtHead
  <2>2. Right(f, rotations, repo)
    BY <1>2, <1>3, <1>7, <1>8, <1>11, <2>1 DEF Right
  <2>3. next = f
    BY <1>8, <1>11
  <2>. HIDE DEF next
  <2>. QED BY <2>2, <2>3
<1>. HIDE DEF next
<1>. QED BY <1>3, <1>4, <1>9, <1>10, <1>11, StepRight

\* The keys at the anchor are the one key in force.
LEMMA KeysInForce ==
  ASSUME Clean, Right(job, rotations, repo), job.step \in {"keys", "check"}
  PROVE  KeysOr(Asked(signingKeysAt(Owner[job.at], job.anchor), FALSE))
           = {<<Owner[job.at], rotations[Owner[job.at]]>>}
<1>. DEFINE d == Owner[job.at]
            key == <<d, rotations[d]>>
<1>1. job.seen = key /\ job.anchor = rotations /\ d \notin impostors
  BY DEF Right, Clean
<1>2. Asked(signingKeysAt(d, job.anchor), FALSE) \in {None, {key}}
  BY <1>1 DEF Asked, signingKeysAt
<1>. HIDE DEF d, key
<1>. QED BY <1>1, <1>2 DEF KeysOr, d, key

LEMMA AskKeysRight ==
  ASSUME GenuineInv, AskKeys
  PROVE  GenuineInv'
<1>1. PICK failed \in BOOLEAN :
        LET keys == Asked(signingKeysAt(Owner[job.at], job.anchor), failed)
        IN  Step(failed, [job EXCEPT !.keys = KeysOr(keys), !.step = "proof",
                                     !.dated = keys # None])
  BY DEF AskKeys
<1>. DEFINE keys == Asked(signingKeysAt(Owner[job.at], job.anchor), failed)
            f == [job EXCEPT !.keys = KeysOr(keys), !.step = "proof", !.dated = keys # None]
<1>2. job.step = "keys"
  BY DEF AskKeys
<1>3. /\ job # Idle /\ WorldOK /\ IssuedOK(ever, papers)
      /\ Sound(job, ever, impostors) /\ DOMAIN job = JobFields
      /\ Clean => Right(job, rotations, repo)
  BY <1>2, UnderWay
<1>4. VerifyInv'
  BY <1>3, AskKeysSound
<1>5. AtHead(job)
  BY <1>2, <1>3 DEF Sound, Shaped, AtHead
<1>6. ASSUME ~failed, Clean
      PROVE  KeysOr(keys) = {<<Owner[job.at], rotations[Owner[job.at]]>>}
  <2>1. failed = FALSE
    BY <1>6
  <2>. QED BY <1>2, <1>3, <1>6, <2>1, KeysInForce
<1>. HIDE DEF keys
<1>7. Kept(f, job)
  BY <1>3 DEF Kept, JobFields
<1>8. /\ f.anchor = job.anchor /\ f.kind = job.kind /\ f.links = job.links /\ f.at = job.at
      /\ f.step = "proof" /\ f.keys = KeysOr(keys) /\ f.stages = job.stages
  BY <1>3 DEF JobFields
<1>9. Step(failed, f)
  BY <1>1 DEF keys
<1>. HIDE DEF f
<1>10. ASSUME ~failed, Clean
       PROVE  Right(f, rotations, repo)
  BY <1>2, <1>3, <1>5, <1>6, <1>8, <1>10 DEF Right, AtHead
<1>. QED BY <1>3, <1>4, <1>7, <1>9, <1>10, StepRight

\* None of the stages of a document fails on the record it was handed out with.
LEMMA HeadPasses ==
  ASSUME NEW k, NEW r, InOrder(k.stages, 3), ~Failed(k.stages),
         r.root = k.b.doc, r.public = publicValues(k.b.doc),
         \A f \in {"part", "note"} : k.b.doc[f] # Null,
         k.stamped \in {None, k.b.doc.part}
  PROVE  LET p == Physical(Agree(Recompute(k, r), k, r), k, r)
         IN  InOrder(p, 6) /\ ~Failed(p)
<1>. DEFINE ps == IF k.stamped = None THEN "skipped" ELSE "pass"
            s4 == add(k.stages, "recompute", "pass")
            s5 == add(s4, "agree", "pass")
            s6 == add(s5, "physical", ps)
<1>1. \A f \in DOMAIN r.public : r.public[f] = k.b.doc[f]
  BY DEF publicValues
<1>2. r.public["part"] = k.b.doc.part
  BY DEF publicValues
<1>3. s4 = Recompute(k, r) /\ s5 = Agree(s4, k, r) /\ s6 = Physical(s5, k, r)
  BY <1>1, <1>2 DEF Recompute, Agree, Physical
<1>4. ps \in Statuses /\ ps # "fail" /\ "pass" \in Statuses /\ "pass" # "fail"
  BY DEF Statuses
<1>5. /\ StageNames[3 + 1] = "recompute" /\ StageNames[4 + 1] = "agree"
      /\ StageNames[5 + 1] = "physical"
      /\ "recompute" \in Names /\ "agree" \in Names /\ "physical" \in Names
      /\ 3 \in 0 .. 6 /\ 4 \in 0 .. 6 /\ 5 \in 0 .. 6 /\ 4 + 1 = 5
  BY DEF StageNames, Names
<1>. HIDE DEF ps
<1>6. InOrder(s4, 4) /\ ~Failed(s4)
  BY <1>4, <1>5, AddInOrder, NotFailedAdd
<1>. HIDE DEF s4
<1>7. InOrder(s5, 4 + 1)
  BY <1>4, <1>5, <1>6, AddInOrder
<1>8. ~Failed(s5)
  BY <1>4, <1>5, <1>6, NotFailedAdd
<1>. HIDE DEF s5
<1>9. InOrder(s6, 6)
  BY <1>4, <1>5, <1>7, AddInOrder
<1>10. ~Failed(s6)
  BY <1>4, <1>5, <1>7, <1>8, NotFailedAdd
<1>. HIDE DEF s6
<1>. QED BY <1>3, <1>9, <1>10

\* The record a paper was handed out with stands.
LEMMA PaperStands ==
  ASSUME WorldOK, IssuedOK(ever, papers), Clean
  PROVE  /\ repo[job.b.uri].root = job.b.doc
         /\ repo[job.b.uri].public = publicValues(job.b.doc)
         /\ job.b.doc \in Documents
<1>1. PICK e \in ever : /\ e[1] = job.b.uri
                        /\ e[2].root = job.b.doc
                        /\ e[2].public = publicValues(job.b.doc)
  BY CleanNet DEF IssuedOK
<1>2. repo[e[1]] = e[2]
  BY CleanNet
<1>3. job.b.doc \in Documents
  BY CleanNet DEF IssuedOK
<1>. QED BY <1>1, <1>2, <1>3

\* The walk goes on from the record asked about.
LEMMA AskedWalks ==
  ASSUME WorldOK, IssuedOK(ever, papers), Clean, NoneIsNoAnswer,
         Sound(job, ever, impostors), job.step # "done", Right(job, rotations, repo),
         NEW h, DOMAIN h = JobFields, h.links = job.links, h.anchor = job.anchor,
         h.kind = "bundle" => InOrder(h.stages, 6) /\ ~Failed(h.stages)
  PROVE  Right(Walk(h, job.at, repo[job.at]), rotations, repo)
<1>. DEFINE u == job.at
            r == repo[job.at]
            e == <<u, r>>
            S == Published(ever)
<1>1. /\ u \in Uris /\ e \in ever
      /\ u <= Cardinality(Uris) - Len(job.links)
  BY AskedStands DEF Right
<1>2. e[1] = u /\ e[2] = r
  OBVIOUS
<1>3. [uri |-> u, cid |-> r] \in S
  BY <1>1, <1>2 DEF Published
<1>. HIDE DEF e
<1>4. Genuine(e, ever)
  BY <1>1, CleanNet
<1>5. r.prev = None \/ (r.prev \in Uris /\ r.prev < u)
  BY <1>2, <1>4 DEF Genuine
<1>6. h.links \in Seq(S) /\ u <= Cardinality(Uris) - Len(h.links) /\ h.anchor = rotations
  BY <1>1 DEF Sound, PathOK, Right
<1>7. Cardinality(Uris) <= MAX_CHAIN_DEPTH + 1
  BY DEF Clean
<1>. HIDE DEF u, r, S
<1>8. Right(Walk(h, u, r), rotations, repo)
  BY <1>1, <1>3, <1>5, <1>6, <1>7, WalkRight
<1>. QED BY <1>8 DEF u, r

\* The record of a genuine document passes every stage, and the walk begins.
LEMMA CheckHeadRight ==
  ASSUME WorldOK, IssuedOK(ever, papers), Clean, NoneIsNoAnswer, NothingBlank,
         Sound(job, ever, impostors), job.step = "proof", AtHead(job),
         Right(job, rotations, repo),
         NEW proof, proof.key = <<Owner[job.at], rotations[Owner[job.at]]>>,
         proof.record = repo[job.at]
  PROVE  Right(CheckHead(job, proof), rotations, repo)
<1>. DEFINE dated == IF job.dated THEN "pass" ELSE "warn"
            signed == add(add(job.stages, "fetch", "pass"), "signature", dated)
            k == [job EXCEPT !.stages = signed]
            r == proof.record
            p == Physical(Agree(Recompute(k, r), k, r), k, r)
            h == [k EXCEPT !.stages = p]
<1>1. proof.key \in job.keys
  BY DEF Right
<1>2. r # None /\ r = repo[job.at] /\ job.at = job.b.uri
  BY AskedStands DEF Right, Sound, NextOK, AtHead
<1>3. CheckHead(job, proof) = Walk(h, job.at, r)
  BY <1>1, <1>2 DEF CheckHead, verifyWithAnyKey
<1>4. /\ DOMAIN k = JobFields /\ k.b = job.b /\ k.stamped = job.stamped
      /\ k.stages = signed
  BY DEF Sound, Shaped, JobFields
<1>5. /\ DOMAIN h = JobFields /\ h.links = job.links /\ h.anchor = job.anchor
      /\ h.stages = p
  BY DEF Sound, Shaped, JobFields
<1>6. InOrder(signed, 3) /\ ~Failed(signed)
  <2>. DEFINE fetched == add(job.stages, "fetch", "pass")
  <2>1. /\ StageNames[1 + 1] = "fetch" /\ StageNames[2 + 1] = "signature"
        /\ "fetch" \in Names /\ "signature" \in Names
        /\ 1 \in 0 .. 6 /\ 2 \in 0 .. 6 /\ 1 + 1 = 2 /\ 2 + 1 = 3
    BY DEF StageNames, Names
  <2>2. "pass" \in Statuses /\ "pass" # "fail" /\ dated \in Statuses /\ dated # "fail"
    BY DEF Statuses
  <2>3. InOrder(job.stages, 1) /\ ~Failed(job.stages)
    BY DEF Sound, StagesOK, Right, AtHead
  <2>. HIDE DEF dated
  <2>4. InOrder(fetched, 1 + 1)
    BY <2>1, <2>2, <2>3, AddInOrder
  <2>5. ~Failed(fetched)
    BY <2>1, <2>2, <2>3, NotFailedAdd
  <2>. HIDE DEF fetched
  <2>6. InOrder(fetched, 2)
    BY <2>1, <2>4
  <2>7. InOrder(add(fetched, "signature", dated), 2 + 1)
    BY <2>1, <2>2, <2>6, AddInOrder
  <2>8. ~Failed(add(fetched, "signature", dated))
    BY <2>1, <2>2, <2>5, <2>6, NotFailedAdd
  <2>. QED BY <2>1, <2>7, <2>8 DEF fetched
<1>. HIDE DEF k, signed
<1>7. InOrder(p, 6) /\ ~Failed(p)
  <2>1. r.root = k.b.doc /\ r.public = publicValues(k.b.doc) /\ k.b.doc \in Documents
    BY <1>2, <1>4, PaperStands
  <2>2. k.stamped \in {None, k.b.doc.part}
    BY <1>4 DEF Clean
  <2>3. \A f \in {"part", "note"} : k.b.doc[f] # Null
    BY <2>1 DEF NothingBlank
  <2>4. InOrder(k.stages, 3) /\ ~Failed(k.stages)
    BY <1>4, <1>6
  <2>. HIDE DEF r
  <2>. QED BY <2>1, <2>2, <2>3, <2>4, HeadPasses
<1>. HIDE DEF h, p
<1>8. Right(Walk(h, job.at, repo[job.at]), rotations, repo)
  BY <1>5, <1>7, AskedWalks
<1>. QED BY <1>2, <1>3, <1>8

LEMMA AskProofRight ==
  ASSUME GenuineInv, NoneIsNoAnswer, NothingBlank, AskProof
  PROVE  GenuineInv'
<1>1. PICK failed \in BOOLEAN :
        LET proof == Asked(getRecordProof(job.at), failed)
        IN  Step(failed, IF proof = None THEN FailAt(job, "fetch", "unreachable")
                         ELSE CheckHead(job, proof))
  BY DEF AskProof
<1>. DEFINE proof == Asked(getRecordProof(job.at), failed)
            g == FailAt(job, "fetch", "unreachable")
            h == CheckHead(job, proof)
            next == IF proof = None THEN g ELSE h
<1>2. job.step = "proof" /\ AtHead(job)
  BY DEF AskProof, AtDocument, AtHead
<1>3. /\ job # Idle /\ WorldOK /\ IssuedOK(ever, papers)
      /\ Sound(job, ever, impostors) /\ DOMAIN job = JobFields
      /\ Clean => Right(job, rotations, repo)
  BY <1>2, UnderWay
<1>4. VerifyInv'
  BY <1>3, AskProofSound
<1>5. ASSUME ~failed
      PROVE  /\ proof # None
             /\ proof.key = <<Owner[job.at], rotations[Owner[job.at]]>>
             /\ proof.record = repo[job.at]
  BY <1>5 DEF Asked, getRecordProof, Key, NoneIsNoAnswer
<1>6. Step(failed, next)
  BY <1>1
<1>. HIDE DEF proof
<1>7. Kept(g, job) /\ Kept(h, job)
  BY <1>3, KeptFailAt, KeptCheckHead
<1>8. ASSUME ~failed, Clean
      PROVE  Right(h, rotations, repo)
  BY <1>2, <1>3, <1>5, <1>8, CheckHeadRight
<1>. HIDE DEF g, h
<1>9. Kept(next, job)
  BY <1>7
<1>10. ASSUME ~failed, Clean
       PROVE  Right(next, rotations, repo)
  <2>1. next = h
    BY <1>5, <1>10
  <2>. HIDE DEF next
  <2>. QED BY <1>8, <1>10, <2>1
<1>. HIDE DEF next
<1>. QED BY <1>3, <1>4, <1>6, <1>9, <1>10, StepRight

LEMMA AskNextRight ==
  ASSUME GenuineInv, NoneIsNoAnswer, AskNext
  PROVE  GenuineInv'
<1>1. PICK failed \in BOOLEAN :
        LET proof == Asked(getRecordProof(job.at), failed)
        IN  Step(failed, IF proof = None THEN Stop(job, FALSE, "unreachable")
                         ELSE [job EXCEPT !.proof = proof, !.step = "check",
                                          !.anchor = IF job.kind = "fetch" THEN rotations
                                                     ELSE @])
  BY DEF AskNext
<1>. DEFINE proof == Asked(getRecordProof(job.at), failed)
            f == [job EXCEPT !.proof = proof, !.step = "check",
                             !.anchor = IF job.kind = "fetch" THEN rotations ELSE @]
            g == Stop(job, FALSE, "unreachable")
            next == IF proof = None THEN g ELSE f
<1>2. job.step = "proof" /\ ~AtHead(job)
  BY DEF AskNext, AtDocument, AtHead
<1>3. /\ job # Idle /\ WorldOK /\ IssuedOK(ever, papers)
      /\ Sound(job, ever, impostors) /\ DOMAIN job = JobFields
      /\ Clean => Right(job, rotations, repo)
  BY <1>2, UnderWay
<1>4. VerifyInv'
  BY <1>3, AskNextSound
<1>5. ASSUME ~failed
      PROVE  /\ proof # None
             /\ proof.key = <<Owner[job.at], rotations[Owner[job.at]]>>
             /\ proof.record = repo[job.at]
  BY <1>5 DEF Asked, getRecordProof, Key, NoneIsNoAnswer
<1>6. Step(failed, next)
  BY <1>1
<1>. HIDE DEF proof
<1>7. Kept(f, job)
  BY <1>3 DEF Kept, JobFields
<1>8. Kept(g, job)
  BY <1>3, KeptStop
<1>9. /\ f.anchor \in {rotations, job.anchor} /\ f.kind = job.kind /\ f.links = job.links
      /\ f.at = job.at /\ f.step = "check" /\ f.seen = job.seen /\ f.proof = proof /\ f.stages = job.stages
  BY <1>3 DEF JobFields
<1>. HIDE DEF f, g
<1>10. Kept(next, job)
  BY <1>7, <1>8
<1>11. ASSUME ~failed, Clean
       PROVE  Right(next, rotations, repo)
  <2>1. Right(f, rotations, repo)
    BY <1>2, <1>3, <1>5, <1>9, <1>11 DEF Right
  <2>2. next = f
    BY <1>5, <1>11
  <2>. HIDE DEF next
  <2>. QED BY <2>1, <2>2
<1>. HIDE DEF next
<1>. QED BY <1>3, <1>4, <1>6, <1>10, <1>11, StepRight

\* The predecessor stands as it was pinned, and is of the one part there is.
LEMMA FollowRight ==
  ASSUME WorldOK, IssuedOK(ever, papers), Clean, NoneIsNoAnswer,
         Sound(job, ever, impostors), job.step = "check", job.links # << >>,
         Right(job, rotations, repo)
  PROVE  Right(Follow(job, repo[job.at]), rotations, repo)
<1>. DEFINE r == repo[job.at]
            last == Last(job.links)
            e == <<job.at, r>>
            f == <<last.uri, last.cid>>
<1>1. e \in ever /\ r # None /\ job.pin = r
  BY AskedStands DEF Right
<1>2. f \in ever
  <2>1. last \in Published(ever)
    BY DEF Sound, PathOK, Last
  <2>. HIDE DEF last
  <2>2. PICK x \in ever : last = [uri |-> x[1], cid |-> x[2]]
    BY <2>1 DEF Published
  <2>3. x = <<x[1], x[2]>>
    BY DEF WorldOK
  <2>. QED BY <2>2, <2>3
<1>3. e[2] = r /\ f[2] = last.cid
  OBVIOUS
<1>. HIDE DEF e, f
<1>4. r.public["part"] = last.cid.public["part"]
  <2>1. e[2].public["part"] = f[2].public["part"]
    BY <1>1, <1>2, CleanNet
  <2>. QED BY <1>3, <2>1
<1>5. Follow(job, r) = Walk(job, job.at, r)
  BY <1>1, <1>4 DEF Follow, Last
<1>6. DOMAIN job = JobFields
  BY DEF Sound, Shaped
<1>7. job.kind = "bundle" => InOrder(job.stages, 6) /\ ~Failed(job.stages)
  BY DEF Sound, StagesOK, Right
<1>8. Right(Walk(job, job.at, repo[job.at]), rotations, repo)
  BY <1>6, <1>7, AskedWalks
<1>. QED BY <1>5, <1>8

\* The first record of a history, or a record alone, is there.
LEMMA FirstRight ==
  ASSUME WorldOK, IssuedOK(ever, papers), Clean, NoneIsNoAnswer,
         Sound(job, ever, impostors), job.step = "check", job.links = << >>,
         Right(job, rotations, repo)
  PROVE  Right(IF job.kind = "trace" THEN TraceRecord(job, repo[job.at])
               ELSE FetchRecord(job, repo[job.at]), rotations, repo)
<1>. DEFINE r == repo[job.at]
            link == [uri |-> job.at, cid |-> r]
            reached == r.root # None
            k == [job EXCEPT !.reached = reached, !.links = <<link>>]
            f == finish(k, "fetched")
<1>1. /\ r # None /\ job.at = job.b.uri /\ job.at \in Uris
      /\ job.at <= Cardinality(Uris) - Len(job.links)
  BY AskedStands DEF Right, Sound, NextOK
<1>2. DOMAIN job = JobFields /\ job.kind # "bundle"
  BY DEF Sound, Shaped, StagesOK
<1>3. Right(Walk(job, job.at, r), rotations, repo)
  BY <1>2, AskedWalks
<1>4. reached
  BY <1>1, PaperStands, VerifyAssumption
<1>5. link.uri = job.at
  OBVIOUS
<1>6. FetchRecord(job, r) = f
  BY <1>1 DEF FetchRecord
<1>. HIDE DEF r, link, reached
<1>7. /\ DOMAIN k = JobFields /\ k.kind = job.kind /\ k.anchor = job.anchor
      /\ k.reached = reached /\ k.links = <<link>>
  BY <1>2 DEF JobFields
<1>. HIDE DEF k
<1>8. f.kind = job.kind /\ f.anchor = job.anchor
  BY <1>7, KeptFinish DEF Kept
<1>9. f.links = <<link>> /\ f.step = "done" /\ f.reached = reached
  BY <1>7, FinishIs
<1>. HIDE DEF f
<1>10. Right(f, rotations, repo)
  <2>. DEFINE C == Cardinality(Uris)
  <2>1. C \in Nat /\ Uris = 1 .. C
    BY VerifyAssumption, FS_CardinalityType
  <2>2. Len(job.links) = 0 /\ Len(f.links) = 1 /\ Last(f.links) = link
    BY <1>9 DEF Last
  <2>3. link.uri <= C
    BY <1>1, <1>5, <2>1, <2>2
  <2>. HIDE DEF C
  <2>4. link.uri <= C + 1 - 1
    BY <2>1, <2>3
  <2>. QED BY <1>2, <1>4, <1>8, <1>9, <2>2, <2>4 DEF Right, C
<1>. QED BY <1>1, <1>3, <1>6, <1>10 DEF TraceRecord, r

LEMMA CheckProofRight ==
  ASSUME GenuineInv, NoneIsNoAnswer, CheckProof
  PROVE  GenuineInv'
<1>. DEFINE first == IF job.kind = "trace" THEN TraceRecord(job, job.proof.record)
                     ELSE FetchRecord(job, job.proof.record)
            unsigned == Stop(job, FALSE, "unsigned")
            follow == Follow(job, job.proof.record)
            next(keys) ==
              CASE ~verifyWithAnyKey(job.proof, keys) -> unsigned
                [] verifyWithAnyKey(job.proof, keys) /\ job.links # << >> -> follow
                [] verifyWithAnyKey(job.proof, keys) /\ job.links = << >> -> first
<1>1. PICK failed \in BOOLEAN :
        Step(failed, next(KeysOr(Asked(signingKeysAt(Owner[job.at], job.anchor), failed))))
  BY DEF CheckProof
<1>. DEFINE keys == KeysOr(Asked(signingKeysAt(Owner[job.at], job.anchor), failed))
<1>2. job.step = "check"
  BY DEF CheckProof
<1>3. /\ job # Idle /\ WorldOK /\ IssuedOK(ever, papers)
      /\ Sound(job, ever, impostors) /\ DOMAIN job = JobFields
      /\ Clean => Right(job, rotations, repo)
  BY <1>2, UnderWay
<1>4. VerifyInv'
  BY <1>3, CheckProofSound
<1>5. ASSUME ~failed, Clean
      PROVE  verifyWithAnyKey(job.proof, keys)
  <2>1. failed = FALSE
    BY <1>5
  <2>2. keys = {<<Owner[job.at], rotations[Owner[job.at]]>>}
    BY <1>2, <1>3, <1>5, <2>1, KeysInForce
  <2>. QED BY <1>2, <1>3, <1>5, <2>2 DEF verifyWithAnyKey, Right
<1>6. Kept(unsigned, job) /\ Kept(follow, job) /\ Kept(first, job)
  BY <1>3, KeptStop, KeptFollow, KeptFirst
<1>7. ASSUME Clean, job.links # << >>
      PROVE  Right(follow, rotations, repo)
  <2>1. job.proof.record = repo[job.at]
    BY <1>2, <1>3, <1>7 DEF Right
  <2>. QED BY <1>2, <1>3, <1>7, <2>1, FollowRight
<1>8. ASSUME Clean, job.links = << >>
      PROVE  Right(first, rotations, repo)
  <2>1. job.proof.record = repo[job.at]
    BY <1>2, <1>3, <1>8 DEF Right
  <2>. QED BY <1>2, <1>3, <1>8, <2>1, FirstRight
<1>9. Step(failed, next(keys))
  BY <1>1
<1>. HIDE DEF keys, first, unsigned, follow
<1>10. Kept(next(keys), job)
  <2>1. next(keys) \in {unsigned, follow, first}
    OBVIOUS
  <2>. HIDE DEF next
  <2>. QED BY <1>6, <2>1
<1>11. ASSUME ~failed, Clean
       PROVE  Right(next(keys), rotations, repo)
  <2>1. next(keys) = IF job.links # << >> THEN follow ELSE first
    BY <1>5, <1>11
  <2>. HIDE DEF next
  <2>. QED BY <1>7, <1>8, <1>11, <2>1
<1>. HIDE DEF next
<1>. QED BY <1>3, <1>4, <1>9, <1>10, <1>11, StepRight

\* A question begins.
LEMMA StartRight ==
  ASSUME GenuineInv, NEW kind \in {"bundle", "trace", "fetch"}, NEW b, NEW stamped,
         Start(NewJob(kind, b, stamped)), VerifyInv'
  PROVE  GenuineInv'
<1>. DEFINE j == NewJob(kind, b, stamped)
<1>1. /\ j.anchor = rotations /\ j.links = << >> /\ j.stages = << >>
      /\ j.step = (IF kind = "bundle" THEN "handle" ELSE "did")
  BY DEF NewJob
<1>2. /\ job' = j
      /\ repo' = repo /\ rotations' = rotations /\ papers' = papers /\ ever' = ever
  BY DEF Start, world
<1>. HIDE DEF j
<1>3. ~Failed(j.stages)
  BY <1>1 DEF Failed
<1>4. Right(job', rotations', repo')
  BY <1>1, <1>2, <1>3 DEF Right
<1>. QED BY <1>2, <1>4 DEF GenuineInv

LEMMA VerifyBundleRight ==
  ASSUME GenuineInv, NEW b \in Bundles, NEW stamped, verifyBundle(b, stamped)
  PROVE  GenuineInv'
<1>1. VerifyInv'
  BY VerifyBundleSound DEF GenuineInv, VerifyInv
<1>2. CASE b.uri # Malformed
  <2>1. Start(NewJob("bundle", b, stamped))
    BY <1>2 DEF verifyBundle
  <2>. QED BY <1>1, <2>1, StartRight
<1>3. CASE b.uri = Malformed
  <2>. DEFINE j == NewJob("bundle", b, stamped)
              g == FailAt(j, "resolve", "malformed")
  <2>1. job' = g /\ papers' = papers /\ ever' = ever
    BY <1>3 DEF verifyBundle, Start, world
  <2>2. DOMAIN j = JobFields /\ j.b = b
    BY DEF NewJob, JobFields
  <2>. HIDE DEF j
  <2>3. g.b = b
    BY <2>2, KeptFailAt DEF Kept
  <2>. HIDE DEF g
  <2>4. b \notin papers
    BY <1>3, VerifyAssumption DEF GenuineInv, VerifyInv, WorldOK
  <2>5. ~Clean'
    BY <2>1, <2>3, <2>4 DEF Clean
  <2>. QED BY <1>1, <2>1, <2>5 DEF GenuineInv
<1>. QED BY <1>2, <1>3

----------------------------------------------------------------------------
(* Steps of the network.                                                   *)

\* Whatever the network does, it has not kept still.
LEMMA DisturbedRight ==
  ASSUME GenuineInv, VerifyInv', IssuedOK(ever', papers'),
         job' = IF job = Idle THEN Idle ELSE Disturbed
  PROVE  GenuineInv'
<1>1. ASSUME job' # Idle
      PROVE  ~Clean'
  <2>1. DOMAIN job = JobFields /\ job' = [job EXCEPT !.quiet = FALSE]
    BY <1>1 DEF GenuineInv, VerifyInv, Sound, Shaped, Disturbed
  <2>2. job'.quiet = FALSE
    BY <2>1 DEF JobFields
  <2>. QED BY <2>2 DEF Clean
<1>. QED BY <1>1 DEF GenuineInv

\* What was genuine or changed is so with one more.
LEMMA StillIssued ==
  ASSUME NEW E, NEW F, E \subseteq F, NEW e, Genuine(e, E) \/ Changed(e, E)
  PROVE  Genuine(e, F) \/ Changed(e, F)
BY DEF Genuine, Changed

LEMMA IssueRight ==
  ASSUME GenuineInv, NEW u \in Uris, NEW doc \in Documents, NEW prev, Issue(u, doc, prev)
  PROVE  GenuineInv'
<1>. DEFINE pin == IF prev = None THEN None ELSE repo[prev]
            r == Record(doc, doc, prev, pin)
            e == <<u, r>>
            b == [uri |-> u, handle |-> HomeHandle[Owner[u]], doc |-> doc]
            C == Cardinality(Uris)
            at(E) == {v \in Uris : \E x \in E : x[1] = v}
<1>1. VerifyInv'
  BY IssueSound DEF GenuineInv
<1>2. /\ u = Cardinality(Issued) + 1
      /\ prev \in Issued \cup {None}
      /\ prev # None => repo[prev] # None
      /\ ever' = ever \cup {e}
      /\ papers' = papers \cup {b}
      /\ job' = IF job = Idle THEN Idle ELSE Disturbed
  BY DEF Issue
<1>3. e[1] = u /\ e[2] = r
  OBVIOUS
<1>4. /\ r.root = doc /\ r.public = publicValues(doc) /\ r.prev = prev /\ r.pin = pin
  BY DEF Record
<1>5. PICK n \in 0 .. C : Issued = 1 .. n
  BY DEF GenuineInv, IssuedOK, Issued
<1>6. C \in Nat /\ Uris = 1 .. C
  BY VerifyAssumption, FS_CardinalityType
<1>7. u = n + 1 /\ n + 1 \in 0 .. C
  <2>1. n \in Nat
    BY <1>6
  <2>2. Cardinality(1 .. n) = n
    BY <2>1, FS_Interval
  <2>3. u = n + 1
    BY <1>2, <1>5, <2>2
  <2>4. u \in 1 .. C
    BY <1>6
  <2>. HIDE DEF C
  <2>. QED BY <2>1, <2>3, <2>4, <1>6
<1>8. b.uri = u /\ b.handle = HomeHandle[Owner[u]] /\ b.doc = doc
  OBVIOUS
<1>. HIDE DEF e, r, b, C
<1>9. at(ever') = 1 .. n + 1
  <2>1. at(ever') = at(ever) \cup {u}
    BY <1>2, <1>3
  <2>2. at(ever) = 1 .. n
    BY <1>5 DEF Issued
  <2>. QED BY <1>6, <1>7, <2>1, <2>2
<1>10. IsFiniteSet(ever')
  BY <1>2, FS_AddElement DEF GenuineInv, IssuedOK
<1>11. Genuine(e, ever')
  <2>1. CASE prev = None
    BY <1>3, <1>4, <2>1 DEF Genuine
  <2>2. CASE prev # None
    <3>1. prev \in 1 .. n /\ prev \in Uris /\ repo[prev] # None
      BY <1>2, <1>5, <2>2 DEF Issued
    <3>2. prev < u
      BY <1>6, <1>7, <3>1
    <3>3. <<prev, pin>> \in ever
      BY <2>2, <3>1 DEF GenuineInv, VerifyInv, WorldOK
    <3>. QED BY <1>2, <1>3, <1>4, <3>1, <3>2, <3>3 DEF Genuine
  <2>. QED BY <2>1, <2>2
<1>12. \A x \in ever' : Genuine(x, ever') \/ Changed(x, ever')
  <2>1. \A x \in ever : Genuine(x, ever') \/ Changed(x, ever')
    <3>. TAKE x \in ever
    <3>1. Genuine(x, ever) \/ Changed(x, ever)
      BY DEF GenuineInv, IssuedOK
    <3>2. ever \subseteq ever'
      BY <1>2
    <3>. QED BY <3>1, <3>2, StillIssued
  <2>. QED BY <1>2, <1>11, <2>1
<1>13. ASSUME NEW x \in papers'
       PROVE  /\ x.handle = HomeHandle[Owner[x.uri]]
              /\ x.doc \in Documents
              /\ \E f \in ever' : /\ f[1] = x.uri
                                  /\ f[2].root = x.doc
                                  /\ f[2].public = publicValues(x.doc)
  <2>1. CASE x \in papers
    BY <1>2, <2>1 DEF GenuineInv, IssuedOK
  <2>2. CASE x = b
    <3>1. e \in ever'
      BY <1>2
    <3>. QED BY <1>3, <1>4, <1>8, <2>2, <3>1
  <2>. QED BY <1>2, <1>13, <2>1, <2>2
<1>14. IssuedOK(ever', papers')
  BY <1>7, <1>9, <1>10, <1>12, <1>13 DEF IssuedOK, C
<1>. QED BY <1>1, <1>2, <1>14, DisturbedRight

LEMMA RewriteRight ==
  ASSUME GenuineInv, NEW u \in Uris, Rewrite(u)
  PROVE  GenuineInv'
<1>1. PICK r \in Rewritten(repo[u]) \ {repo[u]} :
        /\ repo' = [repo EXCEPT ![u] = r]
        /\ ever' = ever \cup {<<u, r>>}
  BY DEF Rewrite
<1>. DEFINE e == <<u, r>>
            f == <<u, repo[u]>>
            at(E) == {v \in Uris : \E x \in E : x[1] = v}
<1>2. /\ papers' = papers
      /\ job' = IF job = Idle THEN Idle ELSE Disturbed
      /\ repo[u] # None
  BY DEF Rewrite, Change
<1>3. VerifyInv'
  BY RewriteSound DEF GenuineInv
<1>4. f \in ever /\ e # f /\ e[1] = u /\ f[1] = u
  BY <1>2 DEF GenuineInv, VerifyInv, WorldOK
<1>5. ever' = ever \cup {e}
  BY <1>1
<1>. HIDE DEF e, f
<1>6. at(ever') = at(ever)
  BY <1>4, <1>5
<1>7. IsFiniteSet(ever')
  BY <1>5, FS_AddElement DEF GenuineInv, IssuedOK
<1>8. \A x \in ever' : Genuine(x, ever') \/ Changed(x, ever')
  <2>1. \A x \in ever : Genuine(x, ever') \/ Changed(x, ever')
    <3>. TAKE x \in ever
    <3>1. Genuine(x, ever) \/ Changed(x, ever)
      BY DEF GenuineInv, IssuedOK
    <3>2. ever \subseteq ever'
      BY <1>5
    <3>. QED BY <3>1, <3>2, StillIssued
  <2>2. Changed(e, ever')
    BY <1>4, <1>5 DEF Changed
  <2>. QED BY <1>5, <2>1, <2>2
<1>9. IssuedOK(ever', papers')
  BY <1>2, <1>5, <1>6, <1>7, <1>8 DEF GenuineInv, IssuedOK
<1>. QED BY <1>2, <1>3, <1>9, DisturbedRight

LEMMA NetworkRight ==
  ASSUME GenuineInv, Network
  PROVE  GenuineInv'
<1>1. CASE \E u \in Uris, doc \in Documents, prev \in Uris \cup {None} : Issue(u, doc, prev)
  BY <1>1, IssueRight
<1>2. CASE \E u \in Uris : Rewrite(u)
  BY <1>2, RewriteRight
<1>3. CASE \/ \E u \in Uris : Delete(u)
           \/ \E d \in Dids : rotateKey(d) \/ publishWrongKey(d)
           \/ \E h \in Handles, d \in Dids \cup {None} : repointHandle(h, d)
  <2>1. /\ ever' = ever /\ papers' = papers
        /\ job' = IF job = Idle THEN Idle ELSE Disturbed
    BY <1>3 DEF Delete, rotateKey, publishWrongKey, repointHandle, Change
  <2>2. VerifyInv'
    BY NetworkSound DEF GenuineInv
  <2>. QED BY <2>1, <2>2, DisturbedRight DEF GenuineInv
<1>. QED BY <1>1, <1>2, <1>3 DEF Network

LEMMA VerifierRight ==
  ASSUME GenuineInv, NoneIsNoAnswer, NothingBlank, Verifier
  PROVE  GenuineInv'
<1>1. CASE \E b \in Bundles, stamped \in {None} \cup {doc.part : doc \in Documents} :
             verifyBundle(b, stamped)
  BY <1>1, VerifyBundleRight
<1>2. CASE \E b \in papers : traceChain(b) \/ fetchVerifiedRelease(b)
  <2>1. PICK b \in papers : traceChain(b) \/ fetchVerifiedRelease(b)
    BY <1>2
  <2>2. PICK kind \in {"bundle", "trace", "fetch"} : Start(NewJob(kind, b, None))
    BY <2>1 DEF traceChain, fetchVerifiedRelease
  <2>3. VerifyInv'
    BY VerifierSound DEF GenuineInv
  <2>. QED BY <2>2, <2>3, StartRight
<1>3. CASE ResolveHandle \/ ResolveDid \/ AskKeys \/ AskProof \/ ResolveNext \/ AskNext \/ CheckProof
  BY <1>3, ResolveHandleRight, ResolveDidRight, AskKeysRight, AskProofRight,
     ResolveNextRight, AskNextRight, CheckProofRight
<1>. QED BY <1>1, <1>2, <1>3 DEF Verifier

LEMMA InitGenuine == Init => GenuineInv
<1>1. ASSUME Init
      PROVE  IssuedOK(ever, papers)
  <2>1. ever = {} /\ papers = {}
    BY <1>1 DEF Init
  <2>2. {u \in Uris : \E e \in ever : e[1] = u} = 1 .. 0
    BY <2>1
  <2>3. 0 \in 0 .. Cardinality(Uris)
    BY VerifyAssumption, FS_CardinalityType
  <2>. QED BY <2>1, <2>2, <2>3, FS_EmptySet DEF IssuedOK
<1>. QED BY <1>1, InitVerify DEF Init, GenuineInv

LEMMA StutterGenuine ==
  ASSUME GenuineInv, UNCHANGED vars
  PROVE  GenuineInv'
<1>1. VerifyInv'
  BY StutterSound DEF GenuineInv
<1>2. Clean' => Clean
  BY DEF Clean, Unrewritten, vars, world
<1>3. /\ ever' = ever /\ papers' = papers /\ job' = job
      /\ rotations' = rotations /\ repo' = repo
  BY DEF vars, world
<1>. QED BY <1>1, <1>2, <1>3 DEF GenuineInv

\* On a network that keeps still and answers, a document as it was handed out
\* verifies, and every history traces back to birth, however often keys have
\* rotated before: where no document has a blank public field (MCVerifyBlank
\* shows what happens to one that has).
THEOREM GenuinePasses ==
  ASSUME NothingBlank, NoneIsNoAnswer
  PROVE  Spec => []GenuineVerifies
<1>1. Init => GenuineInv
  BY InitGenuine
<1>2. GenuineInv /\ [Next]_vars => GenuineInv'
  BY NetworkRight, VerifierRight, StutterGenuine DEF Next
<1>3. GenuineInv => GenuineVerifies
  BY DEF GenuineInv, GenuineVerifies, Done, Idle, Right, Verified
<1>. QED BY <1>1, <1>2, <1>3, PTL DEF Spec
=============================================================================
