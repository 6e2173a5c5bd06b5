----------------------------- MODULE DeskProofs -----------------------------
(***************************************************************************)
(* What holds of the desk for any organizations, parts, tabs, deployments  *)
(* and numbers of requests at once: that an organization's word for a part *)
(* of its own rests on a check, that a part leaves its list for a cause,   *)
(* and that production stays live.                                         *)
(***************************************************************************)
EXTENDS Desk, FiniteSetTheorems, TLAPS

\* A page of a part is a page of a part there is.
PageOK(page) == page.at \in {"paper", "vouch"} => page.of \in Releases

TabsOK ==
  /\ tabs = [t \in Tabs |-> tabs[t]]
  /\ \A t \in Tabs : PageOK(tabs[t])

\* A request for a document that did not verify when the button was pressed is
\* still at its check, where it ends: what is spoilt stays spoilt.
CallOK(c) ==
  /\ c = [id |-> c.id, by |-> c.by, of |-> c.of, how |-> c.how, step |-> c.step]
  /\ c.of \in Releases
  /\ c.how = "unchecked" => c.step = "check" /\ ~holds[c.of]

CallsOK ==
  /\ holds \in [Releases -> BOOLEAN]
  /\ \A c \in calls : CallOK(c)

\* CheckedBeforeSaid is about what was published; what makes it inductive is what
\* the requests under way will publish, and of which parts the pages can ask it.
CheckInv == TabsOK /\ CallsOK /\ CheckedBeforeSaid

----------------------------------------------------------------------------
(* Steps.                                                                  *)

\* Showing a page that is of a part there is, or of none, keeps every tab so.
LEMMA ShowKeeps ==
  ASSUME TabsOK, NEW t \in Tabs, NEW page, PageOK(page), Show(t, page)
  PROVE  TabsOK'
<1>1. tabs' = [s \in Tabs |-> IF s = t THEN page ELSE tabs[s]]
  BY DEF TabsOK, Show
<1>2. \A s \in Tabs : PageOK(tabs'[s])
  BY <1>1 DEF TabsOK
<1>. QED BY <1>1, <1>2 DEF TabsOK, PageOK

\* Pages that are of no part.
LEMMA OtherPages ==
  /\ PageOK(Blank)
  /\ \A who : PageOK([at |-> "draft", as |-> who])
  /\ \A who, form : PageOK(createRelease(who, form))
  /\ \A u \in Releases : PageOK(verifyPage(u))
BY DEF PageOK, Blank, createRelease, verifyPage

\* A step that leaves the requests, the parts and what was said alone.
LEMMA CallsUntouched ==
  ASSUME CallsOK, CheckedBeforeSaid, UNCHANGED <<holds, calls, said>>
  PROVE  CallsOK' /\ CheckedBeforeSaid'
BY DEF CallsOK, CallOK, CheckedBeforeSaid

LEMMA InitChecked == Init => CheckInv
<1>. SUFFICES ASSUME Init PROVE CheckInv
  OBVIOUS
<1>1. TabsOK
  BY OtherPages DEF Init, TabsOK
<1>2. CallsOK /\ CheckedBeforeSaid
  BY DEF Init, CallsOK, CheckedBeforeSaid
<1>. QED BY <1>1, <1>2 DEF CheckInv

\* The button: a request for a part on one's own list starts at its check.
LEMMA AttestChecked ==
  ASSUME CheckInv, NEW t \in Tabs, Attest(t)
  PROVE  CheckInv'
<1>. DEFINE u == tabs[t].of
            c == Call(u, IF OwnArrival(u) THEN "check" ELSE "write")
<1>1. tabs[t].at \in {"paper", "vouch"}
  BY DEF Attest, Offered
<1>2. u \in Releases
  BY <1>1 DEF CheckInv, TabsOK, PageOK
<1>3. /\ c = [id |-> c.id, by |-> c.by, of |-> c.of, how |-> c.how, step |-> c.step]
      /\ c.of = u
      /\ c.step = (IF OwnArrival(u) THEN "check" ELSE "write")
      /\ c.how = (CASE ~OwnArrival(u) -> "pasted"
                    [] OwnArrival(u) /\ holds[u] -> "checked"
                    [] OTHER -> "unchecked")
  BY DEF Call
<1>4. c.how = "unchecked" => OwnArrival(u) /\ ~holds[u]
  BY <1>3
<1>5. CallOK(c)
  <2>. HIDE DEF c, u
  <2>. QED BY <1>2, <1>3, <1>4 DEF CallOK
<1>6. calls' = calls \cup {c} /\ UNCHANGED <<tabs, holds, said>>
  BY DEF Attest
<1>7. CallsOK'
  <2>. HIDE DEF c
  <2>. QED BY <1>5, <1>6 DEF CheckInv, CallsOK, CallOK
<1>. QED BY <1>6, <1>7 DEF CheckInv, TabsOK, PageOK, CheckedBeforeSaid

\* The check: only what verifies goes on to the write.
LEMMA CheckChecked ==
  ASSUME CheckInv, NEW c \in calls, AttestCheck(c)
  PROVE  CheckInv'
<1>1. UNCHANGED <<tabs, holds, said>>
  BY DEF AttestCheck
<1>2. CallOK(c)
  BY DEF CheckInv, CallsOK
<1>. DEFINE d == [c EXCEPT !.step = "write"]
<1>3. d = [id |-> c.id, by |-> c.by, of |-> c.of, how |-> c.how, step |-> "write"]
  BY <1>2 DEF CallOK
<1>4. holds[c.of] => CallOK(d)
  BY <1>2, <1>3 DEF CallOK
<1>5. \A x \in calls' : CallOK(x)
  <2>1. calls' \subseteq calls \cup {x \in {d} : holds[c.of]}
    BY DEF AttestCheck
  <2>. HIDE DEF d
  <2>. QED BY <2>1, <1>4 DEF CheckInv, CallsOK
<1>. QED BY <1>1, <1>5 DEF CheckInv, TabsOK, PageOK, CallsOK, CallOK, CheckedBeforeSaid

\* The write: what it publishes was not unchecked.
LEMMA WriteChecked ==
  ASSUME CheckInv, NEW c \in calls, AttestWrite(c)
  PROVE  CheckInv'
<1>1. UNCHANGED <<tabs, holds>>
  BY DEF AttestWrite
<1>2. CallOK(c) /\ c.how # "unchecked"
  BY DEF CheckInv, CallsOK, CallOK, AttestWrite
<1>. DEFINE d == [c EXCEPT !.step = "answer"]
<1>3. d = [id |-> c.id, by |-> c.by, of |-> c.of, how |-> c.how, step |-> "answer"]
  BY <1>2 DEF CallOK
<1>4. CallOK(d)
  BY <1>2, <1>3 DEF CallOK
<1>5. \A x \in calls' : CallOK(x)
  <2>1. calls' \subseteq calls \cup {d}
    BY DEF AttestWrite
  <2>. HIDE DEF d
  <2>. QED BY <2>1, <1>4 DEF CheckInv, CallsOK
<1>6. \A s \in said' : s.how # "unchecked"
  BY <1>2 DEF AttestWrite, CheckInv, CheckedBeforeSaid
<1>. QED BY <1>1, <1>5, <1>6 DEF CheckInv, TabsOK, PageOK, CallsOK, CallOK, CheckedBeforeSaid

LEMMA NextChecked == CheckInv /\ [Next]_vars => CheckInv'
<1>. SUFFICES ASSUME CheckInv, [Next]_vars PROVE CheckInv'
  OBVIOUS
<1>. USE DEF CheckInv
<1>1. CASE Restart
  BY <1>1 DEF Restart, Fresh, TabsOK, PageOK, CallsOK, CheckedBeforeSaid
<1>2. CASE PdsFlips
  BY <1>2, CallsUntouched DEF PdsFlips, TabsOK, PageOK
<1>3. ASSUME NEW who \in Orgs \cup {Public}, actAs(who) PROVE CheckInv'
  BY <1>3, CallsUntouched DEF actAs, TabsOK, PageOK
<1>4. ASSUME NEW t \in Tabs, NEW asked \in Orgs \cup {None}, Draft(t, asked) PROVE CheckInv'
  <2>1. PICK who : Show(t, [at |-> "draft", as |-> who])
    BY <1>4 DEF Draft
  <2>2. TabsOK'
    BY <2>1, ShowKeeps, OtherPages
  <2>. QED BY <1>4, <2>2, CallsUntouched DEF Draft
<1>5. ASSUME NEW u \in Releases, HandOverPart(u) PROVE CheckInv'
  BY <1>5, CallsUntouched DEF HandOverPart, TabsOK, PageOK
<1>6. ASSUME NEW u \in Releases, GeneratorAttests(u) PROVE CheckInv'
  BY <1>6 DEF GeneratorAttests, TabsOK, PageOK, CallsOK, CallOK, CheckedBeforeSaid
<1>7. ASSUME NEW u \in Releases, Spoil(u) PROVE CheckInv'
  <2>1. /\ holds' \in [Releases -> BOOLEAN]
        /\ \A r \in Releases : ~holds[r] => ~holds'[r]
    BY <1>7 DEF Spoil, CallsOK
  <2>2. CallsOK'
    BY <1>7, <2>1 DEF Spoil, CallsOK, CallOK
  <2>. QED BY <1>7, <2>2 DEF Spoil, TabsOK, PageOK, CheckedBeforeSaid
<1>8. ASSUME NEW t \in Tabs, NEW u \in Releases, Scan(t, u) PROVE CheckInv'
  <2>1. PageOK([at |-> "paper", as |-> currentActor, of |-> u, report |-> "none"])
    BY DEF PageOK
  <2>2. TabsOK'
    BY <1>8, <2>1, ShowKeeps DEF Scan
  <2>. QED BY <1>8, <2>2, CallsUntouched DEF Scan
<1>9. ASSUME NEW t \in Tabs, NEW u \in Releases, Paste(t, u) PROVE CheckInv'
  <2>1. TabsOK'
    BY <1>9, ShowKeeps, OtherPages DEF Paste
  <2>. QED BY <1>9, <2>1, CallsUntouched DEF Paste
<1>10. ASSUME NEW t \in Tabs, Sign(t) PROVE CheckInv'
  <2>1. TabsOK'
    BY <1>10, ShowKeeps, OtherPages DEF Sign
  <2>. QED BY <1>10, <2>1, CallsUntouched DEF Sign
<1>11. ASSUME NEW t \in Tabs, CheckPart(t) PROVE CheckInv'
  <2>. DEFINE u == tabs[t].of
              page == [at |-> "paper", as |-> currentActor, of |-> u,
                       report |-> IF holds[u] THEN "pass" ELSE "fail"]
  <2>1. tabs[t].at = "paper"
    BY <1>11 DEF CheckPart, Offered
  <2>2. u \in Releases
    BY <2>1 DEF TabsOK, PageOK
  <2>3. PageOK(page)
    <3>. HIDE DEF u
    <3>. QED BY <2>2 DEF PageOK
  <2>4. TabsOK'
    BY <1>11, <2>3, ShowKeeps DEF CheckPart
  <2>. QED BY <1>11, <2>4, CallsUntouched DEF CheckPart
<1>12. ASSUME NEW t \in Tabs, ClearPart(t) PROVE CheckInv'
  <2>1. TabsOK'
    BY <1>12, ShowKeeps, OtherPages DEF ClearPart
  <2>. QED BY <1>12, <2>1, CallsUntouched DEF ClearPart
<1>13. ASSUME NEW t \in Tabs, Attest(t) PROVE CheckInv'
  BY <1>13, AttestChecked
<1>14. ASSUME NEW c \in calls, AttestCheck(c) PROVE CheckInv'
  BY <1>14, CheckChecked
<1>15. ASSUME NEW c \in calls, AttestWrite(c) PROVE CheckInv'
  BY <1>15, WriteChecked
<1>16. ASSUME NEW c \in calls, AttestAnswered(c) PROVE CheckInv'
  BY <1>16 DEF AttestAnswered, TabsOK, PageOK, CallsOK, CallOK, CheckedBeforeSaid
<1>17. CASE UNCHANGED vars
  BY <1>17, CallsUntouched DEF vars, TabsOK, PageOK
<1>. QED
  BY <1>1, <1>2, <1>3, <1>4, <1>5, <1>6, <1>7, <1>8, <1>9, <1>10, <1>11, <1>12, <1>13,
     <1>14, <1>15, <1>16, <1>17 DEF Next

----------------------------------------------------------------------------
(* The dock.                                                               *)

\* Taking a part off a list leaves the others there.
LEMMA WithoutLeaves ==
  ASSUME NEW S, NEW s \in Seq(S), NEW x
  PROVE  /\ Without(s, x) \in Seq(S)
         /\ Len(Without(s, x)) <= Len(s)
         /\ ToSet(Without(s, x)) = ToSet(s) \ {x}
  <1> DEFINE kept     == {i \in DOMAIN s : s[i] # x}
             upto(i)  == {h \in kept : h <= i}
             place(i) == Cardinality(upto(i))
             n        == Cardinality(kept)
             f        == [i \in kept |-> place(i)]
             at(k)    == CHOOSE i \in kept : place(i) = k
  <1>1. /\ DOMAIN s = 1 .. Len(s) /\ Len(s) \in Nat
        /\ kept \subseteq 1 .. Len(s)
        /\ \A i \in kept : s[i] \in S /\ s[i] # x
    <2>1. DOMAIN s = 1 .. Len(s) /\ Len(s) \in Nat /\ \A i \in 1 .. Len(s) : s[i] \in S
      OBVIOUS
    <2> QED BY <2>1
  <1>2. /\ IsFiniteSet(kept) /\ n \in Nat /\ n <= Len(s)
    <2>1. IsFiniteSet(1 .. Len(s)) /\ Cardinality(1 .. Len(s)) = Len(s)
      <3>1. 1 \in Int /\ Len(s) \in Int /\ Len(s) >= 0
        BY <1>1
      <3> HIDE DEF kept
      <3> QED BY <3>1, FS_Interval, SMTT(30)
    <2>2. IsFiniteSet(kept) /\ Cardinality(kept) <= Cardinality(1 .. Len(s))
      BY <1>1, <2>1, FS_Subset
    <2> QED BY <2>1, <2>2, FS_CardinalityType
  <1>3. \A i \in kept : /\ IsFiniteSet(upto(i)) /\ place(i) \in 1 .. n
                        /\ \A k \in kept : i < k => upto(i) # upto(k) /\ upto(i) \subseteq upto(k)
    <2>1. SUFFICES ASSUME NEW i \in kept
                   PROVE  /\ IsFiniteSet(upto(i)) /\ place(i) \in 1 .. n
                          /\ \A k \in kept : i < k => /\ upto(i) # upto(k)
                                                      /\ upto(i) \subseteq upto(k)
      OBVIOUS
    <2>2. i \in upto(i) /\ upto(i) \in SUBSET kept
      BY <1>1
    <2>3. IsFiniteSet(upto(i)) /\ place(i) <= n
      BY <1>2, <2>2, FS_Subset
    <2>4. place(i) \in Nat /\ place(i) # 0
      BY <2>2, <2>3, FS_CardinalityType, FS_EmptySet
    <2>5. \A k \in kept : i < k => k \in upto(k) /\ k \notin upto(i) /\ upto(i) \subseteq upto(k)
      BY <1>1
    <2> HIDE DEF kept, upto, n
    <2> QED BY <1>2, <2>3, <2>4, <2>5
  <1>4. \A i, k \in kept : place(i) = place(k) => i = k
    <2>1. SUFFICES ASSUME NEW i \in kept, NEW k \in kept, i < k
                   PROVE  place(i) # place(k)
      <3> HIDE DEF place
      <3> QED BY <1>1
    <2>2. upto(i) \in SUBSET upto(k) /\ upto(i) # upto(k) /\ IsFiniteSet(upto(k))
      BY <1>3, <2>1
    <2> HIDE DEF upto, kept
    <2> QED BY <2>2, FS_Subset
  <1>5. f \in Injection(kept, 1 .. n)
    <2> HIDE DEF place, kept, n
    <2> QED BY <1>3, <1>4 DEF Injection, IsInjective
  <1>6. f \in Surjection(kept, 1 .. n)
    <2>1. IsFiniteSet(1 .. n) /\ Cardinality(1 .. n) = n
      BY <1>2, FS_Interval
    <2> HIDE DEF f, kept
    <2> QED BY <1>5, <2>1, FS_Injection
  <1>7. \A k \in 1 .. n : at(k) \in kept /\ place(at(k)) = k
    <2> HIDE DEF place, kept, n
    <2> QED BY <1>6 DEF Surjection
  <1>8. \A i \in kept : at(place(i)) = i
    <2> HIDE DEF place, kept, n
    <2> QED BY <1>3, <1>4, <1>7
  <1>9. Without(s, x) = [k \in 1 .. n |-> s[at(k)]]
    BY DEF Without
  <1>10. Without(s, x) \in Seq(S) /\ Len(Without(s, x)) = n
    <2> DEFINE w == [k \in 1 .. n |-> s[at(k)]]
    <2>1. \A k \in 1 .. n : s[at(k)] \in S
      <3> HIDE DEF at, kept, n
      <3> QED BY <1>1, <1>7
    <2>2. w \in [1 .. n -> S]
      <3> HIDE DEF at, n
      <3> QED BY <2>1
    <2> HIDE DEF at, n
    <2> QED BY <1>2, <1>9, <2>2
  <1>11. ToSet(Without(s, x)) = {s[i] : i \in kept}
    <2>1. ToSet(Without(s, x)) = {s[at(k)] : k \in 1 .. n}
      <3> HIDE DEF at, n
      <3> QED BY <1>9 DEF ToSet
    <2> HIDE DEF at, kept, n, place
    <2> QED BY <1>3, <1>7, <1>8, <2>1
  <1> QED BY <1>2, <1>10, <1>11 DEF ToSet

\* A part handed over and not lost with a process, sent to o.
SentTo(o) == {w \in handed \ lost : Sent[w] = o}

\* Every list holds parts that were handed over, to whom they were sent to, and no more
\* than there are.
ListsOK ==
  /\ handed \subseteq Releases /\ IsFiniteSet(handed) /\ lost \subseteq handed
  /\ dock \in [Orgs -> Seq(Releases)]
  /\ \A o \in Orgs : /\ ToSet(dock[o]) \subseteq SentTo(o)
                     /\ Len(dock[o]) <= Cardinality(SentTo(o))

\* What a part is off its list for: a request that was written has been heard in public.
Caused(u) ==
  \/ <<Sent[u], u>> \in cleared
  \/ \E s \in said : s.of = u
  \/ Cardinality(SentTo(Sent[u])) > DockCap

CauseInv ==
  /\ cookie \in Orgs \cup {None, Public}
  /\ ListsOK
  /\ \A c \in calls :
       /\ c = [id |-> c.id, by |-> c.by, of |-> c.of, how |-> c.how, step |-> c.step]
       /\ c.step = "answer" => \E s \in said : s.of = c.of
  /\ \A u \in handed \ lost : u \in ToSet(dock[Sent[u]]) \/ Caused(u)

\* Who is acting is on the roster.
LEMMA ActorKnown ==
  ASSUME cookie \in Orgs \cup {None, Public}, currentActor # None
  PROVE  currentActor \in Orgs
BY DeskAssumption DEF currentActor

\* A step that leaves the dock and what it stands for alone, unsays nothing, and writes
\* for no request.
LEMMA CauseStands ==
  ASSUME CauseInv, UNCHANGED <<dock, handed, lost>>, cookie' \in Orgs \cup {None, Public},
         cleared \subseteq cleared', said \subseteq said',
         \A c \in calls' :
           /\ c = [id |-> c.id, by |-> c.by, of |-> c.of, how |-> c.how, step |-> c.step]
           /\ c.step = "answer" => \E s \in said' : s.of = c.of
  PROVE  CauseInv'
<1>1. ListsOK' /\ \A o : SentTo(o)' = SentTo(o)
  BY DEF CauseInv, ListsOK, SentTo
<1>2. \A u : Caused(u) => Caused(u)'
  BY <1>1 DEF Caused
<1>. QED BY <1>1, <1>2 DEF CauseInv

\* A step that takes a part off every list, for a cause.
LEMMA CauseSettles ==
  ASSUME CauseInv, NEW u, dock' = Settle(dock, u), UNCHANGED <<handed, lost, cookie>>,
         cleared \subseteq cleared', said \subseteq said',
         u \in handed \ lost => Caused(u)', calls' \subseteq calls
  PROVE  CauseInv'
<1>1. \A o : SentTo(o)' = SentTo(o)
  BY DEF SentTo
<1>2. \A v : Caused(v) => Caused(v)'
  BY <1>1 DEF Caused
<1>3. dock' = [o \in Orgs |-> Without(dock[o], u)]
  BY DEF CauseInv, ListsOK, Settle
<1>4. \A o \in Orgs : /\ dock'[o] \in Seq(Releases)
                     /\ Len(dock'[o]) <= Len(dock[o])
                     /\ ToSet(dock'[o]) = ToSet(dock[o]) \ {u}
  BY <1>3, WithoutLeaves DEF CauseInv, ListsOK
<1>5. ListsOK'
  <2>1. ASSUME NEW o \in Orgs
        PROVE  /\ ToSet(dock'[o]) \subseteq SentTo(o)'
               /\ Len(dock'[o]) <= Cardinality(SentTo(o)')
    <3>1. Len(dock'[o]) \in Nat /\ Len(dock[o]) \in Nat /\ Len(dock[o]) <= Cardinality(SentTo(o))
      BY <1>4 DEF CauseInv, ListsOK
    <3>2. SentTo(o) \in SUBSET handed /\ IsFiniteSet(handed)
      BY DEF SentTo, CauseInv, ListsOK
    <3>3. Cardinality(SentTo(o)) \in Nat
      BY <3>2, FS_Subset, FS_CardinalityType
    <3>. QED BY <1>1, <1>4, <3>1, <3>3 DEF CauseInv, ListsOK
  <2>2. dock' \in [Orgs -> Seq(Releases)]
    BY <1>3, <1>4
  <2>. QED BY <2>1, <2>2 DEF CauseInv, ListsOK
<1>6. \A v \in handed \ lost : Sent[v] \in Orgs
  BY DeskAssumption DEF CauseInv, ListsOK, Releases
<1>7. \A v \in handed' \ lost' : v \in ToSet(dock'[Sent[v]]) \/ Caused(v)'
  BY <1>2, <1>4, <1>6 DEF CauseInv
<1>. QED BY <1>5, <1>7 DEF CauseInv

\* A list with a part put in front, cut at the cap.
LEMMA PutInFront ==
  ASSUME NEW S, NEW s \in Seq(S), NEW u \in S, NEW m,
         m = IF Len(<<u>> \o s) > DockCap THEN DockCap ELSE Len(<<u>> \o s)
  PROVE  LET cut == SubSeq(<<u>> \o s, 1, m) IN
         /\ cut \in Seq(S) /\ Len(cut) <= Len(s) + 1
         /\ ToSet(cut) \subseteq ToSet(s) \cup {u}
         /\ Len(s) < DockCap => ToSet(s) \cup {u} \subseteq ToSet(cut)
<1>. DEFINE all == <<u>> \o s
            cut == SubSeq(all, 1, m)
<1>1. /\ all \in Seq(S) /\ Len(all) = Len(s) + 1 /\ Len(s) \in Nat
      /\ all[1] = u /\ \A i \in 1 .. Len(s) : all[i + 1] = s[i]
      /\ DOMAIN s = 1 .. Len(s)
  OBVIOUS
<1>2. m \in 0 .. Len(all) /\ (Len(s) < DockCap => m = Len(all))
  BY <1>1, DeskAssumption
<1>. HIDE DEF all
<1>3. cut \in Seq(S) /\ Len(cut) = m /\ \A i \in 1 .. m : cut[i] = all[i]
  BY <1>1, <1>2
<1>4. DOMAIN cut = 1 .. m
  BY <1>1, <1>2, <1>3
<1>. HIDE DEF cut
<1>5. \A i \in 1 .. Len(all) : all[i] \in ToSet(s) \cup {u}
  <2>1. ASSUME NEW i \in 1 .. Len(all)  PROVE all[i] \in ToSet(s) \cup {u}
    <3>1. CASE i = 1
      BY <1>1, <3>1
    <3>2. CASE i # 1
      <4>1. i - 1 \in 1 .. Len(s) /\ (i - 1) + 1 = i
        BY <1>1, <3>2
      <4>2. all[i] = s[i - 1]
        BY <1>1, <4>1
      <4>. QED BY <1>1, <4>1, <4>2 DEF ToSet
    <3>. QED BY <3>1, <3>2
  <2>. QED BY <2>1
<1>6. ToSet(cut) \subseteq ToSet(s) \cup {u}
  BY <1>1, <1>2, <1>3, <1>4, <1>5 DEF ToSet
<1>7. ASSUME Len(s) < DockCap  PROVE ToSet(s) \cup {u} \subseteq ToSet(cut)
  <2>1. m = Len(s) + 1
    BY <1>1, <1>2, <1>7
  <2>2. 1 \in 1 .. m /\ cut[1] = u
    BY <1>1, <1>3, <2>1
  <2>3. \A i \in 1 .. Len(s) : i + 1 \in 1 .. m /\ cut[i + 1] = s[i]
    BY <1>1, <1>3, <2>1
  <2>. QED BY <1>1, <1>4, <2>2, <2>3 DEF ToSet
<1>. QED BY <1>1, <1>2, <1>3, <1>6, <1>7 DEF cut, all

\* A part handed over waits, and whatever drops off the list has more than the cap
\* handed over beside it.
LEMMA CauseHandOver ==
  ASSUME CauseInv, NEW u \in Releases, HandOverPart(u)
  PROVE  CauseInv'
<1>. DEFINE o == Sent[u]
            m == IF Len(<<u>> \o dock[o]) > DockCap THEN DockCap ELSE Len(<<u>> \o dock[o])
            cut == SubSeq(<<u>> \o dock[o], 1, m)
<1>1. /\ u \notin handed /\ handed' = handed \cup {u} /\ dock' = HandOver(dock, o, u)
      /\ UNCHANGED <<lost, cookie, calls, said, cleared>>
  BY DEF HandOverPart
<1>2. o \in Orgs /\ dock \in [Orgs -> Seq(Releases)] /\ dock[o] \in Seq(Releases)
  BY DeskAssumption DEF CauseInv, ListsOK, Releases
<1>3. /\ IsFiniteSet(handed) /\ IsFiniteSet(handed')
      /\ \A d \in Orgs : /\ SentTo(d) \in SUBSET handed /\ IsFiniteSet(SentTo(d))
                         /\ Cardinality(SentTo(d)) \in Nat
  BY <1>1, FS_AddElement, FS_Subset, FS_CardinalityType DEF CauseInv, ListsOK, SentTo
<1>4. u \notin lost /\ u \notin ToSet(dock[o])
  BY <1>1, <1>2 DEF CauseInv, ListsOK, SentTo
<1>5. ~Contains(dock[o], u)
  BY <1>2, <1>4 DEF Contains, ToSet
<1>6. dock' = [dock EXCEPT ![o] = cut]
  BY <1>1, <1>5 DEF HandOver
<1>7. /\ cut \in Seq(Releases) /\ Len(cut) <= Len(dock[o]) + 1 /\ Len(dock[o]) \in Nat
      /\ Len(cut) \in Nat
      /\ ToSet(cut) \subseteq ToSet(dock[o]) \cup {u}
      /\ Len(dock[o]) < DockCap => ToSet(dock[o]) \cup {u} \subseteq ToSet(cut)
  <2>2. Len(dock[o]) \in Nat
    BY <1>2
  <2>. DEFINE s == dock[o]
  <2>1. m = IF Len(<<u>> \o s) > DockCap THEN DockCap ELSE Len(<<u>> \o s)
    OBVIOUS
  <2>3. s \in Seq(Releases)
    BY <1>2
  <2>. HIDE DEF m, s
  <2>4. /\ SubSeq(<<u>> \o s, 1, m) \in Seq(Releases)
        /\ Len(SubSeq(<<u>> \o s, 1, m)) <= Len(s) + 1
        /\ ToSet(SubSeq(<<u>> \o s, 1, m)) \subseteq ToSet(s) \cup {u}
        /\ Len(s) < DockCap => ToSet(s) \cup {u} \subseteq ToSet(SubSeq(<<u>> \o s, 1, m))
    BY <2>1, <2>3, PutInFront
  <2>5. Len(SubSeq(<<u>> \o s, 1, m)) \in Nat
    BY <2>4
  <2>. QED BY <2>2, <2>4, <2>5 DEF s
<1>. HIDE DEF cut, m
<1>8. SentTo(o)' = SentTo(o) \cup {u} /\ \A d \in Orgs : d # o => SentTo(d)' = SentTo(d)
  BY <1>1, <1>4 DEF SentTo
<1>9. Cardinality(SentTo(o) \cup {u}) = Cardinality(SentTo(o)) + 1
  BY <1>1, <1>2, <1>3, FS_AddElement
<1>10. /\ dock' \in [Orgs -> Seq(Releases)] /\ dock'[o] = cut
       /\ \A d \in Orgs : d # o => dock'[d] = dock[d]
  BY <1>2, <1>6, <1>7
<1>11. ListsOK'
  <2>1. ASSUME NEW d \in Orgs
        PROVE  /\ ToSet(dock'[d]) \subseteq SentTo(d)'
               /\ Len(dock'[d]) <= Cardinality(SentTo(d)')
    <3>1. CASE d = o
      <4>1. ToSet(dock[o]) \subseteq SentTo(o) /\ Len(dock[o]) <= Cardinality(SentTo(o))
        BY <1>2 DEF CauseInv, ListsOK
      <4>2. ToSet(dock'[d]) \subseteq SentTo(d)'
        BY <1>7, <1>8, <1>10, <3>1, <4>1
      <4>3. Cardinality(SentTo(o)) \in Nat /\ Cardinality(SentTo(o)') = Cardinality(SentTo(o)) + 1
        BY <1>2, <1>3, <1>8, <1>9
      <4>4. Len(dock'[o]) <= Cardinality(SentTo(o)')
        <5>. DEFINE k == Cardinality(SentTo(o))
                    k2 == Cardinality(SentTo(o)')
        <5>1. k \in Nat /\ k2 = k + 1 /\ Len(dock[o]) <= k /\ dock'[o] = cut
          BY <1>10, <4>1, <4>3
        <5>. HIDE DEF k, k2
        <5>2. Len(cut) <= k2
          BY <1>7, <5>1
        <5>. QED BY <5>1, <5>2 DEF k2
      <4>. QED BY <3>1, <4>2, <4>4
    <3>2. CASE d # o
      BY <1>8, <1>10, <3>2 DEF CauseInv, ListsOK
    <3>. QED BY <3>1, <3>2
  <2>2. handed' \subseteq Releases /\ lost' \subseteq handed'
    BY <1>1 DEF CauseInv, ListsOK
  <2>. QED BY <1>3, <1>10, <2>1, <2>2 DEF ListsOK
<1>12. ASSUME NEW v \in handed' \ lost'  PROVE v \in ToSet(dock'[Sent[v]]) \/ Caused(v)'
  <2>1. v = u \/ v \in handed \ lost
    BY <1>1, <1>12
  <2>2. Sent[v] \in Orgs
    BY <1>1, <2>1, DeskAssumption DEF CauseInv, ListsOK, Releases
  <2>3. CASE Sent[v] # o
    <3>1. v \in handed \ lost /\ dock'[Sent[v]] = dock[Sent[v]]
      BY <1>10, <2>1, <2>2, <2>3
    <3>2. Caused(v) => Caused(v)'
      BY <1>1, <1>8, <2>2, <2>3 DEF Caused
    <3>. QED BY <3>1, <3>2 DEF CauseInv
  <2>4. CASE Sent[v] = o /\ Len(dock[o]) < DockCap
    <3>1. ToSet(dock[o]) \cup {u} \subseteq ToSet(dock'[o])
      BY <1>7, <1>10, <2>4
    <3>2. v \in ToSet(dock[o]) \cup {u} \/ Caused(v)
      BY <2>1, <2>4 DEF CauseInv
    <3>3. Caused(v) => Caused(v)'
      <4>1. Cardinality(SentTo(o)) > DockCap => Cardinality(SentTo(o)') > DockCap
        BY <1>2, <1>3, <1>8, <1>9, DeskAssumption
      <4>. QED BY <1>1, <2>4, <4>1 DEF Caused
    <3>. QED BY <2>4, <3>1, <3>2, <3>3
  <2>5. CASE Sent[v] = o /\ ~(Len(dock[o]) < DockCap)
    <3>1. Len(dock[o]) <= Cardinality(SentTo(o))
      BY <1>2 DEF CauseInv, ListsOK
    <3>2. Cardinality(SentTo(o)') > DockCap
      BY <1>2, <1>3, <1>7, <1>8, <1>9, <2>5, <3>1, DeskAssumption
    <3>. QED BY <2>5, <3>2 DEF Caused
  <2>. QED BY <2>3, <2>4, <2>5
<1>. QED BY <1>1, <1>11, <1>12 DEF CauseInv

\* Nothing has been handed over at start-up, and a process that stops loses its lists.
LEMMA CauseBegins == Init => CauseInv
<1>. SUFFICES ASSUME Init  PROVE CauseInv
  OBVIOUS
<1>1. /\ handed = {} /\ lost = {} /\ calls = {} /\ cookie = None
      /\ dock = [o \in Orgs |-> << >>]
  BY DEF Init
<1>2. /\ \A o : SentTo(o) = {}
      /\ Cardinality({}) = 0 /\ IsFiniteSet({})
  BY <1>1, FS_EmptySet DEF SentTo
<1>3. << >> \in Seq(Releases) /\ Len(<< >>) = 0 /\ ToSet(<< >>) = {}
  BY DEF ToSet
<1>4. ListsOK
  BY <1>1, <1>2, <1>3 DEF ListsOK
<1>. QED BY <1>1, <1>4 DEF CauseInv

LEMMA CauseRestarts ==
  ASSUME CauseInv, Restart
  PROVE  CauseInv'
<1>1. /\ handed' = handed /\ lost' = handed /\ calls' = {} /\ cookie' = cookie
      /\ dock' = [o \in Orgs |-> << >>]
  BY DEF Restart, Fresh
<1>2. /\ \A o : SentTo(o)' = {}
      /\ Cardinality({}) = 0 /\ IsFiniteSet({})
  BY <1>1, FS_EmptySet DEF SentTo
<1>3. << >> \in Seq(Releases) /\ Len(<< >>) = 0 /\ ToSet(<< >>) = {}
  BY DEF ToSet
<1>4. /\ handed' \subseteq Releases /\ IsFiniteSet(handed') /\ lost' \subseteq handed'
      /\ dock' \in [Orgs -> Seq(Releases)]
  BY <1>1, <1>3 DEF CauseInv, ListsOK
<1>5. ASSUME NEW o \in Orgs
      PROVE  /\ ToSet(dock'[o]) \subseteq SentTo(o)'
             /\ Len(dock'[o]) <= Cardinality(SentTo(o)')
  <2>1. SentTo(o)' = {} /\ Cardinality(SentTo(o)') = 0
    BY <1>2
  <2>2. dock'[o] = << >>
    BY <1>1
  <2>. QED BY <1>3, <2>1, <2>2
<1>6. ListsOK'
  BY <1>4, <1>5 DEF ListsOK
<1>. QED BY <1>1, <1>6 DEF CauseInv

\* Every step keeps it.
LEMMA NextCaused == CauseInv /\ [Next]_vars => CauseInv'
<1>. SUFFICES ASSUME CauseInv, [Next]_vars  PROVE CauseInv'
  OBVIOUS
<1>1. /\ cookie \in Orgs \cup {None, Public}
      /\ \A c \in calls :
           /\ c = [id |-> c.id, by |-> c.by, of |-> c.of, how |-> c.how, step |-> c.step]
           /\ c.step = "answer" => \E s \in said : s.of = c.of
  BY DEF CauseInv
<1>2. CASE Restart
  BY <1>2, CauseRestarts
<1>3. CASE PdsFlips
  BY <1>1, <1>3, CauseStands DEF PdsFlips
<1>4. ASSUME NEW who \in Orgs \cup {Public}, actAs(who)  PROVE CauseInv'
  <2>1. cookie' \in Orgs \cup {None, Public} /\ UNCHANGED <<dock, handed, lost, calls, said, cleared>>
    BY <1>4 DEF actAs
  <2>. QED BY <1>1, <2>1, CauseStands
<1>5. ASSUME NEW t \in Tabs, NEW asked \in Orgs \cup {None}, Draft(t, asked)  PROVE CauseInv'
  <2>1. UNCHANGED <<dock, handed, lost, calls, said, cleared>>
    BY <1>5 DEF Draft
  <2>2. cookie' \in Orgs \cup {None, Public}
    <3>1. PICK handle : /\ handle = (IF asked \in Orgs THEN asked ELSE currentActor)
                        /\ handle # None
                        /\ cookie' = (IF handle = currentActor THEN cookie ELSE handle)
      BY <1>5 DEF Draft
    <3>2. handle \in Orgs
      BY <1>1, <3>1, ActorKnown
    <3>. QED BY <1>1, <3>1, <3>2
  <2>. QED BY <1>1, <2>1, <2>2, CauseStands
<1>6. ASSUME NEW u \in Releases, HandOverPart(u)  PROVE CauseInv'
  BY <1>6, CauseHandOver
<1>7. ASSUME NEW u \in Releases, GeneratorAttests(u)  PROVE CauseInv'
  <2>1. /\ dock' = Settle(dock, u) /\ UNCHANGED <<handed, lost, cookie, calls, cleared>>
        /\ said' = said \cup {[by |-> Sent[u], of |-> u, how |-> "generator"]}
    BY <1>7 DEF GeneratorAttests
  <2>. DEFINE s == [by |-> Sent[u], of |-> u, how |-> "generator"]
  <2>4. s \in said' /\ s.of = u
    BY <2>1
  <2>. HIDE DEF s
  <2>2. \E x \in said' : x.of = u
    BY <2>4
  <2>3. Caused(u)'
    BY <2>2 DEF Caused
  <2>. QED BY <2>1, <2>3, CauseSettles
<1>8. ASSUME NEW u \in Releases, Spoil(u)  PROVE CauseInv'
  BY <1>1, <1>8, CauseStands DEF Spoil
<1>9. ASSUME NEW t \in Tabs, NEW u \in Releases, Scan(t, u) \/ Paste(t, u)  PROVE CauseInv'
  BY <1>1, <1>9, CauseStands DEF Scan, Paste
<1>10. ASSUME NEW t \in Tabs, Sign(t) \/ CheckPart(t)  PROVE CauseInv'
  BY <1>1, <1>10, CauseStands DEF Sign, CheckPart
<1>11. ASSUME NEW t \in Tabs, ClearPart(t)  PROVE CauseInv'
  <2>. DEFINE u == tabs[t].of
  <2>1. UNCHANGED <<handed, lost, cookie, calls, said>>
    BY <1>11 DEF ClearPart
  <2>2. CASE OwnArrival(u)
    <3>1. /\ dock' = Settle(dock, u) /\ cleared' = cleared \cup {<<currentActor, u>>}
          /\ currentActor # None
      BY <1>11, <2>2 DEF ClearPart, Acting
    <3>2. currentActor \in Orgs
      BY <1>1, <3>1, ActorKnown
    <3>3. dock[currentActor] \in Seq(Releases)
      BY <3>2 DEF CauseInv, ListsOK
    <3>4. u \in ToSet(dock[currentActor])
      BY <2>2, <3>3 DEF OwnArrival, Arrival, Contains, ToSet
    <3>5. Sent[u] = currentActor
      BY <3>2, <3>4 DEF CauseInv, ListsOK, SentTo
    <3>6. ASSUME NEW v, v = u  PROVE CauseInv'
      <4>1. <<Sent[v], v>> \in cleared' /\ dock' = Settle(dock, v)
        BY <3>1, <3>5, <3>6
      <4>2. Caused(v)'
        BY <4>1 DEF Caused
      <4>3. cleared \subseteq cleared'
        BY <3>1
      <4>. HIDE DEF u
      <4>. QED BY <2>1, <4>1, <4>2, <4>3, CauseSettles
    <3>. QED BY <3>6
  <2>3. CASE ~OwnArrival(u)
    <3>1. UNCHANGED <<dock, cleared>>
      BY <1>11, <2>3 DEF ClearPart
    <3>. QED BY <1>1, <2>1, <3>1, CauseStands
  <2>. QED BY <2>2, <2>3
<1>12. ASSUME NEW t \in Tabs, Attest(t)  PROVE CauseInv'
  <2>. DEFINE u == tabs[t].of
              c == Call(u, IF OwnArrival(u) THEN "check" ELSE "write")
  <2>1. calls' = calls \cup {c} /\ UNCHANGED <<dock, handed, lost, cookie, said, cleared>>
    BY <1>12 DEF Attest
  <2>2. /\ c = [id |-> c.id, by |-> c.by, of |-> c.of, how |-> c.how, step |-> c.step]
        /\ c.step # "answer"
    BY DEF Call
  <2>. HIDE DEF c
  <2>. QED BY <1>1, <2>1, <2>2, CauseStands
<1>13. ASSUME NEW c \in calls, AttestCheck(c)  PROVE CauseInv'
  <2>. DEFINE d == [c EXCEPT !.step = "write"]
  <2>1. /\ calls' \subseteq calls \cup {d}
        /\ UNCHANGED <<dock, handed, lost, cookie, said, cleared>>
    BY <1>13 DEF AttestCheck
  <2>2. d = [id |-> c.id, by |-> c.by, of |-> c.of, how |-> c.how, step |-> "write"]
    BY <1>1
  <2>3. /\ d = [id |-> d.id, by |-> d.by, of |-> d.of, how |-> d.how, step |-> d.step]
        /\ d.step # "answer"
    BY <2>2
  <2>. HIDE DEF d
  <2>. QED BY <1>1, <2>1, <2>3, CauseStands
<1>14. ASSUME NEW c \in calls, AttestWrite(c)  PROVE CauseInv'
  <2>. DEFINE d == [c EXCEPT !.step = "answer"]
              s == [by |-> c.by, of |-> c.of, how |-> c.how]
  <2>1. /\ UNCHANGED <<dock, handed, lost, cookie, cleared>>
        /\ \/ said' = said \cup {s} /\ calls' = (calls \ {c}) \cup {d}
           \/ said' = said /\ calls' = calls \ {c}
    BY <1>14 DEF AttestWrite
  <2>2. d = [id |-> c.id, by |-> c.by, of |-> c.of, how |-> c.how, step |-> "answer"]
    BY <1>1
  <2>3. /\ d = [id |-> d.id, by |-> d.by, of |-> d.of, how |-> d.how, step |-> d.step]
        /\ s.of = d.of
    BY <2>2
  <2>. HIDE DEF d, s
  <2>4. \A x \in calls' :
           /\ x = [id |-> x.id, by |-> x.by, of |-> x.of, how |-> x.how, step |-> x.step]
           /\ x.step = "answer" => \E y \in said' : y.of = x.of
    BY <1>1, <2>1, <2>3
  <2>. QED BY <1>1, <2>1, <2>4, CauseStands
<1>15. ASSUME NEW c \in calls, AttestAnswered(c)  PROVE CauseInv'
  <2>1. /\ calls' = calls \ {c} /\ UNCHANGED <<handed, lost, cookie, said, cleared>>
        /\ \E s \in said : s.of = c.of
    BY <1>1, <1>15 DEF AttestAnswered
  <2>2. CASE dock' = Settle(dock, c.of)
    <3>1. Caused(c.of)'
      BY <2>1 DEF Caused
    <3>. QED BY <2>1, <2>2, <3>1, CauseSettles
  <2>3. CASE dock' = dock
    BY <1>1, <2>1, <2>3, CauseStands
  <2>. QED BY <1>15, <2>2, <2>3 DEF AttestAnswered
<1>16. CASE UNCHANGED vars
  BY <1>1, <1>16, CauseStands DEF vars
<1>. QED
  BY <1>2, <1>3, <1>4, <1>5, <1>6, <1>7, <1>8, <1>9, <1>10, <1>11, <1>12, <1>13, <1>14,
     <1>15, <1>16 DEF Next

----------------------------------------------------------------------------
(* Theorems.                                                               *)

\* However many requests are under way and whatever becomes of the record meanwhile,
\* no organization vouches for a part on its own list whose document did not verify
\* when the button was pressed (POST /attest).
THEOREM VouchedForChecked == Spec => []CheckedBeforeSaid
<1>1. CheckInv => CheckedBeforeSaid
  BY DEF CheckInv
<1>. QED BY InitChecked, NextChecked, <1>1, PTL DEF Spec

\* A part is off its recipient's list only if somebody said in public that it was checked,
\* its recipient took it off, or more came than the list keeps (dock.ts settle, POST
\* /attest, POST /inbox/clear): a write that fails leaves it waiting, however many
\* requests are under way and whoever the browser acts as by then.
THEOREM OffForCause == Spec => []LeavesForCause
<1>1. CauseInv => LeavesForCause
  <2>. SUFFICES ASSUME CauseInv, NEW u \in handed \ lost
                PROVE  \/ Waits(u)
                       \/ <<Sent[u], u>> \in cleared
                       \/ \E s \in said : s.of = u
                       \/ Cardinality({w \in handed \ lost : Sent[w] = Sent[u]}) > DockCap
    BY DEF LeavesForCause
  <2>1. Sent[u] \in Orgs /\ dock[Sent[u]] \in Seq(Releases)
    BY DeskAssumption DEF CauseInv, ListsOK, Releases
  <2>2. u \in ToSet(dock[Sent[u]]) => Waits(u)
    BY <2>1 DEF Waits, Arrival, Contains, ToSet
  <2>. QED BY <2>2 DEF CauseInv, Caused, SentTo
<1>. QED BY CauseBegins, NextCaused, <1>1, PTL DEF Spec

\* Whatever else an environment says and whatever the PDS does, a production process
\* that was asked to be live is, after any number of restarts (resolveMode).
THEOREM LiveInProduction == Spec => []ProductionStaysLive
<1>1. ASSUME NEW up PROVE env.production /\ loadConfig(env) = "live" => main(env, up).mode = "live"
  BY DEF main, resolveMode
<1>2. Init => ProductionStaysLive
  BY <1>1 DEF Init, ProductionStaysLive
<1>3. ProductionStaysLive /\ [Next]_vars => ProductionStaysLive'
  <2>. SUFFICES ASSUME ProductionStaysLive, [Next]_vars PROVE ProductionStaysLive'
    OBVIOUS
  <2>1. CASE Restart
    BY <1>1, <2>1 DEF Restart, ProductionStaysLive, loadConfig
  <2>2. CASE ~Restart
    <3>1. UNCHANGED <<env, proc>>
      BY <2>2 DEF Next, vars, deployment, PdsFlips, actAs, Draft, HandOverPart,
         GeneratorAttests, Spoil, Scan, Paste, Sign, CheckPart, ClearPart, Attest,
         AttestCheck, AttestWrite, AttestAnswered
    <3>. QED BY <3>1 DEF ProductionStaysLive, loadConfig
  <2>. QED BY <2>1, <2>2
<1>. QED BY <1>2, <1>3, PTL DEF Spec
=============================================================================
