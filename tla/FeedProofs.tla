------------------------------ MODULE FeedProofs ------------------------------
(***************************************************************************)
(* What holds of the live feed for any limit, cap, precision of the clock  *)
(* and number of overlapping polls.                                        *)
(***************************************************************************)
EXTENDS Feed, FiniteSetTheorems, SequenceTheorems, WellFoundedInduction, TLAPS

----------------------------------------------------------------------------
(* Milliseconds.                                                           *)

\* An instant that a Date can tell.
Sharp(t) == t \in Nat /\ Millis(t) = t

\* A Date is not after its instant, and keeps the order of instants.
LEMMA MillisKeep ==
  ASSUME NEW t \in Nat, NEW u \in Nat, t <= u
  PROVE  /\ Millis(t) \in Nat /\ Millis(t) <= t
         /\ Millis(t) <= Millis(u)
         /\ Sharp(Millis(t))
  <1> DEFINE q == t \div Milli
             r == t % Milli
             v == u \div Milli
             w == u % Milli
  <1>1. Milli \in Nat \ {0}
    BY FeedAssumption
  <1>2. q \in Nat /\ r \in 0 .. Milli - 1 /\ t = Milli * q + r
    BY <1>1
  <1>3. v \in Nat /\ w \in 0 .. Milli - 1 /\ u = Milli * v + w
    BY <1>1
  <1>4. Millis(t) = t - r /\ Millis(u) = u - w
    BY DEF Millis
  <1> HIDE DEF q, r, v, w
  <1>5. Millis(t) = Milli * q /\ Millis(u) = Milli * v
    BY <1>1, <1>2, <1>3, <1>4
  <1>6. Milli * q \in Nat /\ Milli * v \in Nat
    BY <1>1, <1>2, <1>3
  <1>7. Milli * q <= Milli * v
    <2> SUFFICES ASSUME q > v  PROVE FALSE
      BY <1>1, <1>2, <1>3
    <2>1. q >= v + 1
      BY <1>2, <1>3
    <2>2. Milli * q >= Milli * (v + 1)
      BY <1>1, <1>2, <1>3, <2>1
    <2>3. Milli * (v + 1) = Milli * v + Milli
      BY <1>1, <1>3
    <2> QED BY <1>1, <1>2, <1>3, <1>6, <2>2, <2>3
  <1>8. (Milli * q) % Milli = 0
    BY <1>1, <1>2
  <1>9. Millis(Milli * q) = Milli * q
    BY <1>6, <1>8 DEF Millis
  <1> QED BY <1>2, <1>4, <1>5, <1>6, <1>7, <1>9 DEF Sharp

\* A Date that is not after an instant is not after the Date of the instant.
LEMMA SharpBelow ==
  ASSUME NEW a, Sharp(a), NEW t \in Nat, a <= t
  PROVE  a <= Millis(t)
  BY MillisKeep DEF Sharp

----------------------------------------------------------------------------
(* The index.                                                              *)

Over(n, e) == n - e >= Limit

\* Events in the order they were dated, none in the future.
Index(c, lg, n) ==
  /\ c \in Nat
  /\ lg \in Seq(Nat) /\ Len(lg) \in Nat /\ DOMAIN lg = 1 .. Len(lg)
  /\ \A e \in 1 .. Len(lg) : lg[e] \in Nat /\ lg[e] <= c
  /\ \A e, h \in 1 .. Len(lg) : e < h => lg[e] < lg[h]
  /\ n \in 0 .. Len(lg)

\* What one index has, another that it grows into has too.
Grows(lg, n, lg2, n2) ==
  /\ n <= n2 /\ Len(lg) <= Len(lg2)
  /\ \A e \in 1 .. Len(lg) : lg2[e] = lg[e]

\* A query answers so many rows, newest first; a row it leaves out has more newer ones
\* than that.
LEMMA FeedIs ==
  ASSUME Index(clock, log, landed), NEW after
  PROVE  LET r == FeedOf(after) IN
         /\ r \in Seq(Nat) /\ Len(r) \in 0 .. Limit /\ DOMAIN r = 1 .. Len(r)
         /\ \A k \in 1 .. Len(r) : r[k] \in 1 .. landed /\ log[r[k]] > after
         /\ \A j, k \in 1 .. Len(r) : j < k => r[j] > r[k]
         /\ \A e \in 1 .. landed : log[e] > after =>
              (\E k \in 1 .. Len(r) : r[k] = e) \/ Over(landed, e)
  <1> DEFINE rows     == {e \in 1 .. landed : log[e] > after}
             above(e) == {h \in rows : h >= e}
             place(e) == Cardinality(above(e))
             n        == Cardinality(rows)
             m        == Min({Limit, n})
             f        == [e \in rows |-> place(e)]
             at(k)    == CHOOSE e \in rows : place(e) = k
             r        == FeedOf(after)
  <1>1. landed \in Nat /\ Limit \in Nat \ {0} /\ rows \subseteq 1 .. landed
    BY FeedAssumption DEF Index
  <1>2. IsFiniteSet(rows) /\ n \in Nat
    <2>1. IsFiniteSet(1 .. landed)
      BY <1>1, FS_Interval
    <2> HIDE DEF rows
    <2> QED BY <1>1, <2>1, FS_Subset, FS_CardinalityType
  <1>3. \A e \in rows : /\ IsFiniteSet(above(e)) /\ place(e) \in 1 .. n
                        /\ \A h \in rows : e < h => above(h) # above(e) /\ above(h) \subseteq above(e)
                        /\ above(e) \subseteq e .. landed
    <2>1. SUFFICES ASSUME NEW e \in rows
                   PROVE  /\ IsFiniteSet(above(e)) /\ place(e) \in 1 .. n
                          /\ \A h \in rows : e < h => /\ above(h) # above(e)
                                                      /\ above(h) \subseteq above(e)
                          /\ above(e) \subseteq e .. landed
      OBVIOUS
    <2>2. e \in above(e) /\ above(e) \in SUBSET rows /\ above(e) \subseteq e .. landed
      BY <1>1
    <2>3. IsFiniteSet(above(e)) /\ place(e) <= n
      <3> HIDE DEF rows, above
      <3> QED BY <1>2, <2>2, FS_Subset
    <2>4. place(e) \in Nat /\ place(e) # 0
      <3> HIDE DEF rows, above
      <3> QED BY <2>2, <2>3, FS_CardinalityType, FS_EmptySet
    <2>5. \A h \in rows : e < h => e \notin above(h) /\ above(h) \subseteq above(e)
      BY <1>1
    <2> HIDE DEF rows, above, n
    <2> QED BY <1>2, <2>2, <2>3, <2>4, <2>5
  <1>4. \A e, h \in rows : e < h => place(h) < place(e)
    <2>1. SUFFICES ASSUME NEW e \in rows, NEW h \in rows, e < h
                   PROVE  place(h) < place(e)
      OBVIOUS
    <2>2. above(h) \in SUBSET above(e) /\ above(h) # above(e) /\ IsFiniteSet(above(e))
      BY <1>3, <2>1
    <2>3. place(h) <= place(e) /\ place(h) # place(e)
      <3> HIDE DEF above, rows
      <3> QED BY <2>2, FS_Subset
    <2>4. place(h) \in Nat /\ place(e) \in Nat
      <3> HIDE DEF place, above, n, rows
      <3> QED BY <1>2, <1>3
    <2> HIDE DEF place
    <2> QED BY <2>3, <2>4
  <1>5. f \in Injection(rows, 1 .. n)
    <2>1. \A e, h \in rows : place(e) = place(h) => e = h
      <3>1. \A e \in rows : place(e) \in Nat /\ e \in Nat
        <4> HIDE DEF place, above, n
        <4> QED BY <1>1, <1>2, <1>3
      <3> HIDE DEF place, rows
      <3> QED BY <1>4, <3>1
    <2> HIDE DEF place, rows, n
    <2> QED BY <1>3, <2>1 DEF Injection, IsInjective
  <1>6. f \in Surjection(rows, 1 .. n)
    <2>1. IsFiniteSet(1 .. n) /\ Cardinality(1 .. n) = n
      BY <1>2, FS_Interval
    <2> HIDE DEF f, rows
    <2> QED BY <1>5, <2>1, FS_Injection
  <1>7. \A k \in 1 .. n : at(k) \in rows /\ place(at(k)) = k
    <2> HIDE DEF place, rows, n
    <2> QED BY <1>6 DEF Surjection
  <1>8. \A e \in rows : at(place(e)) = e
    <2>1. \A e \in rows : place(e) \in 1 .. n /\ f[e] = place(e)
      <3> HIDE DEF place, rows, n
      <3> QED BY <1>3
    <2> HIDE DEF place, rows, n, f
    <2> QED BY <1>5, <1>7, <2>1 DEF Injection, IsInjective
  <1>9. m \in {Limit, n} /\ m <= Limit /\ m <= n /\ m \in Nat
    <2>1. \E x \in {Limit, n} : \A y \in {Limit, n} : x <= y
      BY <1>1, <1>2
    <2> HIDE DEF n
    <2>2. m \in {Limit, n} /\ \A y \in {Limit, n} : m <= y
      BY <2>1 DEF Min
    <2> HIDE DEF m
    <2> QED BY <1>1, <1>2, <2>2
  <1>10. r = [k \in 1 .. m |-> at(k)]
    BY DEF FeedOf
  <1> HIDE DEF m, r
  <1>11. Len(r) = m /\ DOMAIN r = 1 .. m /\ \A k \in 1 .. m : r[k] = at(k)
    <2> HIDE DEF at
    <2> QED BY <1>9, <1>10
  <1>12. \A k \in 1 .. m : r[k] \in rows /\ place(r[k]) = k
    <2> HIDE DEF at, place, rows, n
    <2> QED BY <1>7, <1>9, <1>11, <1>2
  <1>13. ASSUME NEW j \in 1 .. m, NEW k \in 1 .. m, j < k  PROVE r[j] > r[k]
    <2>1. r[j] \in Nat /\ r[k] \in Nat
      <3> HIDE DEF place, n
      <3> QED BY <1>1, <1>12
    <2>2. r[j] # r[k] /\ ~(r[j] < r[k])
      <3> HIDE DEF place, rows
      <3> QED BY <1>4, <1>9, <1>12, <1>13
    <2> QED BY <2>1, <2>2
  <1>14. ASSUME NEW e \in rows  PROVE (\E k \in 1 .. m : r[k] = e) \/ Over(landed, e)
    <2>1. CASE place(e) <= m
      <3>1. place(e) \in 1 .. m /\ r[place(e)] = e
        <4> HIDE DEF at, place, rows, n
        <4>1. place(e) \in 1 .. n
          BY <1>3
        <4>2. place(e) \in 1 .. m
          BY <1>2, <1>9, <2>1, <4>1
        <4> QED BY <1>8, <1>11, <4>2
      <3> HIDE DEF place
      <3> QED BY <3>1
    <2>2. CASE ~(place(e) <= m)
      <3>1. place(e) \in 1 .. n
        <4> HIDE DEF at, place, rows, n
        <4> QED BY <1>3
      <3>2. place(e) > Limit
        <4> HIDE DEF at, place, rows, n
        <4> QED BY <1>1, <1>2, <1>9, <2>2, <3>1
      <3>3. IsFiniteSet(e .. landed) /\ Cardinality(e .. landed) = landed - e + 1
        <4>1. e \in Int /\ landed \in Int /\ e <= landed
          BY <1>1
        <4> HIDE DEF rows
        <4> QED BY <4>1, FS_Interval
      <3>4. place(e) <= landed - e + 1
        <4>1. above(e) \in SUBSET (e .. landed)
          BY <1>3
        <4> HIDE DEF above, rows
        <4> QED BY <3>3, <4>1, FS_Subset, ZenonT(60)
      <3>5. e \in Nat
        BY <1>1
      <3> HIDE DEF place
      <3> QED BY <1>1, <1>2, <3>1, <3>2, <3>4, <3>5 DEF Over
    <2> QED BY <2>1, <2>2
  <1>15. \A k \in 1 .. m : r[k] \in 1 .. landed /\ log[r[k]] > after
    BY <1>12
  <1>16. \A e \in 1 .. landed : log[e] > after =>
           (\E k \in 1 .. m : r[k] = e) \/ Over(landed, e)
    BY <1>14
  <1>17. r \in Seq(Nat)
    <2>1. ASSUME NEW k \in 1 .. m  PROVE at(k) \in Nat
      <3>1. r[k] \in 1 .. landed /\ r[k] = at(k)
        <4> HIDE DEF at
        <4> QED BY <1>11, <1>15
      <3> HIDE DEF at
      <3> QED BY <1>1, <3>1
    <2> HIDE DEF at
    <2> QED BY <1>9, <1>10, <2>1
  <1> HIDE DEF rows, n
  <1> QED BY <1>9, <1>11, <1>13, <1>15, <1>16, <1>17 DEF r

----------------------------------------------------------------------------
(* The stream.                                                             *)

\* The stream, which began at f and has sent s, can resume after t: it has moved past
\* nothing it did not send, unless a query need not answer it.
Passed(f, s, lg, n, t) ==
  /\ Sharp(t) /\ f <= t
  /\ t <= f \/ \E h \in 1 .. n : t <= lg[h]
  /\ \A e \in 1 .. n : f < lg[e] /\ lg[e] <= t => e \in s \/ Over(n, e)

\* What a poll still has to send is in order, and nothing is missing below it.
Sending(f, s, lg, n, left) ==
  /\ left \in Seq(Nat) /\ Len(left) \in Nat \ {0} /\ DOMAIN left = 1 .. Len(left)
  /\ \A k \in 1 .. Len(left) : left[k] \in 1 .. n /\ f < lg[left[k]]
  /\ \A j, k \in 1 .. Len(left) : j < k => left[j] < left[k]
  /\ \A k \in 1 .. Len(left) : \A e \in 1 .. left[k] - 1 :
       f < lg[e] => \/ e \in s \/ Over(n, e)
                    \/ \E j \in 1 .. k - 1 : left[j] = e

PollOK(f, s, lg, n, q) ==
  /\ q.at \in {"idle", "asked", "quiet", "sending"}
  /\ q.at = "asked" => Passed(f, s, lg, n, q.after)
  /\ q.at = "sending" => /\ Sending(f, s, lg, n, q.left)
                         /\ q.newest = q.left[Len(q.left)]

Streaming(f, s, lg, n, t, pl) ==
  /\ Sharp(f)
  /\ s \subseteq 1 .. n
  /\ Passed(f, s, lg, n, t)
  /\ \A p \in Polls : PollOK(f, s, lg, n, pl[p])

Since(t) == t = NoTime \/ Sharp(t)

\* What a page asks to resume after, and how far each poll of the stream is.
StreamInv ==
  /\ Since(url) /\ Since(lastSeen)
  /\ DOMAIN poll = Polls
  /\ es \in {"closed", "connecting", "open"}
  /\ es # "open" => poll = [p \in Polls |-> Idle] /\ wire = <<>> /\ sent = {}
  /\ es = "open" => Streaming(from, sent, log, landed, since, poll)

Inv == Index(clock, log, landed) /\ StreamInv

\* A stream keeps what it has passed while events land and are sent.
LEMMA PassedGrows ==
  ASSUME NEW c, NEW lg, NEW n, Index(c, lg, n), NEW c2, NEW lg2, NEW n2, Index(c2, lg2, n2),
         Grows(lg, n, lg2, n2), NEW f, Sharp(f), NEW s, NEW s2, s \subseteq s2, NEW t,
         Passed(f, s, lg, n, t)
  PROVE  Passed(f, s2, lg2, n2, t)
  <1>1. /\ n \in Nat /\ n2 \in Nat /\ Len(lg) \in Nat /\ Len(lg2) \in Nat /\ n <= n2
        /\ n <= Len(lg) /\ n2 <= Len(lg2) /\ f \in Nat /\ t \in Nat /\ Limit \in Nat
        /\ Len(lg) <= Len(lg2)
    BY FeedAssumption DEF Index, Grows, Sharp, Passed
  <1>2. \A e \in 1 .. n : lg2[e] = lg[e]
    BY <1>1 DEF Grows
  <1>3. \A e \in 1 .. n2 : lg2[e] \in Nat
    BY <1>1 DEF Index
  <1>4. \A e \in 1 .. n2, h \in 1 .. n2 : e < h => lg2[e] < lg2[h]
    BY <1>1 DEF Index
  <1>5. t <= f \/ \E h \in 1 .. n2 : t <= lg2[h]
    <2>1. CASE t <= f
      BY <2>1
    <2>2. ASSUME NEW h \in 1 .. n, t <= lg[h]  PROVE \E k \in 1 .. n2 : t <= lg2[k]
      BY <1>1, <1>2, <2>2
    <2> QED BY <2>1, <2>2 DEF Passed
  <1>6. ASSUME NEW e \in 1 .. n2, f < lg2[e], lg2[e] <= t
        PROVE  e \in s2 \/ Over(n2, e)
    <2>1. lg2[e] \in Nat
      BY <1>3
    <2>2. PICK h \in 1 .. n : t <= lg[h]
      BY <1>1, <1>6, <2>1 DEF Passed
    <2>3. h \in 1 .. n2 /\ lg2[h] = lg[h] /\ lg2[h] \in Nat
      BY <1>1, <1>2, <1>3
    <2>4. ~(h < e)
      BY <1>1, <1>4, <1>6, <2>1, <2>2, <2>3
    <2>5. e \in 1 .. n
      BY <1>1, <2>4
    <2>6. e \in s \/ Over(n, e)
      BY <1>2, <1>6, <2>5 DEF Passed
    <2> QED BY <1>1, <2>5, <2>6 DEF Over
  <1> QED BY <1>5, <1>6 DEF Passed

\* So does what a poll has still to send.
LEMMA SendingGrows ==
  ASSUME NEW c, NEW lg, NEW n, Index(c, lg, n), NEW c2, NEW lg2, NEW n2, Index(c2, lg2, n2),
         Grows(lg, n, lg2, n2), NEW f, NEW s, NEW s2, s \subseteq s2, NEW left,
         Sending(f, s, lg, n, left)
  PROVE  Sending(f, s2, lg2, n2, left)
  <1>1. /\ n \in Nat /\ n2 \in Nat /\ Len(lg) \in Nat /\ n <= n2 /\ n <= Len(lg)
        /\ Limit \in Nat
    BY FeedAssumption DEF Index, Grows
  <1>2. \A e \in 1 .. n : lg2[e] = lg[e] /\ e \in 1 .. n2
    BY <1>1 DEF Grows
  <1>3. left \in Seq(Nat) /\ Len(left) \in Nat \ {0} /\ DOMAIN left = 1 .. Len(left)
    BY DEF Sending
  <1>4. \A k \in 1 .. Len(left) : left[k] \in 1 .. n /\ f < lg[left[k]]
    BY DEF Sending
  <1>5. \A k \in 1 .. Len(left) : left[k] \in 1 .. n2 /\ f < lg2[left[k]]
    BY <1>2, <1>4
  <1>6. ASSUME NEW k \in 1 .. Len(left), NEW e \in 1 .. left[k] - 1, f < lg2[e]
        PROVE  e \in s2 \/ Over(n2, e) \/ \E j \in 1 .. k - 1 : left[j] = e
    <2>1. e \in 1 .. n
      BY <1>1, <1>4
    <2>2. e \in s \/ Over(n, e) \/ \E j \in 1 .. k - 1 : left[j] = e
      BY <1>2, <1>6, <2>1 DEF Sending
    <2> QED BY <1>1, <2>1, <2>2 DEF Over
  <1>7. \A j, k \in 1 .. Len(left) : j < k => left[j] < left[k]
    BY DEF Sending
  <1> QED BY <1>3, <1>5, <1>6, <1>7 DEF Sending

\* And so does the whole stream.
LEMMA StreamGrows ==
  ASSUME NEW c, NEW lg, NEW n, Index(c, lg, n), NEW c2, NEW lg2, NEW n2, Index(c2, lg2, n2),
         Grows(lg, n, lg2, n2), NEW f, NEW s, NEW t, NEW pl,
         Streaming(f, s, lg, n, t, pl)
  PROVE  Streaming(f, s, lg2, n2, t, pl)
  <1>1. Sharp(f) /\ s \subseteq 1 .. n2
    BY DEF Streaming, Grows, Index
  <1>2. Passed(f, s, lg2, n2, t)
    BY <1>1, PassedGrows DEF Streaming
  <1>3. ASSUME NEW p \in Polls  PROVE PollOK(f, s, lg2, n2, pl[p])
    <2>1. PollOK(f, s, lg, n, pl[p])
      BY DEF Streaming
    <2>2. pl[p].at = "asked" => Passed(f, s, lg2, n2, pl[p].after)
      BY <1>1, <2>1, PassedGrows DEF PollOK
    <2>3. pl[p].at = "sending" => Sending(f, s, lg2, n2, pl[p].left)
      BY <2>1, SendingGrows DEF PollOK
    <2> QED BY <2>1, <2>2, <2>3 DEF PollOK
  <1> QED BY <1>1, <1>2, <1>3 DEF Streaming

\* A poll that moves, and sends, leaves the others as they were.
LEMMA PollMoves ==
  ASSUME NEW c, NEW lg, NEW n, Index(c, lg, n), NEW f, NEW s, NEW s2, NEW t, NEW t2, NEW pl,
         Streaming(f, s, lg, n, t, pl), DOMAIN pl = Polls,
         s \subseteq s2, s2 \subseteq 1 .. n, Passed(f, s2, lg, n, t2),
         NEW p \in Polls, NEW q, PollOK(f, s2, lg, n, q)
  PROVE  Streaming(f, s2, lg, n, t2, [pl EXCEPT ![p] = q])
  <1>1. Sharp(f) /\ Grows(lg, n, lg, n)
    BY DEF Streaming, Grows, Index
  <1>3. ASSUME NEW u, Passed(f, s, lg, n, u)  PROVE Passed(f, s2, lg, n, u)
    BY <1>1, <1>3, PassedGrows
  <1>4. ASSUME NEW u, Sending(f, s, lg, n, u)  PROVE Sending(f, s2, lg, n, u)
    BY <1>1, <1>4, SendingGrows
  <1>2. ASSUME NEW r \in Polls  PROVE PollOK(f, s2, lg, n, [pl EXCEPT ![p] = q][r])
    <2>1. CASE r = p
      BY <2>1
    <2>2. CASE r # p
      <3>1. [pl EXCEPT ![p] = q][r] = pl[r]
        BY <2>2
      <3>2. PollOK(f, s, lg, n, pl[r])
        BY DEF Streaming
      <3>3. ASSUME pl[r].at = "asked"  PROVE Passed(f, s2, lg, n, pl[r].after)
        <4>1. Passed(f, s, lg, n, pl[r].after)
          BY <3>2, <3>3 DEF PollOK
        <4> QED BY <1>3, <4>1
      <3>4. ASSUME pl[r].at = "sending"  PROVE Sending(f, s2, lg, n, pl[r].left)
        <4>1. Sending(f, s, lg, n, pl[r].left)
          BY <3>2, <3>4 DEF PollOK
        <4> QED BY <1>4, <4>1
      <3>5. PollOK(f, s2, lg, n, pl[r])
        BY <3>2, <3>3, <3>4 DEF PollOK
      <3> QED BY <3>1, <3>5
    <2> QED BY <2>1, <2>2
  <1> QED BY <1>1, <1>2 DEF Streaming

----------------------------------------------------------------------------
(* Steps.                                                                  *)

\* Time passes, an event is dated or lands: the index grows.
LEMMA IndexGrows ==
  ASSUME Index(clock, log, landed), Tick \/ Observe \/ Land \/ DockChanges
  PROVE  Index(clock, log, landed)' /\ Grows(log, landed, log', landed')
  <1>1. /\ clock \in Nat /\ log \in Seq(Nat) /\ Len(log) \in Nat /\ landed \in 0 .. Len(log)
        /\ DOMAIN log = 1 .. Len(log)
        /\ \A e \in 1 .. Len(log) : log[e] \in Nat /\ log[e] <= clock
        /\ \A e, h \in 1 .. Len(log) : e < h => log[e] < log[h]
    BY DEF Index
  <1>2. CASE Tick
    BY <1>1, <1>2 DEF Tick, Index, Grows
  <1>3. CASE Observe
    <2>1. /\ log' = Append(log, clock) /\ clock' = clock /\ landed' = landed
          /\ landed = Len(log) /\ \A e \in 1 .. Len(log) : log[e] < clock
      BY <1>3 DEF Observe
    <2>2. /\ log' \in Seq(Nat) /\ Len(log') = Len(log) + 1
          /\ DOMAIN log' = 1 .. Len(log) + 1
      BY <1>1, <2>1
    <2>3. \A e \in 1 .. Len(log) : log'[e] = log[e]
      BY <1>1, <2>1
    <2>4. log'[Len(log) + 1] = clock
      BY <1>1, <2>1
    <2>5. \A e \in 1 .. Len(log') : e \in 1 .. Len(log) \/ e = Len(log) + 1
      BY <1>1, <2>2
    <2>6. \A e \in 1 .. Len(log') : log'[e] \in Nat /\ log'[e] <= clock
      BY <1>1, <2>3, <2>4, <2>5
    <2>7. ASSUME NEW e \in 1 .. Len(log'), NEW h \in 1 .. Len(log'), e < h
          PROVE  log'[e] < log'[h]
      <3>1. e \in 1 .. Len(log)
        BY <1>1, <2>2, <2>7
      <3> QED BY <1>1, <2>1, <2>3, <2>4, <2>5, <2>7, <3>1
    <2> QED BY <1>1, <2>1, <2>2, <2>3, <2>6, <2>7 DEF Index, Grows
  <1>4. CASE Land
    BY <1>1, <1>4 DEF Land, Index, Grows
  <1>5. CASE DockChanges
    BY <1>1, <1>5 DEF DockChanges, Index, Grows
  <1> QED BY <1>2, <1>3, <1>4, <1>5

\* While it does, the stream keeps what holds of it.
LEMMA WorldKeeps ==
  ASSUME Inv, Tick \/ Observe \/ Land \/ DockChanges
  PROVE  Inv'
  <1>1. Index(clock, log, landed)' /\ Grows(log, landed, log', landed')
    BY IndexGrows DEF Inv
  <1>2. UNCHANGED <<client, wire, stream>>
    BY DEF Tick, Observe, Land, DockChanges
  <1>3. UNCHANGED <<es, url, lastSeen, wire, since, poll, from, sent>>
    BY <1>2 DEF client, stream
  <1>4. Index(clock, log, landed)
    BY DEF Inv
  <1>5. Index(clock', log', landed')
    BY <1>1 DEF Index
  <1>6. es = "open" => Streaming(from, sent, log', landed', since, poll)
    BY <1>1, <1>4, <1>5, StreamGrows DEF Inv, StreamInv
  <1>7. es = "open" => Streaming(from, sent, log, landed, since, poll)'
    BY <1>3, <1>6 DEF Streaming, Passed, PollOK, Sending
  <1> QED BY <1>1, <1>3, <1>7 DEF Inv, StreamInv

\* Nothing is left of a stream that ends.
LEMMA GoneKeeps ==
  ASSUME Inv, Load \/ Disconnect \/ Break
  PROVE  Inv'
  <1>1. StreamGone /\ UNCHANGED index
    BY DEF Load, Disconnect, Break
  <1>2. /\ es' \in {"closed", "connecting"}
        /\ url' = NoTime \/ url' = url
        /\ lastSeen' = NoTime \/ lastSeen' = lastSeen
    BY DEF Load, Disconnect, Break
  <1>3. poll' = [p \in Polls |-> Idle] /\ wire' = <<>> /\ sent' = {}
    BY <1>1 DEF StreamGone
  <1>4. Index(clock, log, landed)'
    BY <1>1 DEF index, Inv, Index
  <1> QED BY <1>2, <1>3, <1>4 DEF Inv, StreamInv, Since

\* A stream begins with nothing behind it.
LEMMA BeginsWhole ==
  ASSUME Inv, Connect \/ Accept
  PROVE  Inv'
  <1>1. Index(clock, log, landed) /\ clock \in Nat
    BY DEF Inv, Index
  <1>2. Index(clock, log, landed)'
    BY <1>1 DEF Connect, Accept, index, Index
  <1>3. CASE Connect
    BY <1>2, <1>3 DEF Connect, Inv, StreamInv, Since, stream
  <1>4. CASE Accept
    <2>1. /\ es' = "open" /\ since' = ResumeAfter /\ from' = ResumeAfter
          /\ UNCHANGED <<index, url, lastSeen, poll, sent>> /\ es = "connecting"
      BY <1>4 DEF Accept
    <2>2. Sharp(ResumeAfter)
      BY <1>1, MillisKeep DEF Inv, StreamInv, Since, ResumeAfter
    <2>3. sent = {} /\ poll = [p \in Polls |-> Idle]
      BY <2>1 DEF Inv, StreamInv
    <2>4. \A p \in Polls : poll'[p] = Idle
      BY <2>1, <2>3
    <2>5. ResumeAfter \in Nat
      BY <2>2 DEF Sharp
    <2>6. Passed(from', sent', log', landed', since')
      <3> DEFINE t == ResumeAfter
      <3>1. Passed(t, {}, log', landed', t)
        <4> HIDE DEF t
        <4>1. \A e \in 1 .. landed' : log'[e] \in Nat
          BY <1>2 DEF Index
        <4> QED BY <2>2, <2>5, <4>1 DEF Passed, t
      <3> QED BY <2>1, <2>3, <3>1
    <2>7. \A p \in Polls : PollOK(from', sent', log', landed', poll'[p])
      BY <2>4 DEF PollOK, Idle
    <2>8. Streaming(from', sent', log', landed', since', poll')
      BY <2>1, <2>2, <2>3, <2>6, <2>7 DEF Streaming
    <2>9. Streaming(from, sent, log, landed, since, poll)'
      BY <2>8 DEF Streaming, Passed, PollOK, Sending
    <2> QED BY <1>2, <2>1, <2>9 DEF Inv, StreamInv
  <1> QED BY <1>3, <1>4

\* What the page does with a message is nothing to the stream.
LEMMA ReceiveKeeps ==
  ASSUME Inv, Receive
  PROVE  Inv'
  <1>1. /\ es = "open" /\ UNCHANGED <<index, es, url, stream>>
        /\ lastSeen' = lastSeen \/ lastSeen' = Millis(clock)
    BY DEF Receive
  <1>2. Since(lastSeen')
    BY <1>1, MillisKeep DEF Inv, StreamInv, Index, Since
  <1>3. Index(clock, log, landed)'
    BY <1>1 DEF Inv, index, Index
  <1>4. Streaming(from, sent, log, landed, since, poll)'
    BY <1>1 DEF Inv, StreamInv, index, stream, Streaming, Passed, PollOK, Sending
  <1> QED BY <1>1, <1>2, <1>3, <1>4 DEF Inv, StreamInv, Since, stream

\* A poll is under way only while the stream is open.
LEMMA PollsWhileOpen ==
  ASSUME StreamInv, NEW p \in Polls, poll[p].at # "idle"
  PROVE  es = "open"
  BY DEF StreamInv, Idle

\* A step of one poll: what it may do to keep what holds of the stream.
LEMMA PollStepKeeps ==
  ASSUME Inv, es = "open", UNCHANGED <<index, es, url, lastSeen, from>>,
         NEW p \in Polls, NEW q, poll' = [poll EXCEPT ![p] = q],
         sent \subseteq sent', sent' \subseteq 1 .. landed,
         Passed(from, sent', log, landed, since'),
         PollOK(from, sent', log, landed, q)
  PROVE  Inv'
  <1>1. Index(clock, log, landed)' /\ Index(clock, log, landed)
    BY DEF Inv, index, Index
  <1>2. Streaming(from, sent, log, landed, since, poll) /\ DOMAIN poll = Polls
    BY DEF Inv, StreamInv
  <1>3. Streaming(from, sent', log, landed, since', [poll EXCEPT ![p] = q])
    BY <1>1, <1>2, PollMoves
  <1>4. Streaming(from', sent', log', landed', since', poll')
    BY <1>3 DEF index
  <1>5. Streaming(from, sent, log, landed, since, poll)'
    BY <1>4 DEF Streaming, Passed, PollOK, Sending
  <1>6. DOMAIN poll' = Polls
    BY <1>2
  <1> QED BY <1>1, <1>5, <1>6 DEF Inv, StreamInv, Since

\* A poll asks from where the stream has got to.
LEMMA AskKeeps ==
  ASSUME Inv, NEW p \in Polls, PollAsk(p)
  PROVE  Inv'
  <1> DEFINE q == [at |-> "asked", after |-> since]
  <1>1. /\ es = "open" /\ UNCHANGED <<index, client, since, from, sent>>
        /\ poll' = [poll EXCEPT ![p] = q]
    BY DEF PollAsk
  <1>2. Passed(from, sent, log, landed, since) /\ sent \subseteq 1 .. landed
    BY <1>1 DEF Inv, StreamInv, Streaming
  <1>3. PollOK(from, sent, log, landed, q)
    BY <1>2 DEF PollOK
  <1> HIDE DEF q
  <1>4. UNCHANGED <<index, es, url, lastSeen, from>>
    BY <1>1 DEF client
  <1> QED BY <1>1, <1>2, <1>3, <1>4, PollStepKeeps

\* The answer, turned round, is what the stream has not passed.
LEMMA ReadKeeps ==
  ASSUME Inv, NEW p \in Polls, PollRead(p)
  PROVE  Inv'
  <1> DEFINE rows == FeedOf(poll[p].after)
             left == SendingOrder(rows)
             q    == IF rows = <<>> THEN [at |-> "quiet"]
                     ELSE [at |-> "sending", left |-> left, newest |-> rows[1]]
             n    == Len(rows)
  <1>1. /\ poll[p].at = "asked" /\ UNCHANGED <<index, client, since, from, sent>>
        /\ poll' = [poll EXCEPT ![p] = q]
    BY DEF PollRead
  <1>2. es = "open" /\ UNCHANGED <<index, es, url, lastSeen, from>>
    BY <1>1, PollsWhileOpen DEF Inv, client
  <1>3. /\ Passed(from, sent, log, landed, since) /\ sent \subseteq 1 .. landed
        /\ Passed(from, sent, log, landed, poll[p].after)
        /\ Sharp(from) /\ Index(clock, log, landed)
    BY <1>1, <1>2 DEF Inv, StreamInv, Streaming, PollOK
  <1>4. /\ rows \in Seq(Nat) /\ n \in Nat /\ DOMAIN rows = 1 .. n
        /\ \A k \in 1 .. n : rows[k] \in 1 .. landed /\ log[rows[k]] > poll[p].after
        /\ \A j, k \in 1 .. n : j < k => rows[j] > rows[k]
        /\ \A e \in 1 .. landed : log[e] > poll[p].after =>
             (\E k \in 1 .. n : rows[k] = e) \/ Over(landed, e)
    <2> HIDE DEF left, q
    <2>1. Index(clock, log, landed) /\ Limit \in Nat
      BY <1>3, FeedAssumption
    <2> QED BY <2>1, FeedIs
  <1>5. /\ landed \in Nat /\ \A e \in 1 .. landed : log[e] \in Nat
        /\ from \in Nat /\ poll[p].after \in Nat /\ from <= poll[p].after
    BY <1>3 DEF Index, Passed, Sharp
  <1>6. ASSUME rows # <<>>  PROVE Sending(from, sent, log, landed, left) /\ left[n] = rows[1]
    <2> HIDE DEF rows
    <2>1. n \in Nat \ {0}
      BY <1>4, <1>6
    <2>2. left = [i \in 1 .. n |-> rows[(n - i) + 1]]
      BY DEF SendingOrder, Reverse
    <2> HIDE DEF left, n
    <2>3. \A i \in 1 .. n : (n - i) + 1 \in 1 .. n
      BY <2>1
    <2>4. left \in Seq(Nat) /\ Len(left) = n /\ DOMAIN left = 1 .. n
      <3>1. \A i \in 1 .. n : rows[(n - i) + 1] \in Nat
        BY <1>4, <1>5, <2>3, SMTT(30)
      <3> QED BY <2>1, <2>2, <3>1
    <2>5. \A i \in 1 .. n : left[i] = rows[(n - i) + 1]
      BY <2>2
    <2>6. left[n] = rows[1]
      BY <2>1, <2>5
    <2>7. \A i \in 1 .. n : /\ left[i] \in 1 .. landed /\ log[left[i]] > poll[p].after
                            /\ from < log[left[i]]
      BY <1>4, <1>5, <2>3, <2>5, SMTT(30)
    <2>8. ASSUME NEW j \in 1 .. n, NEW k \in 1 .. n, j < k  PROVE left[j] < left[k]
      <3>1. (n - k) + 1 \in 1 .. n /\ (n - j) + 1 \in 1 .. n /\ (n - k) + 1 < (n - j) + 1
        BY <2>1, <2>8
      <3>2. rows[(n - k) + 1] > rows[(n - j) + 1]
        BY <1>4, <3>1
      <3> QED BY <2>5, <2>7, <3>2
    <2>9. ASSUME NEW k \in 1 .. n, NEW e \in 1 .. left[k] - 1, from < log[e]
          PROVE  e \in sent \/ Over(landed, e) \/ \E j \in 1 .. k - 1 : left[j] = e
      <3>1. e \in 1 .. landed /\ e < left[k] /\ left[k] \in Nat
        BY <1>5, <2>7
      <3>2. CASE log[e] <= poll[p].after
        BY <1>3, <2>9, <3>1, <3>2 DEF Passed
      <3>3. ASSUME NEW i \in 1 .. n, rows[i] = e
            PROVE  \E j \in 1 .. k - 1 : left[j] = e
        <4>1. (n - i) + 1 \in 1 .. n
          BY <2>3
        <4>2. left[(n - i) + 1] = e
          <5>1. (n - ((n - i) + 1)) + 1 = i
            BY <2>1
          <5> QED BY <2>5, <3>3, <4>1, <5>1
        <4>3. ~((n - i) + 1 > k) /\ (n - i) + 1 # k
          BY <2>8, <3>1, <4>1, <4>2
        <4>4. (n - i) + 1 \in 1 .. k - 1
          BY <2>1, <4>1, <4>3
        <4> QED BY <4>2, <4>4
      <3> QED BY <1>4, <1>5, <3>1, <3>2, <3>3, SMTT(30)
    <2> QED BY <2>1, <2>4, <2>6, <2>7, <2>8, <2>9 DEF Sending
  <1>7. PollOK(from, sent, log, landed, q)
    <2>1. CASE rows = <<>>
      <3>1. q = [at |-> "quiet"]
        BY <2>1
      <3> HIDE DEF q
      <3> QED BY <3>1 DEF PollOK
    <2>2. CASE rows # <<>>
      <3>1. q.at = "sending" /\ q.left = left /\ q.newest = rows[1]
        BY <2>2
      <3>2. Len(left) = n
        BY <1>4 DEF SendingOrder, Reverse
      <3> HIDE DEF q, left, rows, n
      <3> QED BY <1>6, <2>2, <3>1, <3>2 DEF PollOK
    <2> QED BY <2>1, <2>2
  <1> HIDE DEF q, rows, left, n
  <1> QED BY <1>1, <1>2, <1>3, <1>7, PollStepKeeps

\* A poll that found nothing, or fails, is over.
LEMMA OverKeeps ==
  ASSUME Inv, NEW p \in Polls, PollQuiet(p) \/ PollFail(p)
  PROVE  Inv'
  <1>1. /\ poll[p].at # "idle" /\ UNCHANGED <<index, client, since, from, sent>>
        /\ poll' = [poll EXCEPT ![p] = Idle]
    BY DEF PollQuiet, PollFail, Report
  <1>2. es = "open" /\ UNCHANGED <<index, es, url, lastSeen, from>>
    BY <1>1, PollsWhileOpen DEF Inv, client
  <1>3. Passed(from, sent, log, landed, since) /\ sent \subseteq 1 .. landed
    BY <1>2 DEF Inv, StreamInv, Streaming
  <1>4. PollOK(from, sent, log, landed, Idle)
    BY DEF PollOK, Idle
  <1> QED BY <1>1, <1>2, <1>3, <1>4, PollStepKeeps

\* What a poll sends first has everything before it sent.
LEMMA SendKeeps ==
  ASSUME Inv, NEW p \in Polls, PollSend(p)
  PROVE  Inv'
  <1> DEFINE left == poll[p].left
             n    == Len(left)
             q    == [poll[p] EXCEPT !.left = Tail(@)]
             s2   == sent \cup {Head(left)}
  <1>1. /\ poll[p].at = "sending" /\ UNCHANGED <<index, client, since, from>>
        /\ n > 1 /\ sent' = s2
    BY DEF PollSend, Sent
  <1>2. poll' = [poll EXCEPT ![p] = q]
    BY DEF PollSend
  <1>3. es = "open" /\ UNCHANGED <<index, es, url, lastSeen, from>>
    BY <1>1, PollsWhileOpen DEF Inv, client
  <1>4. /\ Passed(from, sent, log, landed, since) /\ sent \subseteq 1 .. landed
        /\ Sending(from, sent, log, landed, left)
        /\ poll[p].newest = left[n]
        /\ Sharp(from) /\ Index(clock, log, landed)
    BY <1>1, <1>3 DEF Inv, StreamInv, Streaming, PollOK
  <1>5. q.at = "sending" /\ q.left = Tail(left) /\ q.newest = left[n]
    BY <1>1, <1>4
  <1>6. /\ left \in Seq(Nat) /\ n \in Nat \ {0} /\ DOMAIN left = 1 .. n
        /\ \A k \in 1 .. n : left[k] \in 1 .. landed /\ from < log[left[k]]
        /\ \A j, k \in 1 .. n : j < k => left[j] < left[k]
        /\ \A k \in 1 .. n : \A e \in 1 .. left[k] - 1 :
             from < log[e] => \/ e \in sent \/ Over(landed, e)
                              \/ \E j \in 1 .. k - 1 : left[j] = e
    BY <1>4 DEF Sending
  <1>7. landed \in Nat
    BY <1>4 DEF Index
  <1> HIDE DEF left, q, n
  <1>8. /\ Tail(left) \in Seq(Nat) /\ Len(Tail(left)) = n - 1 /\ Head(left) = left[1]
        /\ DOMAIN Tail(left) = 1 .. n - 1
        /\ \A k \in 1 .. n - 1 : Tail(left)[k] = left[k + 1]
    BY <1>6 DEF n
  <1>9. s2 \subseteq 1 .. landed /\ sent \subseteq s2 /\ left[1] \in s2
    <2>1. left[1] \in 1 .. landed
      BY <1>6
    <2> QED BY <1>4, <1>8, <2>1
  <1> HIDE DEF s2
  <1>10. Passed(from, s2, log, landed, since)
    <2>1. Grows(log, landed, log, landed)
      BY <1>4 DEF Grows, Index
    <2> QED BY <1>4, <1>9, <2>1, PassedGrows
  <1>11. Sending(from, s2, log, landed, Tail(left))
    <2>1. \A k \in 1 .. n - 1 : k + 1 \in 1 .. n
      BY <1>6
    <2>2. \A k \in 1 .. n - 1 : Tail(left)[k] \in 1 .. landed /\ from < log[Tail(left)[k]]
      BY <1>6, <1>8, <2>1
    <2>3. ASSUME NEW j \in 1 .. n - 1, NEW k \in 1 .. n - 1, j < k
          PROVE  Tail(left)[j] < Tail(left)[k]
      <3>1. j + 1 \in 1 .. n /\ k + 1 \in 1 .. n /\ j + 1 < k + 1
        BY <1>6, <2>3
      <3> QED BY <1>6, <1>8, <3>1
    <2>4. ASSUME NEW k \in 1 .. n - 1, NEW e \in 1 .. Tail(left)[k] - 1, from < log[e]
          PROVE  e \in s2 \/ Over(landed, e) \/ \E j \in 1 .. k - 1 : Tail(left)[j] = e
      <3>1. k + 1 \in 1 .. n /\ e \in 1 .. left[k + 1] - 1
        BY <1>8, <2>1
      <3>2. e \in sent \/ Over(landed, e) \/ \E i \in 1 .. (k + 1) - 1 : left[i] = e
        BY <1>6, <2>4, <3>1
      <3>3. ASSUME NEW i \in 1 .. (k + 1) - 1, left[i] = e
            PROVE  e \in s2 \/ \E j \in 1 .. k - 1 : Tail(left)[j] = e
        <4>1. CASE i = 1
          BY <1>9, <3>3, <4>1
        <4>2. CASE i # 1
          <5>1. i - 1 \in 1 .. k - 1 /\ i - 1 \in 1 .. n - 1 /\ (i - 1) + 1 = i
            BY <1>6, <4>2
          <5>2. Tail(left)[i - 1] = e
            BY <1>8, <3>3, <5>1
          <5> QED BY <5>1, <5>2
        <4> QED BY <4>1, <4>2
      <3> QED BY <1>9, <3>2, <3>3
    <2>5. n - 1 \in Nat \ {0}
      BY <1>1, <1>6
    <2> QED BY <1>8, <2>2, <2>3, <2>4, <2>5 DEF Sending
  <1>12. PollOK(from, s2, log, landed, q)
    <2>1. q.newest = q.left[Len(q.left)]
      BY <1>1, <1>5, <1>6, <1>8
    <2> QED BY <1>5, <1>11, <2>1 DEF PollOK
  <1> QED BY <1>1, <1>2, <1>3, <1>9, <1>10, <1>12, PollStepKeeps

\* Once the last one is sent, nothing up to it is missing.
LEMMA LastKeeps ==
  ASSUME Inv, NEW p \in Polls, PollSendLast(p)
  PROVE  Inv'
  <1> DEFINE left == poll[p].left
             e1   == poll[p].newest
             s2   == sent \cup {Head(left)}
             t2   == Millis(log[e1])
  <1>1. /\ poll[p].at = "sending" /\ UNCHANGED <<index, client, from>>
        /\ Len(left) = 1 /\ sent' = s2 /\ since' = t2
        /\ poll' = [poll EXCEPT ![p] = Idle]
    BY DEF PollSendLast, Sent, Report, ResumePoint
  <1>2. es = "open" /\ UNCHANGED <<index, es, url, lastSeen, from>>
    BY <1>1, PollsWhileOpen DEF Inv, client
  <1>3. /\ sent \subseteq 1 .. landed
        /\ Sending(from, sent, log, landed, left)
        /\ e1 = left[1]
        /\ Sharp(from) /\ Index(clock, log, landed)
    BY <1>1, <1>2 DEF Inv, StreamInv, Streaming, PollOK
  <1>4. /\ left \in Seq(Nat) /\ e1 \in 1 .. landed /\ from < log[e1]
        /\ Head(left) = e1
        /\ \A e \in 1 .. e1 - 1 : from < log[e] => e \in sent \/ Over(landed, e)
    BY <1>1, <1>3 DEF Sending
  <1>5. /\ landed \in Nat /\ from \in Nat /\ \A e \in 1 .. landed : log[e] \in Nat
        /\ \A e, h \in 1 .. landed : e < h => log[e] < log[h]
    BY <1>3 DEF Index, Sharp
  <1>6. t2 \in Nat /\ t2 <= log[e1] /\ Sharp(t2) /\ from <= t2
    <2>1. log[e1] \in Nat /\ from <= log[e1]
      BY <1>4, <1>5
    <2> HIDE DEF e1
    <2>2. t2 \in Nat /\ t2 <= log[e1] /\ Sharp(t2)
      BY <2>1, MillisKeep
    <2>3. from <= t2
      BY <1>3, <2>1, SharpBelow
    <2> QED BY <2>2, <2>3
  <1>7. s2 \subseteq 1 .. landed /\ sent \subseteq s2 /\ e1 \in s2
    BY <1>3, <1>4
  <1> HIDE DEF left, e1, s2, t2
  <1>8. Passed(from, s2, log, landed, t2)
    <2>1. ASSUME NEW e \in 1 .. landed, from < log[e], log[e] <= t2
          PROVE  e \in s2 \/ Over(landed, e)
      <3>1. ~(e1 < e)
        BY <1>4, <1>5, <1>6, <2>1
      <3>2. e = e1 \/ e \in 1 .. e1 - 1
        BY <1>4, <1>5, <3>1
      <3> QED BY <1>4, <1>7, <2>1, <3>2
    <2> QED BY <1>4, <1>6, <2>1 DEF Passed
  <1>9. PollOK(from, s2, log, landed, Idle)
    BY DEF PollOK, Idle
  <1> QED BY <1>1, <1>2, <1>7, <1>8, <1>9, PollStepKeeps

\* Nothing has happened yet.
LEMMA Begins == Init => Inv
  <1> SUFFICES ASSUME Init  PROVE Inv
    OBVIOUS
  <1>1. Index(clock, log, landed)
    <2>1. log = <<>> /\ clock = 0 /\ landed = 0
      BY DEF Init
    <2> QED BY <2>1 DEF Index
  <1> QED BY <1>1 DEF Init, Inv, StreamInv, Since

\* Every step keeps it.
LEMMA Keeps == Inv /\ [Next]_vars => Inv'
  <1> SUFFICES ASSUME Inv, [Next]_vars  PROVE Inv'
    OBVIOUS
  <1>1. CASE Tick \/ Observe \/ Land \/ DockChanges
    BY <1>1, WorldKeeps
  <1>2. CASE Load \/ Disconnect \/ Break
    BY <1>2, GoneKeeps
  <1>3. CASE Connect \/ Accept
    BY <1>3, BeginsWhole
  <1>4. CASE Receive
    BY <1>4, ReceiveKeeps
  <1>5. ASSUME NEW p \in Polls, PollAsk(p) \/ Poll(p) \/ PollFail(p)
        PROVE  Inv'
    BY <1>5, AskKeeps, ReadKeeps, OverKeeps, SendKeeps, LastKeeps DEF Poll
  <1>6. CASE UNCHANGED vars
    BY <1>6, SMTT(30) DEF vars, index, client, stream, Inv, Index, StreamInv, Since, Streaming,
                Passed, PollOK, Sending
  <1> QED BY <1>1, <1>2, <1>3, <1>4, <1>5, <1>6 DEF Next

\* A stream never moves past an event it has not sent, however its polls overlap, are
\* answered or fail, unless so many newer events can be read that no query need answer
\* it (app.ts 366-409): for any precision of a Date and any number of polls.
THEOREM NothingSkipped == Spec => []NoneSkipped
  <1>1. Inv => NoneSkipped
    BY DEF Inv, StreamInv, Streaming, Passed, NoneSkipped, Over, OverLimit
  <1> QED BY Begins, Keeps, <1>1, PTL DEF Spec

----------------------------------------------------------------------------
(* The page.                                                               *)

\* A set of numbers has a least one.
LEMMA LeastNat ==
  ASSUME NEW T, T \subseteq Nat, T # {}
  PROVE  \E n \in T : \A m \in T : n <= m
  <1> DEFINE R == OpToRel(<, Nat)
  <1>1. IsWellFoundedOn(R, Nat)
    BY NatLessThanWellFounded
  <1> HIDE DEF R
  <1>2. PICK n \in T : \A m \in T : ~(<<m, n>> \in R)
    BY <1>1, WFMin
  <1>3. \A m \in T : ~(m < n)
    BY <1>2 DEF R, OpToRel
  <1> QED BY <1>3

\* A page of at most so many cards, each above the older ones.
Descending(pg, n) ==
  /\ pg \in Seq(Nat) /\ Len(pg) \in 0 .. Cap /\ DOMAIN pg = 1 .. Len(pg)
  /\ \A i \in 1 .. Len(pg) : pg[i] \in 1 .. n
  /\ \A i, j \in 1 .. Len(pg) : i < j => pg[i] > pg[j]

Carded(pg, x) == \E i \in 1 .. Len(pg) : pg[i] = x

\* A card in such a page is as many events below the top as it is places.
LEMMA Descends ==
  ASSUME NEW n \in Nat, NEW pg, Descending(pg, n), NEW k \in 1 .. Len(pg)
  PROVE  pg[1] >= pg[k] + k - 1
  <1> DEFINE S == {i \in 1 .. Len(pg) : ~(pg[1] >= pg[i] + i - 1)}
  <1>1. /\ Len(pg) \in Nat
        /\ \A i \in 1 .. Len(pg) : pg[i] \in Nat
        /\ \A i, j \in 1 .. Len(pg) : i < j => pg[i] > pg[j]
    BY FeedAssumption, SMTT(30) DEF Descending
  <1> SUFFICES ASSUME S # {}  PROVE FALSE
    BY <1>1
  <1>2. S \subseteq Nat
    BY <1>1
  <1>3. \E i \in S : \A j \in S : i <= j
    <2> HIDE DEF S
    <2> QED BY <1>2, LeastNat
  <1>4. PICK i \in S : \A j \in S : i <= j
    BY <1>3
  <1>5. i \in 2 .. Len(pg) /\ i - 1 \in 1 .. Len(pg)
    BY <1>1, <1>4, SMTT(30)
  <1>6. i - 1 \notin S
    BY <1>4, <1>5
  <1>7. pg[1] >= pg[i - 1] + (i - 1) - 1
    BY <1>5, <1>6
  <1>9. pg[i - 1] > pg[i]
    <2>1. i \in 1 .. Len(pg) /\ i - 1 \in 1 .. Len(pg) /\ i - 1 < i
      BY <1>1, <1>5
    <2> HIDE DEF S
    <2> QED BY <1>1, <2>1
  <1>10. /\ pg[1] \in Nat /\ pg[i] \in Nat /\ pg[i - 1] \in Nat /\ i \in Nat
         /\ i - 1 \in Nat
    BY <1>1, <1>5, SMTT(30)
  <1>8. pg[1] >= pg[i] + i - 1
    <2> HIDE DEF S
    <2> QED BY <1>7, <1>9, <1>10
  <1> QED BY <1>4, <1>8

\* A card drawn above the others: what was there stays, or is so old that a page full
\* of newer ones has pushed it off.
LEMMA RenderKeeps ==
  ASSUME NEW n \in Nat, NEW pg, Descending(pg, n), NEW e \in 1 .. n,
         Carded(pg, e) \/ \A x \in Nat : Carded(pg, x) => x < e
  PROVE  /\ Descending(Render(pg, e), n)
         /\ \A x \in Nat : Carded(Render(pg, e), x) => x = e \/ Carded(pg, x)
         /\ Carded(Render(pg, e), e)
         /\ \A x \in Nat : Carded(pg, x) => Carded(Render(pg, e), x) \/ x + Cap <= e
  <1> DEFINE l   == Len(pg)
             all == <<e>> \o pg
             m   == Min({Cap, l + 1})
             new == SubSeq(all, 1, m)
  <1>1. /\ Cap \in Nat \ {0} /\ l \in 0 .. Cap /\ pg \in Seq(Nat) /\ DOMAIN pg = 1 .. l
        /\ \A i \in 1 .. l : pg[i] \in 1 .. n
        /\ \A i, j \in 1 .. l : i < j => pg[i] > pg[j]
    BY FeedAssumption DEF Descending
  <1>2. CASE Carded(pg, e)
    <2>1. Contains(pg, e)
      BY <1>2 DEF Contains, Carded
    <2>2. Render(pg, e) = pg
      BY <2>1 DEF Render
    <2> QED BY <1>2, <2>2
  <1>3. CASE ~Carded(pg, e)
    <2>1. ~Contains(pg, e)
      BY <1>3 DEF Contains, Carded
    <2>2. Render(pg, e) = new
      BY <2>1 DEF Render
    <2>3. m \in Nat \ {0} /\ m <= Cap /\ m <= l + 1 /\ (m = l + 1 \/ (m = Cap /\ l = Cap))
      <3>1. \E x \in {Cap, l + 1} : \A y \in {Cap, l + 1} : x <= y
        BY <1>1
      <3> HIDE DEF l
      <3>2. m \in {Cap, l + 1} /\ \A y \in {Cap, l + 1} : m <= y
        BY <3>1 DEF Min
      <3> HIDE DEF m
      <3> QED BY <1>1, <3>2
    <2>4. /\ all \in Seq(Nat) /\ Len(all) = l + 1 /\ all[1] = e
          /\ \A i \in 1 .. l : all[i + 1] = pg[i]
      <3>1. <<e>> \in Seq(Nat) /\ Len(<<e>>) = 1 /\ <<e>>[1] = e
        OBVIOUS
      <3> QED BY <1>1, <3>1, ConcatProperties
    <2>17. \A x : Carded(pg, x) <=> \E i \in 1 .. l : pg[i] = x
      BY DEF Carded
    <2> HIDE DEF m, all, l
    <2>5. \A i \in 1 .. m : all[i] \in Nat
      BY <2>3, <2>4
    <2>6. /\ new \in Seq(Nat) /\ Len(new) = m /\ \A i \in 1 .. m : new[i] = all[i]
      BY <2>3, <2>5, SubSeqProperties
    <2> HIDE DEF new
    <2>7. DOMAIN new = 1 .. m
      BY <2>6
    <2>8. new[1] = e /\ \A i \in 2 .. m : i - 1 \in 1 .. l /\ new[i] = pg[i - 1]
      <3>1. ASSUME NEW i \in 2 .. m  PROVE i - 1 \in 1 .. l /\ new[i] = pg[i - 1]
        <4>1. i - 1 \in 1 .. l /\ i \in 1 .. m /\ (i - 1) + 1 = i
          BY <1>1, <2>3
        <4> QED BY <2>4, <2>6, <4>1
      <3> QED BY <2>3, <2>4, <2>6, <3>1
    <2>9. \A x \in Nat : Carded(pg, x) => x < e
      BY <1>3
    <2>10. \A i \in 1 .. l : pg[i] < e
      BY <1>1, <2>9, <2>17
    <2>11. ASSUME NEW i \in 1 .. m  PROVE new[i] \in 1 .. n
      <3>1. CASE i = 1
        BY <2>8, <3>1
      <3>2. CASE i # 1
        <4>1. i \in 2 .. m
          BY <2>3, <3>2
        <4> QED BY <1>1, <2>8, <4>1
      <3> QED BY <3>1, <3>2
    <2>12. ASSUME NEW i \in 1 .. m, NEW j \in 1 .. m, i < j  PROVE new[i] > new[j]
      <3>1. j \in 2 .. m /\ (i = 1 \/ i \in 2 .. m)
        BY <2>3, <2>12
      <3>2. CASE i = 1
        BY <1>1, <2>8, <2>10, <3>1, <3>2
      <3>3. CASE i \in 2 .. m
        BY <1>1, <2>8, <2>12, <3>1, <3>3
      <3> QED BY <3>1, <3>2, <3>3
    <2>13. Descending(new, n)
      <3>1. Len(new) \in 0 .. Cap
        BY <1>1, <2>3, <2>6
      <3> QED BY <2>6, <2>7, <2>11, <2>12, <3>1 DEF Descending
    <2>14. Carded(new, e)
      BY <2>3, <2>6, <2>8 DEF Carded
    <2>15. ASSUME NEW x \in Nat, Carded(new, x)  PROVE x = e \/ Carded(pg, x)
      <3>1. PICK i \in 1 .. m : new[i] = x
        BY <2>6, <2>15 DEF Carded
      <3>2. i = 1 \/ i \in 2 .. m
        BY <2>3
      <3> QED BY <2>8, <2>17, <3>1, <3>2
    <2>16. ASSUME NEW x \in Nat, Carded(pg, x)  PROVE Carded(new, x) \/ x + Cap <= e
      <3>1. PICK i \in 1 .. l : pg[i] = x
        BY <2>16, <2>17
      <3>2. CASE i + 1 <= m
        <4>1. i + 1 \in 1 .. m /\ new[i + 1] = x
          <5>1. i + 1 \in 1 .. m
            BY <1>1, <2>3, <3>2
          <5> QED BY <2>4, <2>6, <3>1, <5>1
        <4> QED BY <2>6, <4>1 DEF Carded
      <3>3. CASE ~(i + 1 <= m)
        <4>1. i = Cap /\ l = Cap
          BY <1>1, <2>3, <3>3
        <4>2. pg[1] >= pg[i] + i - 1 /\ 1 \in 1 .. l
          <5>1. i \in 1 .. Len(pg)
            BY DEF l
          <5> QED BY <1>1, <5>1, Descends, SMTT(30)
        <4>3. pg[1] \in Nat /\ pg[1] < e /\ e \in Nat
          BY <1>1, <2>10, <4>2
        <4> QED BY <1>1, <3>1, <4>1, <4>2, <4>3
      <3> QED BY <3>2, <3>3
    <2> QED BY <2>2, <2>13, <2>14, <2>15, <2>16
  <1> QED BY <1>2, <1>3

Message == [kind : {"event", "waiting"}, what : Nat]

\* An event that has a card, or will have been received before the i-th message is.
Ahead(pg, w, i, x) ==
  \/ Carded(pg, x)
  \/ \E j \in 1 .. i - 1 : w[j].kind = "event" /\ w[j].what = x

\* Nothing is missing below a card, down to an instant.
Closed(pg, lg, n, t) ==
  \A m \in 1 .. n : Carded(pg, m) =>
    \A e \in 1 .. m - 1 : t < lg[e] => Carded(pg, e) \/ Over(n, e)

\* An event on its way will be drawn above all others, or has a card by then and will
\* not have been pushed off; and nothing will be missing below it.
Fits(pg, w, lg, n, f, i, e) ==
  /\ e \in 1 .. n
  /\ Ahead(pg, w, i, e) \/ \A x \in Nat : Ahead(pg, w, i, x) => x < e
  /\ \A x \in Nat : Ahead(pg, w, i, x) => x < e + Limit
  /\ \A x \in 1 .. e - 1 : f < lg[x] => Ahead(pg, w, i, x) \/ Over(n, x)

\* The page with what is on its way to it, of a stream that began at f and has sent s.
Shows(pg, w, lg, n, f, s) ==
  /\ Descending(pg, n)
  /\ w \in Seq(Message)
  /\ \A i \in 1 .. Len(w) : w[i].kind = "event" => Fits(pg, w, lg, n, f, i, w[i].what)
  /\ \A e \in s : e \in 1 .. n /\ (Ahead(pg, w, Len(w) + 1, e) \/ Over(n, e))

\* The page keeps that while events land.
LEMMA ShowsGrows ==
  ASSUME NEW c, NEW lg, NEW n, Index(c, lg, n), NEW c2, NEW lg2, NEW n2, Index(c2, lg2, n2),
         Grows(lg, n, lg2, n2), NEW pg, NEW w, NEW f, NEW s, Shows(pg, w, lg, n, f, s)
  PROVE  Shows(pg, w, lg2, n2, f, s)
  <1>1. n \in Nat /\ n2 \in Nat /\ n <= n2 /\ n <= Len(lg) /\ Len(lg) \in Nat /\ Limit \in Nat
    BY FeedAssumption DEF Index, Grows
  <1>2. \A e \in 1 .. n : lg2[e] = lg[e] /\ e \in 1 .. n2
    BY <1>1 DEF Grows
  <1>3. \A e \in Int : Over(n, e) => Over(n2, e)
    BY <1>1 DEF Over
  <1>4. Descending(pg, n2)
    BY <1>2 DEF Shows, Descending
  <1>5. ASSUME NEW i \in 1 .. Len(w), NEW e, Fits(pg, w, lg, n, f, i, e)
        PROVE  Fits(pg, w, lg2, n2, f, i, e)
    <2>1. /\ e \in 1 .. n
          /\ Ahead(pg, w, i, e) \/ \A x \in Nat : Ahead(pg, w, i, x) => x < e
          /\ \A x \in Nat : Ahead(pg, w, i, x) => x < e + Limit
          /\ \A x \in 1 .. e - 1 : f < lg[x] => Ahead(pg, w, i, x) \/ Over(n, x)
      BY <1>5 DEF Fits
    <2>2. \A x \in 1 .. e - 1 : x \in 1 .. n /\ x \in Int
      BY <1>1, <2>1
    <2>3. \A x \in 1 .. e - 1 : f < lg2[x] => Ahead(pg, w, i, x) \/ Over(n2, x)
      BY <1>2, <1>3, <2>1, <2>2
    <2> QED BY <1>2, <2>1, <2>3 DEF Fits
  <1>6. \A e \in 1 .. n : Over(n, e) => Over(n2, e)
    BY <1>3
  <1>7. \A e \in s : e \in 1 .. n2 /\ (Ahead(pg, w, Len(w) + 1, e) \/ Over(n2, e))
    BY <1>2, <1>6 DEF Shows
  <1>8. \A i \in 1 .. Len(w) : w[i].kind = "event" => Fits(pg, w, lg2, n2, f, i, w[i].what)
    BY <1>5 DEF Shows
  <1> QED BY <1>4, <1>7, <1>8 DEF Shows

\* A page with nothing missing keeps that while events land, and for later instants.
LEMMA ClosedGrows ==
  ASSUME NEW c, NEW lg, NEW n, Index(c, lg, n), NEW c2, NEW lg2, NEW n2, Index(c2, lg2, n2),
         Grows(lg, n, lg2, n2), NEW pg, Descending(pg, n), NEW t \in Int, NEW u \in Int, t <= u,
         Closed(pg, lg, n, t)
  PROVE  Closed(pg, lg2, n2, u)
  <1>1. n \in Nat /\ n2 \in Nat /\ n <= n2 /\ n <= Len(lg) /\ Len(lg) \in Nat /\ Limit \in Nat
    BY FeedAssumption DEF Index, Grows
  <1>2. \A e \in 1 .. n : lg2[e] = lg[e] /\ lg[e] \in Nat
    BY <1>1 DEF Grows, Index
  <1>3. ASSUME NEW m \in 1 .. n2, Carded(pg, m), NEW e \in 1 .. m - 1, u < lg2[e]
        PROVE  Carded(pg, e) \/ Over(n2, e)
    <2>1. m \in 1 .. n
      BY <1>3 DEF Carded, Descending
    <2>2. e \in 1 .. n /\ t < lg[e]
      BY <1>1, <1>2, <1>3, <2>1
    <2>3. Carded(pg, e) \/ Over(n, e)
      BY <1>3, <2>1, <2>2 DEF Closed
    <2> QED BY <1>1, <2>2, <2>3 DEF Over
  <1> QED BY <1>3 DEF Closed

\* What is before a message stays before it when another is sent.
LEMMA AheadStays ==
  ASSUME NEW pg, NEW w \in Seq(Message), NEW m \in Message,
         NEW i \in 1 .. Len(w) + 1, NEW x
  PROVE  Ahead(pg, Append(w, m), i, x) <=> Ahead(pg, w, i, x)
  <1>1. Len(w) \in Nat
    OBVIOUS
  <1>2. \A j \in 1 .. i - 1 : j \in 1 .. Len(w)
    BY <1>1
  <1>3. \A j \in 1 .. i - 1 : Append(w, m)[j] = w[j]
    BY <1>2
  <1> QED BY <1>3 DEF Ahead

\* A message that is no event is nothing to what is before the next one.
LEMMA AheadSkips ==
  ASSUME NEW pg, NEW w \in Seq(Message), NEW m \in Message, m.kind # "event", NEW x
  PROVE  Ahead(pg, Append(w, m), Len(w) + 2, x) <=> Ahead(pg, w, Len(w) + 1, x)
  <1>1. Len(w) \in Nat
    OBVIOUS
  <1>2. \A j \in 1 .. Len(w) : Append(w, m)[j] = w[j]
    OBVIOUS
  <1>3. Append(w, m)[Len(w) + 1] = m
    OBVIOUS
  <1>4. \A j \in 1 .. (Len(w) + 2) - 1 : j \in 1 .. Len(w) \/ j = Len(w) + 1
    BY <1>1
  <1>5. \A j \in 1 .. (Len(w) + 1) - 1 : j \in 1 .. Len(w) /\ j \in 1 .. (Len(w) + 2) - 1
    BY <1>1
  <1>6. 1 .. (Len(w) + 1) - 1 = 1 .. Len(w)
    BY <1>1
  <1> QED BY <1>2, <1>3, <1>4, <1>5, <1>6 DEF Ahead

\* The message after an event has that event before it, and what the event had.
LEMMA AheadGains ==
  ASSUME NEW pg, NEW w \in Seq(Message), NEW e \in Nat, NEW x
  PROVE  Ahead(pg, Append(w, Event(e)), Len(w) + 2, x) <=>
           x = e \/ Ahead(pg, w, Len(w) + 1, x)
  <1>1. Len(w) \in Nat
    OBVIOUS
  <1>2. \A j \in 1 .. Len(w) : Append(w, Event(e))[j] = w[j]
    OBVIOUS
  <1>3. Append(w, Event(e))[Len(w) + 1] = Event(e)
    OBVIOUS
  <1>4. \A j \in 1 .. (Len(w) + 2) - 1 : j \in 1 .. Len(w) \/ j = Len(w) + 1
    BY <1>1
  <1>5. \A j \in 1 .. (Len(w) + 1) - 1 : j \in 1 .. Len(w) /\ j \in 1 .. (Len(w) + 2) - 1
    BY <1>1
  <1>6. Len(w) + 1 \in 1 .. (Len(w) + 2) - 1 /\ 1 .. (Len(w) + 1) - 1 = 1 .. Len(w)
    BY <1>1
  <1>7. Event(e).kind = "event" /\ Event(e).what = e
    BY DEF Event
  <1> QED BY <1>2, <1>3, <1>4, <1>5, <1>6, <1>7 DEF Ahead

\* A number for the badge is nothing to the cards.
LEMMA BadgeFits ==
  ASSUME NEW pg, NEW w, NEW lg, NEW n, NEW f, NEW s, Shows(pg, w, lg, n, f, s), NEW b \in Nat
  PROVE  Shows(pg, Append(w, Badge(b)), lg, n, f, s)
  <1> DEFINE v == Append(w, Badge(b))
  <1>1. w \in Seq(Message) /\ Len(w) \in Nat /\ Badge(b) \in Message /\ Badge(b).kind # "event"
    BY DEF Shows, Badge, Message
  <1>2. v \in Seq(Message) /\ Len(v) = Len(w) + 1 /\ v[Len(w) + 1] = Badge(b)
        /\ \A i \in 1 .. Len(w) : v[i] = w[i]
    BY <1>1
  <1>3. \A i \in 1 .. Len(w) + 1 : \A x : Ahead(pg, v, i, x) <=> Ahead(pg, w, i, x)
    BY <1>1, AheadStays
  <1>4. \A x : Ahead(pg, v, Len(w) + 2, x) <=> Ahead(pg, w, Len(w) + 1, x)
    BY <1>1, AheadSkips
  <1> HIDE DEF v
  <1>5. ASSUME NEW i \in 1 .. Len(v), v[i].kind = "event"
        PROVE  Fits(pg, v, lg, n, f, i, v[i].what)
    <2>1. i \in 1 .. Len(w)
      BY <1>1, <1>2, <1>5
    <2>2. Fits(pg, w, lg, n, f, i, w[i].what)
      BY <1>2, <1>5, <2>1 DEF Shows
    <2>3. i \in 1 .. Len(w) + 1
      BY <1>1, <2>1
    <2> QED BY <1>2, <1>3, <2>1, <2>2, <2>3 DEF Fits
  <1>6. Len(v) + 1 = Len(w) + 2
    BY <1>1, <1>2
  <1> QED BY <1>2, <1>4, <1>5, <1>6 DEF Shows, v

\* An event that the stream sends, after all it had to send before, will be drawn above
\* all others or has a card, if no query could have left it out.
LEMMA EventFits ==
  ASSUME NEW pg, NEW w, NEW lg, NEW n \in Nat, NEW f, NEW s, Shows(pg, w, lg, n, f, s),
         Closed(pg, lg, n, f), NEW h \in 1 .. n, f < lg[h], ~Over(n, h),
         \A e \in 1 .. h - 1 : f < lg[e] => e \in s \/ Over(n, e)
  PROVE  Shows(pg, Append(w, Event(h)), lg, n, f, s \cup {h})
  <1> DEFINE v == Append(w, Event(h))
             l == Len(w) + 1
  <1>1. /\ w \in Seq(Message) /\ Len(w) \in Nat /\ Event(h) \in Message /\ h \in Nat
        /\ Event(h).kind = "event" /\ Event(h).what = h /\ Limit \in Nat
    BY FeedAssumption DEF Shows, Event, Message
  <1>2. v \in Seq(Message) /\ Len(v) = l /\ v[l] = Event(h) /\ \A i \in 1 .. Len(w) : v[i] = w[i]
    BY <1>1
  <1>3. \A i \in 1 .. l : \A x : Ahead(pg, v, i, x) <=> Ahead(pg, w, i, x)
    BY <1>1, AheadStays
  <1>4. \A x : Ahead(pg, v, l + 1, x) <=> x = h \/ Ahead(pg, w, l, x)
    <2>1. Len(w) + 2 = l + 1
      BY <1>1
    <2> HIDE DEF l
    <2> QED BY <1>1, <2>1, AheadGains DEF l
  <1> HIDE DEF v
  <1>5. \A x \in Nat : Ahead(pg, w, l, x) => x \in 1 .. n
    <2>1. \A x : Carded(pg, x) => x \in 1 .. n
      BY DEF Carded, Shows, Descending
    <2>2. \A j \in 1 .. Len(w) : w[j].kind = "event" => w[j].what \in 1 .. n
      BY DEF Shows, Fits
    <2>3. 1 .. l - 1 = 1 .. Len(w)
      BY <1>1
    <2> QED BY <2>1, <2>2, <2>3 DEF Ahead
  <1>6. \A x \in 1 .. h - 1 : f < lg[x] => Ahead(pg, w, l, x) \/ Over(n, x)
    BY DEF Shows
  <1>7. \A x \in Nat : Ahead(pg, w, l, x) => x < h + Limit
    <2>1. n - h < Limit
      BY <1>1 DEF Over
    <2> QED BY <1>1, <1>5, <2>1
  <1>8. ASSUME NEW x \in Nat, Ahead(pg, w, l, x), x > h  PROVE Ahead(pg, w, l, h)
    <2>1. x \in 1 .. n /\ h \in 1 .. x - 1
      BY <1>1, <1>5, <1>8
    <2>2. CASE Carded(pg, x)
      <3>1. Carded(pg, h)
        BY <2>1, <2>2 DEF Closed
      <3> QED BY <3>1 DEF Ahead
    <2>3. ASSUME NEW j \in 1 .. l - 1, w[j].kind = "event", w[j].what = x
          PROVE  Ahead(pg, w, l, h)
      <3>1. j \in 1 .. Len(w)
        BY <1>1
      <3>2. Ahead(pg, w, j, h)
        BY <2>1, <2>3, <3>1 DEF Shows, Fits
      <3>3. \A k \in 1 .. j - 1 : k \in 1 .. l - 1
        BY <1>1, <3>1
      <3> QED BY <3>2, <3>3 DEF Ahead
    <2> QED BY <1>8, <2>2, <2>3 DEF Ahead
  <1>9. Ahead(pg, w, l, h) \/ \A x \in Nat : Ahead(pg, w, l, x) => x < h
    <2>1. ASSUME ~Ahead(pg, w, l, h), NEW x \in Nat, Ahead(pg, w, l, x)  PROVE x < h
      <3>1. x # h /\ ~(x > h)
        BY <1>8, <2>1
      <3> QED BY <1>1, <3>1
    <2> QED BY <2>1
  <1>10. Fits(pg, w, lg, n, f, l, h)
    <2> HIDE DEF l
    <2> QED BY <1>6, <1>7, <1>9 DEF Fits
  <1>11. \A i \in 1 .. l : \A e : Fits(pg, w, lg, n, f, i, e) => Fits(pg, v, lg, n, f, i, e)
    <2> HIDE DEF l
    <2> QED BY <1>3 DEF Fits
  <1>12. ASSUME NEW i \in 1 .. Len(v), v[i].kind = "event"
         PROVE  Fits(pg, v, lg, n, f, i, v[i].what)
    <2>1. i \in 1 .. Len(w) \/ i = l
      BY <1>1, <1>2, <1>12
    <2>2. CASE i = l
      <3>1. l \in 1 .. l /\ v[l].what = h
        BY <1>1, <1>2
      <3> HIDE DEF l
      <3> QED BY <1>10, <1>11, <2>2, <3>1
    <2>3. CASE i \in 1 .. Len(w)
      <3>1. Fits(pg, w, lg, n, f, i, w[i].what)
        BY <1>2, <1>12, <2>3 DEF Shows
      <3>2. i \in 1 .. l
        BY <1>1, <2>3
      <3> QED BY <1>2, <1>11, <2>3, <3>1, <3>2
    <2> QED BY <2>1, <2>2, <2>3
  <1>13. \A e \in s \cup {h} : e \in 1 .. n /\ (Ahead(pg, v, Len(v) + 1, e) \/ Over(n, e))
    <2>1. \A e \in s : e \in 1 .. n /\ (Ahead(pg, w, l, e) \/ Over(n, e))
      BY DEF Shows
    <2> HIDE DEF l
    <2> QED BY <1>2, <1>4, <2>1
  <1>14. Descending(pg, n)
    BY DEF Shows
  <1> QED BY <1>2, <1>12, <1>13, <1>14 DEF Shows, v

\* When the first message is received, what is before the others is what was, but for
\* cards pushed off.
LEMMA AheadTaken ==
  ASSUME NEW n \in Nat, NEW pg, Descending(pg, n), NEW pg2, Descending(pg2, n),
         NEW w \in Seq(Message), w # <<>>, NEW e \in Nat,
         \A x \in Nat : Carded(pg2, x) => Carded(pg, x) \/ (Head(w) = Event(e) /\ x = e),
         \A x \in Nat : Carded(pg, x) \/ (Head(w).kind = "event" /\ Head(w).what = x) =>
                          Carded(pg2, x) \/ x + Cap <= e,
         NEW i \in 1 .. Len(w), NEW x \in Nat
  PROVE  /\ Ahead(pg2, Tail(w), i, x) => Ahead(pg, w, i + 1, x)
         /\ Ahead(pg, w, i + 1, x) => Ahead(pg2, Tail(w), i, x) \/ x + Cap <= e
  <1>1. /\ Len(w) \in Nat \ {0} /\ Tail(w) \in Seq(Message) /\ Len(Tail(w)) = Len(w) - 1
        /\ Head(w) = w[1]
        /\ \A j \in 1 .. Len(w) - 1 : Tail(w)[j] = w[j + 1]
    OBVIOUS
  <1>2. \A j \in 1 .. i - 1 : j \in 1 .. Len(w) - 1 /\ j + 1 \in 1 .. (i + 1) - 1
    BY <1>1
  <1>3. 1 \in 1 .. (i + 1) - 1
    BY <1>1
  <1>4. ASSUME Ahead(pg2, Tail(w), i, x)  PROVE Ahead(pg, w, i + 1, x)
    <2>1. CASE Carded(pg2, x)
      <3>1. Event(e).kind = "event" /\ Event(e).what = e
        BY DEF Event
      <3> QED BY <1>1, <1>3, <2>1, <3>1 DEF Ahead
    <2>2. ASSUME NEW j \in 1 .. i - 1, Tail(w)[j].kind = "event", Tail(w)[j].what = x
          PROVE  Ahead(pg, w, i + 1, x)
      <3>1. w[j + 1].kind = "event" /\ w[j + 1].what = x /\ j + 1 \in 1 .. (i + 1) - 1
        BY <1>1, <1>2, <2>2
      <3> QED BY <3>1 DEF Ahead
    <2> QED BY <1>4, <2>1, <2>2 DEF Ahead
  <1>5. ASSUME Ahead(pg, w, i + 1, x), ~(x + Cap <= e)  PROVE Ahead(pg2, Tail(w), i, x)
    <2>1. CASE Carded(pg, x)
      BY <1>5, <2>1 DEF Ahead
    <2>2. ASSUME NEW j \in 1 .. (i + 1) - 1, w[j].kind = "event", w[j].what = x
          PROVE  Ahead(pg2, Tail(w), i, x)
      <3>1. CASE j = 1
        BY <1>1, <1>5, <2>2, <3>1 DEF Ahead
      <3>2. CASE j # 1
        <4>1. j - 1 \in 1 .. i - 1 /\ (j - 1) + 1 = j /\ j - 1 \in 1 .. Len(w) - 1
          BY <1>1, <3>2
        <4>2. Tail(w)[j - 1] = w[j]
          BY <1>1, <4>1
        <4> QED BY <2>2, <4>1, <4>2 DEF Ahead
      <3> QED BY <3>1, <3>2
    <2> QED BY <1>5, <2>1, <2>2 DEF Ahead
  <1> QED BY <1>4, <1>5

\* What fitted still does: no card that a message counts on is pushed off.
LEMMA FitsTaken ==
  ASSUME NEW n \in Nat, NEW pg, NEW pg2, NEW w, NEW v, NEW lg, NEW f, NEW i \in Nat,
         NEW top \in 1 .. n, Ahead(pg, w, i + 1, top),
         \A x \in Nat : /\ Ahead(pg2, v, i, x) => Ahead(pg, w, i + 1, x)
                        /\ Ahead(pg, w, i + 1, x) => Ahead(pg2, v, i, x) \/ x + Cap <= top,
         NEW e, Fits(pg, w, lg, n, f, i + 1, e)
  PROVE  Fits(pg2, v, lg, n, f, i, e)
  <1>1. /\ Cap \in Nat /\ Limit \in Nat /\ Limit <= Cap
        /\ e \in 1 .. n /\ e \in Nat /\ top \in Nat
    BY FeedAssumption DEF Fits
  <1>2. /\ Ahead(pg, w, i + 1, e) \/ \A x \in Nat : Ahead(pg, w, i + 1, x) => x < e
        /\ \A x \in Nat : Ahead(pg, w, i + 1, x) => x < e + Limit
        /\ \A x \in 1 .. e - 1 : f < lg[x] => Ahead(pg, w, i + 1, x) \/ Over(n, x)
    BY DEF Fits
  <1>3. top < e + Limit
    BY <1>1, <1>2
  <1>4. Ahead(pg, w, i + 1, e) => Ahead(pg2, v, i, e)
    BY <1>1, <1>3
  <1>5. Ahead(pg2, v, i, e) \/ \A x \in Nat : Ahead(pg2, v, i, x) => x < e
    BY <1>2, <1>4
  <1>6. \A x \in Nat : x + Cap <= top => Over(n, x)
    BY <1>1 DEF Over
  <1>7. \A x \in 1 .. e - 1 : f < lg[x] => Ahead(pg2, v, i, x) \/ Over(n, x)
    <2>1. \A x \in 1 .. e - 1 : x \in Nat
      BY <1>1
    <2> QED BY <1>2, <1>6, <2>1
  <1>8. \A x \in Nat : Ahead(pg2, v, i, x) => x < e + Limit
    BY <1>2
  <1> QED BY <1>1, <1>5, <1>7, <1>8 DEF Fits

\* A message received, and what it does to the cards.
LEMMA Taken ==
  ASSUME NEW n \in Nat, NEW pg, NEW pg2, Descending(pg2, n), NEW w, w # <<>>,
         NEW lg, NEW f, NEW s, Shows(pg, w, lg, n, f, s),
         NEW top \in 1 .. n, Ahead(pg, w, 2, top),
         \A i \in 1 .. Len(w) : \A x \in Nat :
           /\ Ahead(pg2, Tail(w), i, x) => Ahead(pg, w, i + 1, x)
           /\ Ahead(pg, w, i + 1, x) => Ahead(pg2, Tail(w), i, x) \/ x + Cap <= top
  PROVE  Shows(pg2, Tail(w), lg, n, f, s)
  <1>1. /\ Len(w) \in Nat \ {0} /\ Tail(w) \in Seq(Message) /\ Len(Tail(w)) = Len(w) - 1
        /\ w \in Seq(Message) /\ \A j \in 1 .. Len(w) - 1 : Tail(w)[j] = w[j + 1]
    BY DEF Shows
  <1>2. \A i \in 1 .. Len(w) : Ahead(pg, w, i + 1, top)
    <2>1. \A i \in 1 .. Len(w) : \A j \in 1 .. 2 - 1 : j \in 1 .. (i + 1) - 1
      BY <1>1
    <2> QED BY <2>1 DEF Ahead
  <1>3. ASSUME NEW i \in 1 .. Len(Tail(w)), Tail(w)[i].kind = "event"
        PROVE  Fits(pg2, Tail(w), lg, n, f, i, Tail(w)[i].what)
    <2> DEFINE v == Tail(w)
    <2>1. /\ i \in 1 .. Len(w) /\ i \in Nat /\ i + 1 \in 1 .. Len(w) /\ v[i] = w[i + 1]
      BY <1>1
    <2>2. Fits(pg, w, lg, n, f, i + 1, w[i + 1].what)
      BY <1>3, <2>1 DEF Shows
    <2>3. \A x \in Nat : /\ Ahead(pg2, v, i, x) => Ahead(pg, w, i + 1, x)
                         /\ Ahead(pg, w, i + 1, x) => Ahead(pg2, v, i, x) \/ x + Cap <= top
      BY <2>1
    <2>4. Ahead(pg, w, i + 1, top)
      BY <1>2, <2>1
    <2> HIDE DEF v
    <2>5. Fits(pg2, v, lg, n, f, i, w[i + 1].what)
      BY <2>1, <2>2, <2>3, <2>4, FitsTaken
    <2> QED BY <2>1, <2>5 DEF v
  <1>4. ASSUME NEW e \in s  PROVE e \in 1 .. n /\ (Ahead(pg2, Tail(w), Len(Tail(w)) + 1, e) \/ Over(n, e))
    <2>1. e \in 1 .. n /\ (Ahead(pg, w, Len(w) + 1, e) \/ Over(n, e))
      BY DEF Shows
    <2>2. Len(w) \in 1 .. Len(w) /\ e \in Nat /\ Len(Tail(w)) + 1 = Len(w)
      BY <1>1, <2>1
    <2>3. e + Cap <= top => Over(n, e)
      BY FeedAssumption, <2>2, SMTT(30) DEF Over
    <2> QED BY <2>1, <2>2, <2>3
  <1> QED BY <1>1, <1>3, <1>4 DEF Shows

\* An event received is drawn above all others, or changes nothing.
LEMMA EventTaken ==
  ASSUME NEW n \in Nat, NEW pg, NEW w, w # <<>>, NEW lg, NEW f, NEW s,
         Shows(pg, w, lg, n, f, s), Head(w).kind = "event"
  PROVE  Shows(Render(pg, Head(w).what), Tail(w), lg, n, f, s)
  <1> DEFINE e   == Head(w).what
             pg2 == Render(pg, e)
  <1>1. /\ w \in Seq(Message) /\ Len(w) \in Nat \ {0} /\ Head(w) = w[1] /\ Descending(pg, n)
        /\ Head(w) \in Message
    BY DEF Shows
  <1>2. Head(w) = Event(e)
    BY <1>1 DEF Message, Event
  <1>3. Fits(pg, w, lg, n, f, 1, e)
    BY <1>1 DEF Shows
  <1>4. \A x : Ahead(pg, w, 1, x) <=> Carded(pg, x)
    BY DEF Ahead
  <1>5. e \in 1 .. n /\ (Carded(pg, e) \/ \A x \in Nat : Carded(pg, x) => x < e)
    BY <1>3, <1>4 DEF Fits
  <1> HIDE DEF e
  <1>6. /\ Descending(pg2, n)
        /\ \A x \in Nat : Carded(pg2, x) => x = e \/ Carded(pg, x)
        /\ Carded(pg2, e)
        /\ \A x \in Nat : Carded(pg, x) => Carded(pg2, x) \/ x + Cap <= e
    BY <1>1, <1>5, RenderKeeps
  <1> HIDE DEF pg2
  <1>7. Head(w).kind = "event" /\ Head(w).what = e /\ e \in Nat
    BY <1>5 DEF e
  <1>8. \A i \in 1 .. Len(w) : \A x \in Nat :
           /\ Ahead(pg2, Tail(w), i, x) => Ahead(pg, w, i + 1, x)
           /\ Ahead(pg, w, i + 1, x) => Ahead(pg2, Tail(w), i, x) \/ x + Cap <= e
    <2>1. \A x \in Nat : Carded(pg2, x) => Carded(pg, x) \/ (Head(w) = Event(e) /\ x = e)
      BY <1>2, <1>6
    <2>2. \A x \in Nat : Carded(pg, x) \/ (Head(w).kind = "event" /\ Head(w).what = x) =>
                           Carded(pg2, x) \/ x + Cap <= e
      BY <1>6, <1>7
    <2> QED BY <1>1, <1>6, <1>7, <2>1, <2>2, AheadTaken
  <1>9. Ahead(pg, w, 2, e)
    <2>1. 1 \in 1 .. 2 - 1
      OBVIOUS
    <2> QED BY <1>1, <1>7, <2>1 DEF Ahead
  <1> QED BY <1>5, <1>6, <1>8, <1>9, Taken DEF pg2, e

\* A number for the badge received leaves the cards as they are.
LEMMA BadgeTaken ==
  ASSUME NEW n \in Nat, NEW pg, NEW w, w # <<>>, NEW lg, NEW f, NEW s,
         Shows(pg, w, lg, n, f, s), Head(w).kind # "event"
  PROVE  Shows(pg, Tail(w), lg, n, f, s)
  <1>1. /\ Len(w) \in Nat \ {0} /\ Tail(w) \in Seq(Message) /\ Len(Tail(w)) = Len(w) - 1
        /\ w \in Seq(Message) /\ \A j \in 1 .. Len(w) - 1 : Tail(w)[j] = w[j + 1]
        /\ Head(w) = w[1] /\ Descending(pg, n)
    BY DEF Shows
  <1>2. \A i \in 1 .. Len(w) : \A x \in Nat :
          Ahead(pg, Tail(w), i, x) <=> Ahead(pg, w, i + 1, x)
    <2>1. \A x \in Nat : Carded(pg, x) \/ (Head(w).kind = "event" /\ Head(w).what = x) =>
            Carded(pg, x) \/ x + Cap <= 0
      OBVIOUS
    <2>2. \A x \in Nat : Carded(pg, x) => Carded(pg, x) \/ (Head(w) = Event(0) /\ x = 0)
      OBVIOUS
    <2>3. \A x \in Nat : ~(x + Cap <= 0)
      BY FeedAssumption
    <2> QED BY <1>1, <2>1, <2>2, <2>3, AheadTaken
  <1>3. ASSUME NEW i \in 1 .. Len(Tail(w)), Tail(w)[i].kind = "event"
        PROVE  Fits(pg, Tail(w), lg, n, f, i, Tail(w)[i].what)
    <2>1. /\ i \in 1 .. Len(w) /\ i \in Nat /\ i + 1 \in 1 .. Len(w) /\ Tail(w)[i] = w[i + 1]
      BY <1>1
    <2>2. Fits(pg, w, lg, n, f, i + 1, w[i + 1].what)
      BY <1>3, <2>1 DEF Shows
    <2>3. \A x \in Nat : Ahead(pg, Tail(w), i, x) <=> Ahead(pg, w, i + 1, x)
      BY <1>2, <2>1
    <2>4. w[i + 1].what \in 1 .. n
      BY <2>2 DEF Fits
    <2> QED BY <2>1, <2>2, <2>3, <2>4 DEF Fits
  <1>4. ASSUME NEW e \in s  PROVE e \in 1 .. n /\ (Ahead(pg, Tail(w), Len(Tail(w)) + 1, e) \/ Over(n, e))
    <2>1. e \in 1 .. n /\ (Ahead(pg, w, Len(w) + 1, e) \/ Over(n, e))
      BY DEF Shows
    <2>2. Len(w) \in 1 .. Len(w) /\ e \in Nat /\ Len(Tail(w)) + 1 = Len(w)
      BY <1>1, <2>1
    <2> QED BY <1>2, <2>1, <2>2
  <1> QED BY <1>1, <1>3, <1>4 DEF Shows

\* A page from which nothing is missing stays so when an event is drawn below which
\* nothing is.
LEMMA ClosedTaken ==
  ASSUME NEW n \in Nat, NEW pg, NEW lg, NEW f \in Int, NEW u \in Int, NEW t \in Int,
         \A x \in 1 .. n : lg[x] \in Nat,
         Closed(pg, lg, n, u), u <= t, f <= t, Descending(pg, n),
         NEW e \in 1 .. n, Carded(pg, e) \/ \A x \in Nat : Carded(pg, x) => x < e,
         \A x \in 1 .. e - 1 : f < lg[x] => Carded(pg, x) \/ Over(n, x)
  PROVE  Closed(Render(pg, e), lg, n, t)
  <1> DEFINE pg2 == Render(pg, e)
  <1>1. /\ \A x \in Nat : Carded(pg2, x) => x = e \/ Carded(pg, x)
        /\ \A x \in Nat : Carded(pg, x) => Carded(pg2, x) \/ x + Cap <= e
    BY RenderKeeps
  <1> HIDE DEF pg2
  <1>2. ASSUME NEW m \in 1 .. n, Carded(pg2, m), NEW x \in 1 .. m - 1, t < lg[x]
        PROVE  Carded(pg2, x) \/ Over(n, x)
    <2>1. x \in 1 .. n /\ x \in Nat /\ m \in Nat /\ lg[x] \in Nat
      OBVIOUS
    <2>2. u < lg[x] /\ f < lg[x]
      BY <1>2, <2>1
    <2>3. Carded(pg, x) \/ Over(n, x)
      <3>1. CASE m = e
        BY <1>2, <2>2, <3>1
      <3>2. CASE Carded(pg, m)
        BY <1>2, <2>2, <3>2 DEF Closed
      <3> QED BY <1>1, <1>2, <2>1, <3>1, <3>2
    <2>4. x + Cap <= e => Over(n, x)
      BY FeedAssumption, <2>1 DEF Over
    <2> QED BY <1>1, <2>1, <2>3, <2>4
  <1> QED BY <1>2 DEF Closed, pg2

\* The page, what is on its way to it and what it will resume after.
Whole(pg, w, lg, n, f, s, c, u, l, now) ==
  /\ Shows(pg, w, lg, n, f, s)
  /\ Closed(pg, lg, n, l) /\ l <= now
  /\ c = "connecting" /\ u # NoTime => Closed(pg, lg, n, u) /\ u <= now
  /\ c = "open" => Closed(pg, lg, n, f) /\ f <= now /\ (u # NoTime => f = u)

\* That, unless the page was sent an event that a query need not have answered.
PageInv ==
  /\ count \in Nat
  /\ ~late => Whole(page, wire, log, landed, from, sent, es, url, lastSeen, Millis(clock))

\* While time passes and events land.
LEMMA WorldShows ==
  ASSUME Inv, PageInv, Tick \/ Observe \/ Land \/ DockChanges
  PROVE  PageInv'
  <1>1. Index(clock', log', landed') /\ Grows(log, landed, log', landed')
        /\ Index(clock, log, landed)
    BY IndexGrows DEF Inv, Index
  <1>2. UNCHANGED <<page, es, url, lastSeen, wire, from, sent, late>>
    BY DEF Tick, Observe, Land, DockChanges, client, stream, hist
  <1>3. count' \in Nat
    <2>1. count' = count \/ \E m \in 0 .. MaxCount : count' = m
      BY DEF Tick, Observe, Land, DockChanges
    <2>2. MaxCount \in Nat /\ count \in Nat
      BY FeedAssumption DEF PageInv
    <2> QED BY <2>1, <2>2
  <1>4. /\ clock \in Nat /\ clock' \in Nat /\ clock <= clock'
    <2>1. clock \in Nat /\ (clock' = clock \/ clock' = clock + 1)
      BY <1>1 DEF Index, Tick, Observe, Land, DockChanges
    <2> QED BY <2>1
  <1>5. Millis(clock) \in Nat /\ Millis(clock') \in Nat /\ Millis(clock) <= Millis(clock')
    BY <1>4, MillisKeep
  <1>6. /\ lastSeen \in Int /\ url \in Int
        /\ es = "open" => from \in Int
    BY DEF Inv, StreamInv, Streaming, Since, Sharp, NoTime
  <1>7. ASSUME ~late
        PROVE  Whole(page, wire, log', landed', from, sent, es, url, lastSeen, Millis(clock'))
    <2>1. /\ Whole(page, wire, log, landed, from, sent, es, url, lastSeen, Millis(clock))
          /\ Shows(page, wire, log, landed, from, sent) /\ Descending(page, landed)
      BY <1>7 DEF PageInv, Whole, Shows
    <2>2. \A t \in Int : Closed(page, log, landed, t) => Closed(page, log', landed', t)
      BY <1>1, <2>1, ClosedGrows
    <2>3. Shows(page, wire, log', landed', from, sent)
      BY <1>1, <2>1, ShowsGrows
    <2> QED BY <1>5, <1>6, <2>1, <2>2, <2>3 DEF Whole
  <1> QED BY <1>2, <1>3, <1>7 DEF PageInv

\* What neither the page nor its messages notice.
LEMMA QuietShows ==
  ASSUME PageInv,
         UNCHANGED <<clock, log, landed, count, page, es, url, lastSeen, wire, from, sent, late>>
  PROVE  PageInv'
  BY DEF PageInv

\* Of a stream that has sent nothing, only the cards matter.
LEMMA NothingSentShows ==
  ASSUME NEW pg, NEW n, Descending(pg, n), NEW lg, NEW f
  PROVE  Shows(pg, <<>>, lg, n, f, {})
  BY DEF Shows

\* A page as it is loaded: the answer of a query.
LEMMA LoadShows ==
  ASSUME Inv, PageInv, Load
  PROVE  PageInv'
  <1> DEFINE r == FeedOf(NoTime)
  <1>1. /\ UNCHANGED <<clock, log, landed, count>> /\ wire' = <<>> /\ sent' = {}
        /\ page' = r /\ es' = "closed" /\ lastSeen' = NoTime
    BY DEF Load, StreamGone, index
  <1>2. /\ Index(clock, log, landed) /\ landed \in Nat /\ clock \in Nat
        /\ \A e \in 1 .. landed : log[e] \in Nat
    BY DEF Inv, Index
  <1>3. /\ r \in Seq(Nat) /\ Len(r) \in 0 .. Limit /\ DOMAIN r = 1 .. Len(r)
        /\ \A k \in 1 .. Len(r) : r[k] \in 1 .. landed
        /\ \A j, k \in 1 .. Len(r) : j < k => r[j] > r[k]
        /\ \A e \in 1 .. landed : log[e] > NoTime =>
             (\E k \in 1 .. Len(r) : r[k] = e) \/ Over(landed, e)
    BY <1>2, FeedIs
  <1> HIDE DEF r
  <1>4. Descending(r, landed)
    BY <1>3, FeedAssumption DEF Descending
  <1>5. Closed(r, log, landed, NoTime)
    <2>1. \A e \in 1 .. landed : Carded(r, e) \/ Over(landed, e)
      BY <1>2, <1>3, SMTT(30) DEF Carded, NoTime
    <2>2. \A m \in 1 .. landed : \A e \in 1 .. m - 1 : e \in 1 .. landed
      BY <1>2
    <2> QED BY <2>1, <2>2 DEF Closed
  <1>6. NoTime <= Millis(clock)
    BY <1>2, MillisKeep DEF NoTime
  <1>7. Shows(r, <<>>, log, landed, from', {})
    BY <1>4, NothingSentShows
  <1>8. Whole(page', wire', log', landed', from', sent', es', url', lastSeen', Millis(clock'))
    BY <1>1, <1>5, <1>6, <1>7 DEF Whole
  <1> QED BY <1>1, <1>8 DEF PageInv

\* A stream ends; the next will resume after what the page shows.
LEMMA ConnectionShows ==
  ASSUME Inv, PageInv, Disconnect \/ Break \/ Connect
  PROVE  PageInv'
  <1>1. /\ UNCHANGED <<clock, log, landed, count, page, lastSeen, late>>
        /\ \/ /\ wire' = <<>> /\ sent' = {} /\ UNCHANGED url
              /\ es' = "closed" \/ (es = "open" /\ es' = "connecting")
           \/ /\ UNCHANGED <<wire, sent, from>> /\ es' = "connecting" /\ url' = lastSeen
    BY DEF Disconnect, Break, Connect, StreamGone, index, stream, hist
  <1>2. ASSUME ~late
        PROVE  Whole(page', wire', log', landed', from', sent', es', url', lastSeen', Millis(clock'))
    <2>1. /\ Whole(page, wire, log, landed, from, sent, es, url, lastSeen, Millis(clock))
          /\ Descending(page, landed)
      BY <1>2 DEF PageInv, Whole, Shows
    <2>2. Shows(page, <<>>, log, landed, from', {})
      BY <2>1, NothingSentShows
    <2> QED BY <1>1, <2>1, <2>2 DEF Whole
  <1> QED BY <1>1, <1>2 DEF PageInv

\* A stream begins where nothing is missing from the page.
LEMMA AcceptShows ==
  ASSUME Inv, PageInv, Accept
  PROVE  PageInv'
  <1>1. /\ UNCHANGED <<clock, log, landed, count, page, url, lastSeen, wire, sent, late>>
        /\ es = "connecting" /\ es' = "open" /\ from' = ResumeAfter
    BY DEF Accept, index, hist
  <1>2. wire = <<>> /\ sent = {}
    BY <1>1 DEF Inv, StreamInv
  <1>3. /\ Index(clock, log, landed) /\ clock \in Nat /\ lastSeen \in Int
        /\ Grows(log, landed, log, landed)
    BY DEF Inv, Index, StreamInv, Since, Sharp, NoTime, Grows
  <1>4. Millis(clock) \in Nat
    BY <1>3, MillisKeep
  <1>5. ASSUME ~late
        PROVE  Whole(page, <<>>, log, landed, ResumeAfter, {}, "open", url, lastSeen, Millis(clock))
    <2>1. /\ Whole(page, wire, log, landed, from, sent, es, url, lastSeen, Millis(clock))
          /\ Descending(page, landed)
      BY <1>5 DEF PageInv, Whole, Shows
    <2>2. Shows(page, <<>>, log, landed, ResumeAfter, {})
      BY <2>1, NothingSentShows
    <2>3. Closed(page, log, landed, ResumeAfter) /\ ResumeAfter <= Millis(clock)
      <3>1. CASE url = NoTime
        <4>1. Closed(page, log, landed, lastSeen) /\ lastSeen <= Millis(clock)
          BY <2>1 DEF Whole
        <4>2. Closed(page, log, landed, Millis(clock))
          BY <1>3, <1>4, <2>1, <4>1, ClosedGrows
        <4> QED BY <1>4, <3>1, <4>2 DEF ResumeAfter
      <3>2. CASE url # NoTime
        BY <1>1, <2>1, <3>2 DEF ResumeAfter, Whole
      <3> QED BY <3>1, <3>2
    <2> QED BY <2>1, <2>2, <2>3 DEF Whole, ResumeAfter
  <1> QED BY <1>1, <1>2, <1>5 DEF PageInv

\* The page receives what fits it.
LEMMA ReceiveShows ==
  ASSUME Inv, PageInv, Receive
  PROVE  PageInv'
  <1>1. /\ UNCHANGED <<clock, log, landed, count, es, url, from, sent, late>>
        /\ es = "open" /\ wire # <<>> /\ wire' = Tail(wire)
        /\ \/ /\ Head(wire).kind = "event" /\ lastSeen' = Millis(clock)
              /\ page' = Render(page, Head(wire).what)
           \/ /\ Head(wire).kind = "waiting" /\ UNCHANGED <<lastSeen, page>>
    BY DEF Receive, index, stream, hist
  <1>2. /\ Index(clock, log, landed) /\ clock \in Nat /\ lastSeen \in Int /\ from \in Int
        /\ landed \in Nat /\ \A x \in 1 .. landed : log[x] \in Nat
    BY <1>1 DEF Inv, Index, StreamInv, Streaming, Since, Sharp, NoTime
  <1>3. Millis(clock) \in Int
    BY <1>2, MillisKeep
  <1>4. ASSUME ~late
        PROVE  Whole(page', wire', log, landed, from, sent, es, url, lastSeen', Millis(clock))
    <2>1. /\ Whole(page, wire, log, landed, from, sent, es, url, lastSeen, Millis(clock))
          /\ Shows(page, wire, log, landed, from, sent) /\ Descending(page, landed)
      BY <1>4 DEF PageInv, Whole, Shows
    <2>2. CASE Head(wire).kind = "waiting" /\ UNCHANGED <<lastSeen, page>>
      <3>1. Shows(page, Tail(wire), log, landed, from, sent)
        BY <1>1, <1>2, <2>1, <2>2, BadgeTaken
      <3> QED BY <1>1, <2>1, <2>2, <3>1 DEF Whole
    <2>3. CASE Head(wire).kind = "event" /\ lastSeen' = Millis(clock)
               /\ page' = Render(page, Head(wire).what)
      <3> DEFINE e == Head(wire).what
      <3>1. Shows(Render(page, e), Tail(wire), log, landed, from, sent)
        BY <1>1, <1>2, <2>1, <2>3, EventTaken
      <3>2. Fits(page, wire, log, landed, from, 1, e)
        <4>1. wire \in Seq(Message)
          BY <2>1 DEF Shows
        <4>2. 1 \in 1 .. Len(wire) /\ Head(wire) = wire[1]
          BY <1>1, <4>1
        <4> QED BY <2>1, <2>3, <4>2 DEF Shows
      <3>3. \A x : Ahead(page, wire, 1, x) <=> Carded(page, x)
        BY DEF Ahead
      <3> HIDE DEF e
      <3>4. /\ e \in 1 .. landed
            /\ Carded(page, e) \/ \A x \in Nat : Carded(page, x) => x < e
            /\ \A x \in 1 .. e - 1 : from < log[x] => Carded(page, x) \/ Over(landed, x)
        BY <3>2, <3>3 DEF Fits
      <3>5. /\ Closed(page, log, landed, lastSeen) /\ lastSeen <= Millis(clock)
            /\ Closed(page, log, landed, from) /\ from <= Millis(clock)
        BY <1>1, <2>1 DEF Whole
      <3>6. Closed(Render(page, e), log, landed, from)
        <4>1. from <= from
          BY <1>2
        <4> QED BY <1>2, <2>1, <3>4, <3>5, <4>1, ClosedTaken
      <3>7. Closed(Render(page, e), log, landed, Millis(clock))
        BY <1>2, <1>3, <2>1, <3>4, <3>5, ClosedTaken
      <3>8. page' = Render(page, e) /\ Millis(clock) <= Millis(clock)
        BY <1>3, <2>3 DEF e
      <3> QED BY <1>1, <2>1, <2>3, <3>1, <3>5, <3>6, <3>7, <3>8 DEF Whole
    <2> QED BY <1>1, <2>2, <2>3
  <1> QED BY <1>1, <1>4 DEF PageInv

\* To add a message is to append it.
LEMMA OneMore ==
  ASSUME NEW w \in Seq(Message), NEW m \in Message
  PROVE  w \o <<m>> = Append(w, m) /\ w \o <<>> = w
  <1>1. <<m>> \in Seq(Message) /\ Len(<<m>>) = 1 /\ <<m>>[1] = m
    OBVIOUS
  <1>2. w \o <<m>> = Append(w, m)
    <2>1. /\ w \o <<m>> \in Seq(Message) /\ Append(w, m) \in Seq(Message)
          /\ Len(w \o <<m>>) = Len(w) + 1 /\ Len(Append(w, m)) = Len(w) + 1
          /\ Len(w) \in Nat
      BY <1>1
    <2>2. ASSUME NEW i \in 1 .. Len(w) + 1  PROVE (w \o <<m>>)[i] = Append(w, m)[i]
      <3>1. CASE i \in 1 .. Len(w)
        BY <1>1, <3>1
      <3>2. CASE i = Len(w) + 1
        BY <1>1, <3>2
      <3> QED BY <2>1, <3>1, <3>2
    <2> HIDE DEF Message
    <2> QED BY <2>1, <2>2, SeqEqual
  <1> QED BY <1>2, ConcatEmptySeq

\* A poll that ends reports what waits on the dock, which fits.
LEMMA ReportFits ==
  ASSUME NEW pg, NEW w, NEW lg, NEW n, NEW f, NEW s, Shows(pg, w, lg, n, f, s),
         NEW b \in Nat, NEW l
  PROVE  Shows(pg, w \o (IF b = l THEN <<>> ELSE <<Badge(b)>>), lg, n, f, s)
  <1>1. w \in Seq(Message) /\ Badge(b) \in Message
    BY DEF Shows, Badge, Message
  <1>2. CASE b = l
    BY <1>1, <1>2, OneMore
  <1>3. CASE b # l
    <2>1. w \o <<Badge(b)>> = Append(w, Badge(b))
      BY <1>1, OneMore
    <2>2. Shows(pg, Append(w, Badge(b)), lg, n, f, s)
      BY BadgeFits
    <2> QED BY <1>3, <2>1, <2>2
  <1> QED BY <1>2, <1>3

\* A poll that found nothing sends at most that.
LEMMA QuietEndShows ==
  ASSUME Inv, PageInv, NEW p \in Polls, PollQuiet(p)
  PROVE  PageInv'
  <1> DEFINE b == IF count = lastWaiting THEN <<>> ELSE <<Badge(count)>>
  <1>1. /\ UNCHANGED <<clock, log, landed, count, page, es, url, lastSeen, from, sent, late>>
        /\ wire' = (wire \o <<>>) \o b
    BY DEF PollQuiet, Report, index, client, hist
  <1>2. ASSUME ~late
        PROVE  Whole(page, wire', log, landed, from, sent, es, url, lastSeen, Millis(clock))
    <2>1. /\ Whole(page, wire, log, landed, from, sent, es, url, lastSeen, Millis(clock))
          /\ Shows(page, wire, log, landed, from, sent) /\ count \in Nat
          /\ wire \in Seq(Message)
      BY <1>2 DEF PageInv, Whole, Shows
    <2>2. wire \o <<>> = wire
      <3>1. Badge(0) \in Message
        BY DEF Badge, Message
      <3> QED BY <2>1, <3>1, OneMore
    <2>3. Shows(page, wire', log, landed, from, sent)
      BY <1>1, <2>1, <2>2, ReportFits
    <2> QED BY <2>1, <2>3 DEF Whole
  <1> QED BY <1>1, <1>2 DEF PageInv

\* A poll sends what fits, unless so many newer events can be read.
LEMMA SendFits ==
  ASSUME Inv, PageInv, NEW p \in Polls, poll[p].at = "sending",
         ~late, ~OverLimit(Head(poll[p].left))
  PROVE  LET h == Head(poll[p].left) IN
         Shows(page, Append(wire, Event(h)), log, landed, from, sent \cup {h})
  <1> DEFINE left == poll[p].left
             h    == Head(left)
  <1>1. es = "open"
    BY PollsWhileOpen DEF Inv
  <1>2. Sending(from, sent, log, landed, left) /\ landed \in Nat
    BY <1>1 DEF Inv, Index, StreamInv, Streaming, PollOK
  <1>3. Shows(page, wire, log, landed, from, sent) /\ Closed(page, log, landed, from)
    BY <1>1 DEF PageInv, Whole
  <1>4. /\ left \in Seq(Nat) /\ Len(left) \in Nat \ {0} /\ 1 \in 1 .. Len(left)
        /\ Head(left) = left[1] /\ left[1] \in 1 .. landed /\ from < log[left[1]]
        /\ \A e \in 1 .. left[1] - 1 : from < log[e] => e \in sent \/ Over(landed, e)
    BY <1>2 DEF Sending
  <1>5. ~Over(landed, h)
    BY DEF OverLimit, Over
  <1> HIDE DEF left
  <1>6. /\ h \in 1 .. landed /\ from < log[h]
        /\ \A e \in 1 .. h - 1 : from < log[e] => e \in sent \/ Over(landed, e)
    BY <1>4
  <1> HIDE DEF h
  <1>7. Shows(page, Append(wire, Event(h)), log, landed, from, sent \cup {h})
    BY <1>2, <1>3, <1>5, <1>6, EventFits
  <1> QED BY <1>7 DEF h, left

\* Before the last.
LEMMA SendShows ==
  ASSUME Inv, PageInv, NEW p \in Polls, PollSend(p)
  PROVE  PageInv'
  <1> DEFINE h == Head(poll[p].left)
  <1>1. /\ UNCHANGED <<clock, log, landed, count, page, es, url, lastSeen, from>>
        /\ wire' = Append(wire, Event(h)) /\ sent' = sent \cup {h}
        /\ poll[p].at = "sending" /\ late' = (late \/ OverLimit(h))
    BY DEF PollSend, Sent, index, client
  <1>2. ASSUME ~late'
        PROVE  Whole(page, wire', log, landed, from, sent', es, url, lastSeen, Millis(clock))
    <2>1. ~late /\ ~OverLimit(h)
      BY <1>1, <1>2
    <2>2. Whole(page, wire, log, landed, from, sent, es, url, lastSeen, Millis(clock))
      BY <2>1 DEF PageInv
    <2>3. Shows(page, wire', log, landed, from, sent')
      BY <1>1, <2>1, SendFits
    <2> QED BY <2>2, <2>3 DEF Whole
  <1> QED BY <1>1, <1>2 DEF PageInv

\* And the last, with what it reports.
LEMMA LastShows ==
  ASSUME Inv, PageInv, NEW p \in Polls, PollSendLast(p)
  PROVE  PageInv'
  <1> DEFINE h == Head(poll[p].left)
             b == IF count = lastWaiting THEN <<>> ELSE <<Badge(count)>>
  <1>1. /\ UNCHANGED <<clock, log, landed, count, page, es, url, lastSeen, from>>
        /\ wire' = (wire \o <<Event(h)>>) \o b /\ sent' = sent \cup {h}
        /\ poll[p].at = "sending" /\ late' = (late \/ OverLimit(h))
    BY DEF PollSendLast, Report, Sent, index, client
  <1>2. ASSUME ~late'
        PROVE  Whole(page, wire', log, landed, from, sent', es, url, lastSeen, Millis(clock))
    <2>1. ~late /\ ~OverLimit(h)
      BY <1>1, <1>2
    <2>2. /\ Whole(page, wire, log, landed, from, sent, es, url, lastSeen, Millis(clock))
          /\ wire \in Seq(Message) /\ count \in Nat
      BY <2>1 DEF PageInv, Whole, Shows
    <2>3. Shows(page, Append(wire, Event(h)), log, landed, from, sent')
      BY <1>1, <2>1, SendFits
    <2>4. h \in Nat
      <3>1. es = "open"
        BY <1>1, PollsWhileOpen DEF Inv
      <3>2. Sending(from, sent, log, landed, poll[p].left)
        BY <1>1, <3>1 DEF Inv, StreamInv, Streaming, PollOK
      <3> QED BY <3>2 DEF Sending
    <2>5. Event(h) \in Message
      <3> HIDE DEF h
      <3> QED BY <2>4 DEF Event, Message
    <2> HIDE DEF h
    <2>6. wire \o <<Event(h)>> = Append(wire, Event(h))
      BY <2>2, <2>5, OneMore
    <2>7. Shows(page, wire', log, landed, from, sent')
      BY <1>1, <2>2, <2>3, <2>6, ReportFits
    <2> QED BY <2>2, <2>7 DEF Whole
  <1> QED BY <1>1, <1>2 DEF PageInv

\* No event has two cards and no card stands above a newer one, unless a poll was so
\* slow that Limit newer events could be read when it sent (app.ts 371-384, views.ts
\* 1855-1866): for any limit, cap, precision of a Date and number of polls.
THEOREM NewestFirst == Spec => []NewestOnTop
  <1>1. Init => Inv /\ PageInv
    <2>1. ASSUME Init  PROVE PageInv
      <3>1. /\ page = <<>> /\ wire = <<>> /\ sent = {} /\ es = "closed" /\ count = 0
            /\ lastSeen = NoTime /\ clock = 0 /\ log = <<>> /\ landed = 0
        BY <2>1 DEF Init
      <3>2. Descending(<<>>, 0)
        BY FeedAssumption DEF Descending
      <3>3. Shows(<<>>, <<>>, log, 0, from, {}) /\ Closed(<<>>, log, 0, NoTime)
        BY <3>2, NothingSentShows DEF Closed
      <3>4. NoTime <= Millis(0)
        <4>1. 0 \in Nat /\ 0 <= 0
          OBVIOUS
        <4> QED BY <4>1, MillisKeep DEF NoTime
      <3> QED BY <3>1, <3>3, <3>4 DEF PageInv, Whole
    <2> QED BY <2>1, Begins
  <1>2. Inv /\ PageInv /\ [Next]_vars => Inv' /\ PageInv'
    <2> SUFFICES ASSUME Inv, PageInv, [Next]_vars  PROVE PageInv'
      BY Keeps
    <2>1. CASE Tick \/ Observe \/ Land \/ DockChanges
      BY <2>1, WorldShows
    <2>2. CASE Load
      BY <2>2, LoadShows
    <2>3. CASE Disconnect \/ Break \/ Connect
      BY <2>3, ConnectionShows
    <2>4. CASE Accept
      BY <2>4, AcceptShows
    <2>5. CASE Receive
      BY <2>5, ReceiveShows
    <2>6. ASSUME NEW p \in Polls, PollAsk(p) \/ PollRead(p) \/ PollFail(p)
          PROVE  PageInv'
      BY <2>6, QuietShows DEF PollAsk, PollRead, PollFail, index, client, hist
    <2>7. ASSUME NEW p \in Polls, PollQuiet(p) \/ PollSend(p) \/ PollSendLast(p)
          PROVE  PageInv'
      BY <2>7, QuietEndShows, SendShows, LastShows
    <2>8. CASE UNCHANGED vars
      BY <2>8, QuietShows DEF vars, index, client, stream, hist
    <2> QED BY <2>1, <2>2, <2>3, <2>4, <2>5, <2>6, <2>7, <2>8 DEF Next, Poll
  <1>3. PageInv => NewestOnTop
    BY DEF PageInv, Whole, Shows, Descending, NewestOnTop
  <1> QED BY <1>1, <1>2, <1>3, PTL DEF Spec
=============================================================================
