---------------------------- MODULE ActivityProofs ----------------------------
(***************************************************************************)
(* What holds of the activity generator for any organizations, tabs,       *)
(* timers, caps and bounds.                                                *)
(***************************************************************************)
EXTENDS Activity, FiniteSetTheorems, WellFoundedInduction, TLAPS

----------------------------------------------------------------------------
(* Lists.                                                                  *)

\* A list without an entry has the others, in a list of its own.
LEMMA WithoutLeaves ==
  ASSUME NEW S, NEW s \in Seq(S), NEW x
  PROVE  /\ Without(s, x) \in Seq(S)
         /\ Len(Without(s, x)) <= Len(s)
         /\ ToSet(Without(s, x)) = ToSet(s) \ {x}
  <1> DEFINE kept     == {i \in DOMAIN s : s[i] # x}
             upto(i)  == {h \in kept : h <= i}
             place(i) == Cardinality(upto(i))
             n        == Cardinality(kept)
             f        == [i \in kept |-> place(i)]
             at(k)    == CHOOSE i \in kept : place(i) = k
  <1>1. /\ DOMAIN s = 1 .. Len(s) /\ Len(s) \in Nat
        /\ kept \subseteq 1 .. Len(s)
        /\ \A i \in kept : s[i] \in S /\ s[i] # x
    <2>1. DOMAIN s = 1 .. Len(s) /\ Len(s) \in Nat /\ \A i \in 1 .. Len(s) : s[i] \in S
      OBVIOUS
    <2> QED BY <2>1
  <1>2. /\ IsFiniteSet(kept) /\ n \in Nat /\ n <= Len(s)
    <2>1. IsFiniteSet(1 .. Len(s)) /\ Cardinality(1 .. Len(s)) = Len(s)
      <3>1. 1 \in Int /\ Len(s) \in Int /\ Len(s) >= 0
        BY <1>1
      <3> HIDE DEF kept
      <3> QED BY <3>1, FS_Interval, SMTT(30)
    <2>2. IsFiniteSet(kept) /\ Cardinality(kept) <= Cardinality(1 .. Len(s))
      BY <1>1, <2>1, FS_Subset
    <2> QED BY <2>1, <2>2, FS_CardinalityType
  <1>3. \A i \in kept : /\ IsFiniteSet(upto(i)) /\ place(i) \in 1 .. n
                        /\ \A k \in kept : i < k => upto(i) # upto(k) /\ upto(i) \subseteq upto(k)
    <2>1. SUFFICES ASSUME NEW i \in kept
                   PROVE  /\ IsFiniteSet(upto(i)) /\ place(i) \in 1 .. n
                          /\ \A k \in kept : i < k => /\ upto(i) # upto(k)
                                                      /\ upto(i) \subseteq upto(k)
      OBVIOUS
    <2>2. i \in upto(i) /\ upto(i) \in SUBSET kept
      BY <1>1
    <2>3. IsFiniteSet(upto(i)) /\ place(i) <= n
      BY <1>2, <2>2, FS_Subset
    <2>4. place(i) \in Nat /\ place(i) # 0
      BY <2>2, <2>3, FS_CardinalityType, FS_EmptySet
    <2>5. \A k \in kept : i < k => k \in upto(k) /\ k \notin upto(i) /\ upto(i) \subseteq upto(k)
      BY <1>1
    <2> HIDE DEF kept, upto, n
    <2> QED BY <1>2, <2>3, <2>4, <2>5
  <1>4. \A i, k \in kept : place(i) = place(k) => i = k
    <2>1. SUFFICES ASSUME NEW i \in kept, NEW k \in kept, i < k
                   PROVE  place(i) # place(k)
      <3> HIDE DEF place
      <3> QED BY <1>1
    <2>2. upto(i) \in SUBSET upto(k) /\ upto(i) # upto(k) /\ IsFiniteSet(upto(k))
      BY <1>3, <2>1
    <2> HIDE DEF upto, kept
    <2> QED BY <2>2, FS_Subset
  <1>5. f \in Injection(kept, 1 .. n)
    <2> HIDE DEF place, kept, n
    <2> QED BY <1>3, <1>4 DEF Injection, IsInjective
  <1>6. f \in Surjection(kept, 1 .. n)
    <2>1. IsFiniteSet(1 .. n) /\ Cardinality(1 .. n) = n
      BY <1>2, FS_Interval
    <2> HIDE DEF f, kept
    <2> QED BY <1>5, <2>1, FS_Injection
  <1>7. \A k \in 1 .. n : at(k) \in kept /\ place(at(k)) = k
    <2> HIDE DEF place, kept, n
    <2> QED BY <1>6 DEF Surjection
  <1>8. \A i \in kept : at(place(i)) = i
    <2> HIDE DEF place, kept, n
    <2> QED BY <1>3, <1>4, <1>7
  <1>9. Without(s, x) = [k \in 1 .. n |-> s[at(k)]]
    BY DEF Without
  <1>10. Without(s, x) \in Seq(S) /\ Len(Without(s, x)) = n
    <2> DEFINE w == [k \in 1 .. n |-> s[at(k)]]
    <2>1. \A k \in 1 .. n : s[at(k)] \in S
      <3> HIDE DEF at, kept, n
      <3> QED BY <1>1, <1>7
    <2>2. w \in [1 .. n -> S]
      <3> HIDE DEF at, n
      <3> QED BY <2>1
    <2> HIDE DEF at, n
    <2> QED BY <1>2, <1>9, <2>2
  <1>11. ToSet(Without(s, x)) = {s[i] : i \in kept}
    <2>1. ToSet(Without(s, x)) = {s[at(k)] : k \in 1 .. n}
      <3> HIDE DEF at, n
      <3> QED BY <1>9 DEF ToSet
    <2> HIDE DEF at, kept, n, place
    <2> QED BY <1>3, <1>7, <1>8, <2>1
  <1> QED BY <1>2, <1>10, <1>11 DEF ToSet

----------------------------------------------------------------------------
(* Timers and the work they start.                                         *)

Busy   == {j \in Jobs : job[j] # Idle}
Coming == {v \in Viewers : tab[v] \in {"asking", "lost"}}

\* A timer that will fire starts no work already under way; the timer last set
\* will fire or is at work, or was stopped with the last viewer; somebody who
\* watches, with nothing under way, waits for a timer that will fire.
TimerOK ==
  /\ armed \subseteq Timers
  /\ timer \in Timers \cup {NoTimer}
  /\ \A t \in armed : job[t] = Idle
  /\ timer # NoTimer /\ timer \notin armed => job[timer] # Idle
  /\ Counted = {} => timer = NoTimer
  /\ Counted # {} /\ Busy = {} => timer \in armed

\* Each chain of events that is more than one has been counted, and nobody has
\* joined more often than the bound lets them.
ChainsOK ==
  /\ {joins, overlaps} \subseteq Nat
  /\ seeded \in BOOLEAN
  /\ Cardinality(armed) + Cardinality(Busy) <= 1 + overlaps
  /\ Counted = {} /\ Busy = {} => Cardinality(armed) <= overlaps
  /\ ~seeded => armed = {} /\ Busy = {} /\ Counted = {}
  /\ joins <= MaxJoins
  /\ IsFiniteSet(Coming)
  /\ overlaps + Cardinality(Coming) <= joins
  /\ seeded => overlaps + Cardinality(Coming) < joins

ClockInv ==
  /\ tab \in [Viewers -> {"away", "asking", "lost", "open", "ghost"}]
  /\ DOMAIN job = Jobs
  /\ TimerOK
  /\ ChainsOK

\* What is at work or will be is finite, and has a size.
LEMMA Sizes ==
  ASSUME ClockInv
  PROVE  /\ IsFiniteSet(armed) /\ Cardinality(armed) \in Nat
         /\ IsFiniteSet(Busy) /\ Cardinality(Busy) \in Nat
         /\ Cardinality(Coming) \in Nat
  <1>1. IsFiniteSet(Timers) /\ armed \in SUBSET Timers
    BY ActivityAssumption DEF ClockInv, TimerOK
  <1>2. IsFiniteSet(Jobs) /\ Busy \in SUBSET Jobs
    BY <1>1, FS_AddElement DEF Jobs, Busy
  <1>3. IsFiniteSet(armed) /\ IsFiniteSet(Busy) /\ IsFiniteSet(Coming)
    BY <1>1, <1>2, FS_Subset DEF ClockInv, ChainsOK
  <1> QED BY <1>3, FS_CardinalityType

\* There is a timer to be had: chains are fewer than the joins that make them.
LEMMA Spare ==
  ASSUME ClockInv
  PROVE  \A over : FreshTimer(over) \in Timers /\ FreshTimer(over) \notin armed
                   /\ (job[FreshTimer(over)] = Idle \/ FreshTimer(over) \in over)
  <1>1. \E t \in Timers : t \notin armed /\ job[t] = Idle
    <2>1. SUFFICES ASSUME Timers \subseteq armed \cup Busy  PROVE FALSE
      BY DEF Busy, Jobs
    <2>2. /\ IsFiniteSet(armed \cup Busy)
          /\ Cardinality(armed \cup Busy) =
               Cardinality(armed) + Cardinality(Busy) - Cardinality(armed \cap Busy)
      BY Sizes, FS_Union
    <2>3. Cardinality(armed \cap Busy) \in Nat
      BY Sizes, FS_Intersection, FS_CardinalityType
    <2>4. Cardinality(Timers) <= Cardinality(armed \cup Busy)
      BY <2>1, <2>2, FS_Subset
    <2>5. Cardinality(Timers) \in Nat /\ Cardinality(Timers) > MaxJoins /\ MaxJoins \in Nat
      BY ActivityAssumption, FS_CardinalityType
    <2>6. Cardinality(armed) + Cardinality(Busy) <= MaxJoins
      <3>1. CASE seeded
        BY <3>1, <2>5, Sizes DEF ClockInv, ChainsOK
      <3>2. CASE ~seeded
        BY <3>2, <2>5, Sizes, FS_EmptySet DEF ClockInv, ChainsOK
      <3> QED BY <3>1, <3>2
    <2> QED BY <2>2, <2>3, <2>4, <2>5, <2>6, Sizes
  <1> QED BY <1>1 DEF FreshTimer

\* At first nobody is there and nothing is under way.
LEMMA ClockStarts == Init => ClockInv
  <1> SUFFICES ASSUME Init PROVE ClockInv
    OBVIOUS
  <1>1. Busy = {} /\ Coming = {} /\ Counted = {}
    <2>1. /\ \A j \in Jobs : job[j] = Idle
          /\ \A v \in Viewers : tab[v] = "away"
      BY DEF Init
    <2> QED BY <2>1 DEF Busy, Coming, Counted
  <1>2. Cardinality({}) = 0 /\ IsFiniteSet({})
    BY FS_EmptySet
  <1>3. DOMAIN job = Jobs /\ tab \in [Viewers -> {"away", "asking", "lost", "open", "ghost"}]
    BY DEF Init
  <1>4. MaxJoins \in Nat
    BY ActivityAssumption
  <1>5. TimerOK
    BY <1>1 DEF Init, TimerOK
  <1>6. ChainsOK
    <2>1. armed = {} /\ joins = 0 /\ overlaps = 0 /\ seeded = FALSE
      BY DEF Init
    <2>2. Cardinality(armed) = 0 /\ Cardinality(Busy) = 0 /\ Cardinality(Coming) = 0
      BY <1>1, <1>2, <2>1
    <2>3. seeded \in BOOLEAN /\ ~seeded
      BY <2>1
    <2>4. overlaps + Cardinality(Coming) <= joins
      BY <2>1, <2>2
    <2>5. joins <= MaxJoins
      BY <2>1, <1>4
    <2> QED BY <1>1, <1>2, <2>1, <2>2, <2>3, <2>4, <2>5 DEF ChainsOK
  <1> QED BY <1>3, <1>5, <1>6 DEF ClockInv

\* What leaves timers and tabs alone, and starts and ends no work.
LEMMA ClockStands ==
  ASSUME ClockInv,
         UNCHANGED <<tab, armed, timer, seeded, joins, overlaps>>,
         DOMAIN job' = Jobs,
         \A j \in Jobs : job'[j] = Idle <=> job[j] = Idle
  PROVE  ClockInv'
  <1>1. Busy' = Busy /\ Counted' = Counted /\ Coming' = Coming
    BY DEF Busy, Counted, Coming
  <1>2. TimerOK'
    <2>1. TimerOK
      BY DEF ClockInv
    <2>2. Timers \subseteq Jobs
      BY DEF Jobs
    <2> QED BY <1>1, <2>1, <2>2 DEF TimerOK
  <1>3. ChainsOK'
    BY <1>1 DEF ClockInv, ChainsOK
  <1> QED BY <1>2, <1>3 DEF ClockInv

\* A timer that fires is work under way: as many chains as before.
LEMMA ClockFires ==
  ASSUME ClockInv,
         NEW t \in armed,
         armed' = armed \ {t},
         UNCHANGED <<tab, timer, seeded, joins, overlaps>>,
         DOMAIN job' = Jobs,
         job'[t] # Idle,
         \A j \in Jobs \ {t} : job'[j] = job[j]
  PROVE  ClockInv'
  <1>1. Counted' = Counted /\ Coming' = Coming
    BY DEF Counted, Coming
  <1>2. t \in Timers /\ t \in Jobs /\ job[t] = Idle /\ t \notin Busy
    BY DEF ClockInv, TimerOK, Jobs, Busy
  <1>3. Busy' = Busy \cup {t}
    BY <1>2 DEF Busy
  <1>4. /\ Cardinality(armed') = Cardinality(armed) - 1
        /\ Cardinality(Busy') = Cardinality(Busy) + 1
    BY <1>2, <1>3, Sizes, FS_AddElement, FS_RemoveElement
  <1>5. TimerOK'
    <2>1. TimerOK /\ Timers \subseteq Jobs
      BY DEF ClockInv, Jobs
    <2>2. \A s \in armed' : job'[s] = Idle
      BY <2>1 DEF TimerOK
    <2>3. timer' # NoTimer /\ timer' \notin armed' => job'[timer'] # Idle
      BY <2>1 DEF TimerOK
    <2> QED BY <1>1, <1>3, <2>1, <2>2, <2>3 DEF TimerOK
  <1>6. ChainsOK'
    BY <1>1, <1>3, <1>4, Sizes DEF ClockInv, ChainsOK
  <1> QED BY <1>5, <1>6 DEF ClockInv

\* Work that ends sets a timer if somebody watches: no more chains than before.
LEMMA ClockEnds ==
  ASSUME ClockInv,
         NEW j \in Jobs,
         job[j] # Idle,
         job' = [job EXCEPT ![j] = Idle],
         Schedule({j}),
         UNCHANGED <<tab, seeded, joins, overlaps>>
  PROVE  ClockInv'
  <1> DEFINE f == FreshTimer({j})
  <1>1. /\ Counted' = Counted /\ Coming' = Coming
        /\ DOMAIN job' = Jobs /\ job'[j] = Idle
        /\ \A k \in Jobs \ {j} : job'[k] = job[k]
    BY DEF ClockInv, Counted, Coming
  <1>2. Busy' = Busy \ {j} /\ j \in Busy
    BY <1>1 DEF Busy
  <1>3. Cardinality(Busy') = Cardinality(Busy) - 1
    BY <1>2, Sizes, FS_RemoveElement
  <1>4. f \in Timers /\ f \notin armed /\ (job[f] = Idle \/ f = j) /\ Timers \subseteq Jobs
    BY Spare DEF Jobs
  <1>5. TimerOK /\ ChainsOK
    BY DEF ClockInv
  <1>6. CASE Counted # {}
    <2>1. timer' = f /\ armed' = armed \cup {f}
      BY <1>6 DEF Schedule, SetTimer
    <2>2. Cardinality(armed') = Cardinality(armed) + 1
      BY <2>1, <1>4, Sizes, FS_AddElement
    <2> HIDE DEF f
    <2>3. \A t \in armed' : job'[t] = Idle
      BY <1>1, <1>4, <1>5, <2>1 DEF TimerOK
    <2>4. TimerOK'
      BY <1>1, <1>4, <1>5, <1>6, <2>1, <2>3 DEF TimerOK
    <2>5. ChainsOK'
      BY <1>1, <1>3, <1>5, <1>6, <2>2, Sizes DEF ChainsOK
    <2> QED BY <1>1, <2>4, <2>5 DEF ClockInv
  <1>7. CASE Counted = {}
    <2>1. timer' = timer /\ armed' = armed
      BY <1>7 DEF Schedule
    <2>2. TimerOK'
      BY <1>1, <1>4, <1>5, <1>7, <2>1 DEF TimerOK
    <2>3. ChainsOK'
      <3>1. Busy' = {} => Cardinality(Busy) = 1
        BY <1>3, FS_EmptySet, Sizes
      <3>2. j \in Busy
        BY <1>2
      <3> QED BY <1>1, <1>2, <1>3, <1>5, <1>7, <2>1, <3>1, <3>2, Sizes DEF ChainsOK
    <2> QED BY <1>1, <2>2, <2>3 DEF ClockInv
  <1> QED BY <1>6, <1>7

\* With its last viewer the one timer that is not beside another is cleared.
LEMMA ClockLeaves ==
  ASSUME ClockInv, NEW v \in Viewers, ViewerLeft(v)
  PROVE  ClockInv'
  <1>1. /\ tab[v] = "open" /\ tab' = [tab EXCEPT ![v] = "away"]
        /\ UNCHANGED <<joins, seeded, job, overlaps>>
    BY DEF ViewerLeft, work
  <1>2. Counted' = Counted \ {v} /\ v \in Counted /\ Coming' = Coming /\ Busy' = Busy
    BY <1>1 DEF ClockInv, Counted, Coming, Busy
  <1>3. TimerOK /\ ChainsOK
    BY DEF ClockInv
  <1>4. tab' \in [Viewers -> {"away", "asking", "lost", "open", "ghost"}] /\ DOMAIN job' = Jobs
    BY <1>1 DEF ClockInv
  <1>5. CASE Counted = {v}
    <2>1. armed' = armed \ {timer} /\ timer' = NoTimer /\ Counted' = {}
      BY <1>2, <1>5 DEF ViewerLeft, Stop
    <2>2. TimerOK'
      BY <1>1, <1>2, <1>3, <2>1 DEF TimerOK
    <2>3. /\ Cardinality(armed') <= Cardinality(armed) /\ Cardinality(armed') \in Nat
          /\ timer \in armed => Cardinality(armed') = Cardinality(armed) - 1
          /\ armed' \subseteq armed
      <3>1. IsFiniteSet(armed') /\ Cardinality(armed') =
               IF timer \in armed THEN Cardinality(armed) - 1 ELSE Cardinality(armed)
        BY <2>1, Sizes, FS_RemoveElement
      <3>2. Cardinality(armed') \in Nat
        BY <3>1, FS_CardinalityType
      <3> QED BY <2>1, <3>1, <3>2, Sizes
    <2>4. Busy = {} => timer \in armed /\ Cardinality(Busy) = 0
      BY <1>2, <1>3, FS_EmptySet DEF TimerOK
    <2>5. Counted # {}
      BY <1>2
    <2>6. ChainsOK'
      BY <1>1, <1>2, <1>3, <2>1, <2>3, <2>4, <2>5, Sizes DEF ChainsOK
    <2> QED BY <1>4, <2>2, <2>6 DEF ClockInv
  <1>6. CASE Counted # {v}
    <2>1. UNCHANGED <<timer, armed>> /\ Counted' # {} /\ Counted # {}
      BY <1>2, <1>6 DEF ViewerLeft
    <2>2. TimerOK'
      BY <1>1, <1>2, <1>3, <2>1 DEF TimerOK
    <2>3. ChainsOK'
      BY <1>1, <1>2, <1>3, <2>1 DEF ChainsOK
    <2> QED BY <1>4, <2>2, <2>3 DEF ClockInv
  <1> QED BY <1>5, <1>6

\* A request for a stream is one more join to come.
LEMMA ClockAsks ==
  ASSUME ClockInv, NEW v \in Viewers, Ask(v) \/ CloseEarly(v)
  PROVE  ClockInv'
  <1>1. UNCHANGED <<seeded, armed, timer, job, overlaps>>
    BY DEF Ask, CloseEarly, clock, work
  <1>2. /\ tab' \in [Viewers -> {"away", "asking", "lost", "open", "ghost"}]
        /\ Counted' = Counted /\ Busy' = Busy
    BY <1>1 DEF Ask, CloseEarly, ClockInv, Counted, Busy
  <1>3. TimerOK'
    BY <1>1, <1>2 DEF ClockInv, TimerOK
  <1>4. ChainsOK
    BY DEF ClockInv
  <1>5. ChainsOK'
    <2>1. CASE Ask(v)
      <3>1. Coming' = Coming \cup {v} /\ v \notin Coming
        BY <2>1 DEF Ask, ClockInv, Coming
      <3>2. IsFiniteSet(Coming') /\ Cardinality(Coming') = Cardinality(Coming) + 1
        BY <3>1, <1>4, FS_AddElement DEF ChainsOK
      <3>3. joins' = joins + 1 /\ joins < MaxJoins /\ MaxJoins \in Nat
        BY <2>1, ActivityAssumption DEF Ask
      <3> QED BY <1>1, <1>2, <1>4, <3>2, <3>3, Sizes DEF ChainsOK
    <2>2. CASE CloseEarly(v)
      <3>1. Coming' = Coming /\ joins' = joins
        BY <2>2 DEF CloseEarly, ClockInv, Coming
      <3> QED BY <1>1, <1>2, <1>4, <3>1 DEF ChainsOK
    <2> QED BY <2>1, <2>2
  <1> QED BY <1>1, <1>2, <1>3, <1>5 DEF ClockInv

\* A release that is begun is work.
LEMMA IssueIsWork ==
  ASSUME NEW j, NEW q, BeginIssue(j, q)
  PROVE  /\ DOMAIN job' = DOMAIN job
         /\ \A k \in DOMAIN job \ {j} : job'[k] = job[k]
         /\ j \in DOMAIN job => job'[j].at = "composing" /\ job'[j] # Idle
  <1>1. \E to, part : job' = [job EXCEPT ![j] = [at |-> "composing", to |-> to, part |-> part]]
    BY DEF BeginIssue
  <1>2. PICK to, part : job' = [job EXCEPT ![j] = [at |-> "composing", to |-> to, part |-> part]]
    BY <1>1
  <1>3. Idle.at = "idle"
    BY DEF Idle
  <1> QED BY <1>2, <1>3

\* A check that is begun is work.
LEMMA CheckIsWork ==
  ASSUME NEW j, NEW r, BeginCheck(j, r)
  PROVE  /\ DOMAIN job' = DOMAIN job
         /\ \A k \in DOMAIN job \ {j} : job'[k] = job[k]
         /\ j \in DOMAIN job => /\ job'[j].at = "checking" /\ job'[j].release = r
                                /\ job'[j] # Idle
  BY DEF BeginCheck, Idle

\* A tab that joins adds a chain beside the others only if it is counted.
LEMMA ClockJoins ==
  ASSUME ClockInv, NEW v \in Viewers, ViewerJoined(v)
  PROVE  ClockInv'
  <1> DEFINE owed == Promise(ActingAs[v])
             f    == FreshTimer({})
  <1>1. /\ tab[v] \in {"asking", "lost"}
        /\ tab' = [tab EXCEPT ![v] = IF tab[v] = "asking" THEN "open" ELSE "ghost"]
        /\ joins' = joins
        /\ overlaps' = IF Working /\ timer' # timer THEN overlaps + 1 ELSE overlaps
    BY DEF ViewerJoined
  <1>2. TimerOK /\ ChainsOK /\ DOMAIN job = Jobs
    BY DEF ClockInv
  <1>3. tab' \in [Viewers -> {"away", "asking", "lost", "open", "ghost"}]
    BY <1>1 DEF ClockInv
  <1>4. Coming' = Coming \ {v} /\ v \in Coming /\ Counted' = Counted \cup {v}
    BY <1>1 DEF ClockInv, Coming, Counted
  <1>5. IsFiniteSet(Coming') /\ Cardinality(Coming') = Cardinality(Coming) - 1
    BY <1>2, <1>4, FS_RemoveElement DEF ChainsOK
  <1>6. Working <=> Busy # {}
    BY DEF Working, Busy
  <1>7. /\ f \in Timers /\ f \notin armed /\ job[f] = Idle
        /\ f # NoTimer /\ Timers \subseteq Jobs
    BY Spare, ActivityAssumption DEF Jobs, NoTimer
  <1>8. /\ \/ timer' = timer /\ armed' = armed
           \/ SetTimer({timer}, {}) /\ timer # NoTimer
        /\ Counted # {} /\ UNCHANGED <<seeded, job>>
        => ClockInv'
    <2>1. SUFFICES ASSUME \/ timer' = timer /\ armed' = armed
                          \/ SetTimer({timer}, {}) /\ timer # NoTimer,
                          Counted # {}, UNCHANGED <<seeded, job>>
                   PROVE  ClockInv'
      OBVIOUS
    <2>2. Busy' = Busy /\ Counted' # {}
      BY <1>4, <2>1 DEF Busy
    <2>3. CASE timer' = timer /\ armed' = armed
      <3>1. TimerOK'
        BY <1>2, <2>1, <2>2, <2>3 DEF TimerOK
      <3>2. overlaps' = overlaps
        BY <1>1, <2>3
      <3>3. ChainsOK'
        BY <1>1, <1>2, <1>5, <2>1, <2>2, <2>3, <3>2, Sizes DEF ChainsOK
      <3> QED BY <1>2, <1>3, <2>1, <3>1, <3>3 DEF ClockInv
    <2>4. CASE SetTimer({timer}, {}) /\ timer # NoTimer
      <3>1. timer' = f /\ armed' = (armed \ {timer}) \cup {f}
        BY <2>4 DEF SetTimer
      <3> HIDE DEF f
      <3>2. f \notin armed \ {timer}
        BY <1>7
      <3>3. /\ IsFiniteSet(armed \ {timer})
            /\ Cardinality(armed \ {timer}) =
                 IF timer \in armed THEN Cardinality(armed) - 1 ELSE Cardinality(armed)
        BY Sizes, FS_RemoveElement
      <3>4. Cardinality(armed') = Cardinality(armed \ {timer}) + 1
        BY <3>1, <3>2, <3>3, FS_AddElement
      <3>5. timer \notin armed => Busy # {} /\ timer' # timer
        BY <1>2, <1>7, <2>4, <3>1 DEF TimerOK, Busy
      <3>6. TimerOK'
        BY <1>2, <1>7, <2>1, <2>2, <3>1 DEF TimerOK
      <3>7. /\ overlaps' \in Nat /\ overlaps' <= overlaps + 1 /\ overlaps <= overlaps'
            /\ timer \notin armed => overlaps' = overlaps + 1
        BY <1>1, <1>2, <1>6, <3>5 DEF ChainsOK
      <3>8. ChainsOK'
        BY <1>1, <1>2, <1>5, <2>1, <2>2, <3>3, <3>4, <3>7, Sizes DEF ChainsOK
      <3> QED BY <1>2, <1>3, <2>1, <3>6, <3>8 DEF ClockInv
    <2> QED BY <2>1, <2>3, <2>4
  <1>9. CASE Counted # {}
    <2>1. Hurry(owed) /\ UNCHANGED <<seeded, job>>
      BY <1>9 DEF ViewerJoined, work
    <2>2. \/ timer' = timer /\ armed' = armed
          \/ SetTimer({timer}, {}) /\ timer # NoTimer
      BY <2>1 DEF Hurry
    <2> QED BY <1>8, <1>9, <2>1, <2>2
  <1>10. CASE Counted = {} /\ BeginIssue(Seed, owed) /\ ~seeded /\ seeded' = TRUE
                /\ UNCHANGED <<timer, armed>>
    <2>1. armed = {} /\ Busy = {} /\ armed' = {} /\ overlaps' = overlaps
      BY <1>1, <1>2, <1>10 DEF ChainsOK
    <2>2. /\ DOMAIN job' = Jobs /\ job'[Seed] # Idle
          /\ \A k \in Jobs \ {Seed} : job'[k] = job[k]
      BY <1>2, <1>10, IssueIsWork DEF Jobs
    <2>3. Busy' = {Seed} /\ Counted' # {}
      BY <1>4, <2>1, <2>2 DEF Busy, Jobs
    <2>4. Cardinality(Busy') = 1 /\ Cardinality(armed') = 0
      BY <2>1, <2>3, FS_Singleton, FS_EmptySet
    <2>5. TimerOK'
      BY <1>2, <1>10, <2>1, <2>3 DEF TimerOK
    <2>6. overlaps' + Cardinality(Coming') < joins'
      BY <1>1, <1>2, <1>5, <2>1, Sizes DEF ChainsOK
    <2>7. ChainsOK'
      BY <1>1, <1>2, <1>5, <1>10, <2>1, <2>3, <2>4, <2>6, Sizes DEF ChainsOK
    <2> QED BY <1>3, <2>2, <2>5, <2>7 DEF ClockInv
  <1>11. CASE Counted = {} /\ SetTimer({}, {}) /\ seeded' = TRUE /\ UNCHANGED job
    <2>1. timer' = f /\ armed' = armed \cup {f}
      BY <1>11 DEF SetTimer
    <2>2. timer = NoTimer /\ timer' # timer
      BY <1>2, <1>7, <1>11, <2>1 DEF TimerOK
    <2> HIDE DEF f
    <2>3. Cardinality(armed') = Cardinality(armed) + 1 /\ Busy' = Busy /\ Counted' # {}
      BY <1>4, <1>7, <1>11, <2>1, Sizes, FS_AddElement DEF Busy
    <2>4. TimerOK'
      BY <1>2, <1>7, <1>11, <2>1, <2>3 DEF TimerOK
    <2>5. CASE Busy = {}
      <3>1. overlaps' = overlaps /\ Cardinality(Busy) = 0 /\ Cardinality(armed) <= overlaps
        BY <1>1, <1>2, <1>6, <1>11, <2>5, FS_EmptySet DEF ChainsOK
      <3>2. ChainsOK'
        BY <1>1, <1>2, <1>5, <1>11, <2>3, <2>5, <3>1, Sizes DEF ChainsOK
      <3> QED BY <1>2, <1>3, <1>11, <2>4, <3>2 DEF ClockInv
    <2>6. CASE Busy # {}
      <3>1. overlaps' = overlaps + 1 /\ seeded
        BY <1>1, <1>2, <1>6, <2>2, <2>6 DEF ChainsOK
      <3>2. ChainsOK'
        BY <1>1, <1>2, <1>5, <1>11, <2>3, <2>6, <3>1, Sizes DEF ChainsOK
      <3> QED BY <1>2, <1>3, <1>11, <2>4, <3>2 DEF ClockInv
    <2> QED BY <2>5, <2>6
  <1>12. \/ Counted # {}
         \/ Counted = {} /\ BeginIssue(Seed, owed) /\ ~seeded /\ seeded' = TRUE
              /\ UNCHANGED <<timer, armed>>
         \/ Counted = {} /\ SetTimer({}, {}) /\ seeded' = TRUE /\ UNCHANGED job
    BY DEF ViewerJoined, work
  <1> QED BY <1>9, <1>10, <1>11, <1>12

\* How work ends, whatever it was.
LEMMA ClockFinishes ==
  ASSUME ClockInv, NEW j \in Jobs, job[j] # Idle, Finish(j),
         UNCHANGED <<tab, seeded, joins, overlaps>>
  PROVE  ClockInv'
  <1>1. CASE j = Seed
    <2>1. job' = [job EXCEPT ![j] = Planned] /\ UNCHANGED <<timer, armed>>
      BY <1>1 DEF Finish
    <2>2. DOMAIN job' = Jobs /\ \A k \in Jobs : job'[k] = Idle <=> job[k] = Idle
      BY <2>1 DEF ClockInv, Planned, Idle
    <2> QED BY <2>1, <2>2, ClockStands
  <1>2. CASE j # Seed
    BY <1>2, ClockEnds DEF Finish
  <1> QED BY <1>1, <1>2

\* Every step keeps the clock.
LEMMA ClockSteps ==
  ASSUME ClockInv, [Next]_vars
  PROVE  ClockInv'
  <1>1. DOMAIN job = Jobs /\ Seed \in Jobs /\ Timers \subseteq Jobs
    BY DEF ClockInv, Jobs
  <1>2. ASSUME UNCHANGED <<tab, armed, timer, seeded, joins, overlaps, job>>
        PROVE  ClockInv'
    BY <1>1, <1>2, ClockStands
  <1>3. CASE UNCHANGED vars
    BY <1>2, <1>3 DEF vars, clock, work
  <1>4. ASSUME NEW v \in Viewers, Ask(v) \/ CloseEarly(v)  PROVE ClockInv'
    BY <1>4, ClockAsks
  <1>5. ASSUME NEW v \in Viewers, ViewerLeft(v)  PROVE ClockInv'
    BY <1>5, ClockLeaves
  <1>6. ASSUME NEW v \in Viewers, NEW r, PostCheck(v, r) \/ ClearArrival(v, r)
        PROVE  ClockInv'
    BY <1>2, <1>6 DEF PostCheck, ClearArrival, clock, work
  <1>7. ASSUME NEW v \in Viewers, CheckPublished(v) \/ CheckRefused(v)  PROVE ClockInv'
    BY <1>2, <1>7 DEF CheckPublished, CheckRefused, clock, work
  <1>8. ASSUME NEW v \in Viewers, ViewerJoined(v)  PROVE ClockInv'
    BY <1>8, ClockJoins
  <1>9. ASSUME NEW t \in Timers, Tick(t)  PROVE ClockInv'
    <2>1. /\ t \in armed /\ armed' = armed \ {t}
          /\ UNCHANGED <<tab, timer, seeded, joins, overlaps>>
          /\ BeginCheck(t, Head(pending)) \/ BeginIssue(t, promised)
      BY <1>9 DEF Tick
    <2>2. /\ DOMAIN job' = Jobs /\ job'[t] # Idle
          /\ \A k \in Jobs \ {t} : job'[k] = job[k]
      BY <1>1, <2>1, IssueIsWork, CheckIsWork
    <2> QED BY <2>1, <2>2, ClockFires
  <1>10. ASSUME NEW t \in Timers, TickAtBound(t)  PROVE ClockInv'
    <2>1. /\ t \in armed /\ armed' = armed \ {t}
          /\ UNCHANGED <<tab, timer, seeded, joins, overlaps>>
          /\ job' = [job EXCEPT ![t] = Nothing]
      BY <1>10 DEF TickAtBound
    <2>2. /\ DOMAIN job' = Jobs /\ job'[t] # Idle
          /\ \A k \in Jobs \ {t} : job'[k] = job[k]
      BY <1>1, <2>1 DEF Nothing, Idle
    <2> QED BY <2>1, <2>2, ClockFires
  <1>11. ASSUME NEW j \in Jobs, Compose(j) \/ PdsWrites(j)  PROVE ClockInv'
    <2>1. /\ UNCHANGED <<tab, armed, timer, seeded, joins, overlaps>>
          /\ DOMAIN job' = Jobs /\ job[j] # Idle /\ job'[j] # Idle
          /\ \A k \in Jobs \ {j} : job'[k] = job[k]
      BY <1>1, <1>11 DEF Compose, PdsWrites, clock, Idle
    <2>2. \A k \in Jobs : job'[k] = Idle <=> job[k] = Idle
      BY <2>1
    <2> QED BY <2>1, <2>2, ClockStands
  <1>12. ASSUME NEW j \in Jobs, Written(j) \/ Checked(j) \/ WriteFails(j) \/ Rest(j)
         PROVE  ClockInv'
    <2>1. job[j] # Idle /\ Finish(j) /\ UNCHANGED <<tab, seeded, joins, overlaps>>
      <3>1. CASE Written(j)
        BY <3>1 DEF Written, Idle
      <3>2. CASE Checked(j)
        BY <3>2 DEF Checked, Idle
      <3>3. CASE WriteFails(j)
        BY <3>3 DEF WriteFails, Idle
      <3>4. CASE Rest(j)
        BY <3>4 DEF Rest, Idle, Nothing
      <3> QED BY <1>12, <3>1, <3>2, <3>3, <3>4
    <2> QED BY <2>1, ClockFinishes
  <1>13. CASE SeedNext
    <2>1. /\ UNCHANGED <<tab, armed, timer, seeded, joins, overlaps>>
          /\ job[Seed] = Planned
          /\ BeginIssue(Seed, promised) \/ \E r : BeginCheck(Seed, r)
      BY <1>13 DEF SeedNext, clock
    <2>2. /\ DOMAIN job' = Jobs /\ job'[Seed] # Idle
          /\ \A k \in Jobs \ {Seed} : job'[k] = job[k]
      BY <1>1, <2>1, IssueIsWork, CheckIsWork
    <2>3. \A k \in Jobs : job'[k] = Idle <=> job[k] = Idle
      BY <2>1, <2>2 DEF Planned, Idle
    <2> QED BY <2>1, <2>2, <2>3, ClockStands
  <1>14. CASE SeedDone
    <2>1. /\ job[Seed] # Idle /\ job' = [job EXCEPT ![Seed] = Idle] /\ Schedule({Seed})
          /\ UNCHANGED <<tab, seeded, joins, overlaps>>
      BY <1>14 DEF SeedDone, Planned, Idle
    <2> QED BY <1>1, <2>1, ClockEnds
  <1> QED
    BY <1>3, <1>4, <1>5, <1>6, <1>7, <1>8, <1>9, <1>10, <1>11, <1>12, <1>13, <1>14
    DEF Next, Visitor, Timeout, Advance, SeedRuns

\* While a viewer is counted the generator always has a next event: with nothing
\* under way the timer set last will fire.
THEOREM NeverStalled == Spec => []NeverStalls
  <1>1. ClockInv => NeverStalls
    <2>1. SUFFICES ASSUME ClockInv, Counted # {}  PROVE Chains # {}
      BY DEF NeverStalls
    <2>2. CASE Busy = {}
      <3>1. timer \in armed
        BY <2>1, <2>2 DEF ClockInv, TimerOK
      <3> QED BY <3>1 DEF Chains
    <2>3. CASE Busy # {}
      BY <2>3 DEF Chains, Busy
    <2> QED BY <2>2, <2>3
  <1> QED BY <1>1, ClockStarts, ClockSteps, PTL DEF Spec

\* A second chain of events begins only when a tab joins while work is under way,
\* and each such join adds at most one.
THEOREM NoUncountedChain == Spec => []ChainsAccounted
  <1>1. ClockInv => ChainsAccounted
    <2> SUFFICES ASSUME ClockInv  PROVE ChainsAccounted
      OBVIOUS
    <2> DEFINE T == {<<"timer", t>> : t \in armed}
               W == {<<"work", j>> : j \in Busy}
    <2>1. IsFiniteSet(T) /\ Cardinality(T) <= Cardinality(armed)
      <3>1. [t \in armed |-> <<"timer", t>>] \in Surjection(armed, T)
        BY DEF Surjection
      <3> QED BY <3>1, Sizes, FS_Surjection
    <2>2. IsFiniteSet(W) /\ Cardinality(W) <= Cardinality(Busy)
      <3>1. [j \in Busy |-> <<"work", j>>] \in Surjection(Busy, W)
        BY DEF Surjection
      <3> QED BY <3>1, Sizes, FS_Surjection
    <2>3. Chains = T \cup W
      BY DEF Chains, Busy
    <2> HIDE DEF T, W
    <2>4. /\ Cardinality(T \cup W) = Cardinality(T) + Cardinality(W) - Cardinality(T \cap W)
          /\ Cardinality(T) \in Nat /\ Cardinality(W) \in Nat
          /\ Cardinality(T \cap W) \in Nat
      BY <2>1, <2>2, FS_Union, FS_Intersection, FS_CardinalityType
    <2>5. /\ Cardinality(armed) + Cardinality(Busy) <= 1 + overlaps
          /\ overlaps \in Nat
      BY DEF ClockInv, ChainsOK
    <2> QED BY <2>1, <2>2, <2>3, <2>4, <2>5, Sizes DEF ChainsAccounted
  <1> QED BY <1>1, ClockStarts, ClockSteps, PTL DEF Spec

\* With no such join, and no tab lost on its way to a stream, a tick begins only
\* while a tab is there.
THEOREM NoTickUnwatched == Spec => []IdlesWithoutOverlap
  <1>1. Init => IdlesWithoutOverlap
    BY DEF Init, IdlesWithoutOverlap
  <1>2. ASSUME ClockInv, IdlesWithoutOverlap, [Next]_vars  PROVE IdlesWithoutOverlap'
    <2>1. overlaps > 0 => overlaps' > 0
      <3>1. overlaps' = overlaps \/ overlaps' = overlaps + 1
        BY <1>2
        DEF Next, vars, Visitor, Timeout, Advance, SeedRuns, Ask, CloseEarly, ViewerLeft,
            PostCheck, ClearArrival, CheckPublished, CheckRefused, ViewerJoined, Tick,
            TickAtBound, Compose, PdsWrites, Written, Checked, WriteFails, Rest, SeedNext, SeedDone
      <3> QED BY <1>2, <3>1 DEF ClockInv, ChainsOK
    <2>2. ASSUME NEW v \in Viewers, tab[v] \in {"lost", "ghost"}
          PROVE  tab'[v] \in {"lost", "ghost"}
      BY <1>2, <2>2
      DEF Next, vars, Visitor, Timeout, Advance, SeedRuns, Ask, CloseEarly, ViewerLeft,
          PostCheck, ClearArrival, CheckPublished, CheckRefused, ViewerJoined, Tick,
          TickAtBound, Compose, PdsWrites, Written, Checked, WriteFails, Rest, SeedNext, SeedDone,
          ClockInv
    <2>3. unwatched' /\ ~unwatched => \E t \in Timers : Tick(t) \/ TickAtBound(t)
      BY <1>2
      DEF Next, vars, Visitor, Timeout, Advance, SeedRuns, Ask, CloseEarly, ViewerLeft,
          PostCheck, ClearArrival, CheckPublished, CheckRefused, ViewerJoined, Compose, PdsWrites,
          Written, Checked, WriteFails, Rest, SeedNext, SeedDone
    <2>4. ASSUME NEW t \in Timers, Tick(t) \/ TickAtBound(t), Present = {}
          PROVE  overlaps' > 0 \/ \E v \in Viewers : tab'[v] \in {"lost", "ghost"}
      <3>1. t \in armed /\ overlaps' = overlaps /\ tab' = tab
        BY <2>4 DEF Tick, TickAtBound
      <3>2. Counted # {} => \E v \in Viewers : tab[v] = "ghost"
        BY <2>4 DEF Counted, Present
      <3>3. ASSUME Counted = {}  PROVE overlaps > 0
        <4>1. Cardinality(armed) # 0
          BY <1>2, <3>1, Sizes, FS_EmptySet
        <4>2. Busy # {} => Cardinality(Busy) # 0
          BY <1>2, Sizes, FS_EmptySet
        <4> QED BY <1>2, <3>3, <4>1, <4>2, Sizes DEF ClockInv, ChainsOK
      <3> QED BY <3>1, <3>2, <3>3
    <2>5. ASSUME NEW t \in Timers, Tick(t) \/ TickAtBound(t)
          PROVE  unwatched' => unwatched \/ Present = {}
      BY <2>5 DEF Tick, TickAtBound
    <2> QED BY <1>2, <2>1, <2>2, <2>3, <2>4, <2>5 DEF IdlesWithoutOverlap
  <1> QED BY <1>1, <1>2, ClockStarts, ClockSteps, PTL DEF Spec

----------------------------------------------------------------------------
(* What the lists, the parts and the work name.                            *)

Known   == 1 .. Len(released)
Writing == {j \in Jobs : job[j].at \in {"composing", "writing"}}

\* The releases, with room for those being written.
RoomOK ==
  /\ released \in Seq([prev : 0 .. MaxReleases, told : BOOLEAN])
  /\ Len(released) + Cardinality(Writing) <= MaxReleases
  /\ ~seeded => released = << >>
  /\ \A i \in Known : released[i].prev \in 0 .. Len(released)

\* What work under way names was released.
JobsOK ==
  \A j \in Jobs :
    /\ job[j].at \in {"written", "checking"} => job[j].release \in Known
    /\ job[j].at \in {"composing", "writing", "written"} => job[j].part \in 0 .. MaxReleases
    /\ job[j].at = "writing" => job[j].prev \in 0 .. Len(released)

\* What a list or a part names was released; no list is longer than its cap.
ListsOK ==
  /\ promised \in Seq(Orgs)
  /\ pending \in Seq(Known) /\ Len(pending) <= PendingCap
  /\ inService \in Seq(Release) /\ Len(inService) <= InServiceCap
  /\ parts \in [Release -> [newest : 0 .. Len(released), visits : Nat]]

\* What is left of the backlog, and what of it was issued.
PlanOK ==
  /\ plan \in [left : 0 .. BacklogSize, issued : SUBSET Known]
  /\ plan.issued # {} => job[Seed] # Idle

\* What waits somewhere, is being published or was dealt with was released.
FloorOK ==
  /\ dock \in [Orgs -> Seq(Known)]
  /\ \A h \in Orgs : Len(dock[h]) <= DockCap
  /\ desk \in [Viewers -> 0 .. Len(released)]
  /\ dealt \subseteq Known
  /\ checks \in [Release -> Nat]
  /\ \A r \in Release : checks[r] # 0 => r \in Known

DataInv ==
  /\ {seeding, unwatched} \subseteq BOOLEAN
  /\ RoomOK
  /\ JobsOK
  /\ ListsOK
  /\ PlanOK
  /\ FloorOK

\* The steps as work sees them: what was under way ends, or comes to rest, with its
\* writer told or without; a release is begun; a check is begun.
Ends(j) ==
  /\ job'[j].at \in {"idle", "planned", "nothing"}
  /\ \/ released' = released
     \/ /\ job[j].at = "written"
        /\ released' = [released EXCEPT ![job[j].release].told = TRUE]

Issues(j) ==
  /\ released' = released
  /\ job[j].at \in {"idle", "planned"}
  /\ CanIssue \/ ~seeded
  /\ seeded' = TRUE
  /\ \E q : BeginIssue(j, q)

Checks(j) ==
  /\ released' = released
  /\ job[j].at \in {"idle", "planned"}
  /\ job'[j].at = "checking"
  /\ job'[j].release \in ToSet(pending) \cup plan.issued

\* One job at a time: the others are as they were.
Alone(j) ==
  /\ DOMAIN job' = Jobs
  /\ \A k \in Jobs \ {j} : job'[k] = job[k]

Moves(j) == Ends(j) \/ Issues(j) \/ Checks(j) \/ Compose(j) \/ PdsWrites(j)

LEMMA OneMoves ==
  ASSUME ClockInv, ListsOK, [Next]_vars
  PROVE  \/ job' = job /\ released' = released
         \/ \E j \in Jobs : Alone(j) /\ Moves(j)
  <1> DEFINE Goal == \/ job' = job /\ released' = released
                     \/ \E j \in Jobs : Alone(j) /\ Moves(j)
  <1>1. DOMAIN job = Jobs /\ Seed \in Jobs /\ Timers \subseteq Jobs
    BY DEF ClockInv, Jobs
  <1>2. ASSUME NEW j \in Jobs, Finish(j)
        PROVE  Alone(j) /\ job'[j].at \in {"idle", "planned"}
    BY <1>1, <1>2 DEF Finish, Alone, Idle, Planned
  <1>3. ASSUME NEW t \in Timers, Tick(t)  PROVE Alone(t) /\ (Issues(t) \/ Checks(t))
    <2>1. job[t].at = "idle" /\ released' = released
      BY <1>3 DEF Tick, world, ClockInv, TimerOK, Idle
    <2>2. CASE pending # << >> /\ BeginCheck(t, Head(pending))
      <3>1. Head(pending) \in ToSet(pending)
        BY <2>2 DEF ListsOK, ToSet
      <3> QED BY <1>1, <2>1, <2>2, <3>1, CheckIsWork DEF Alone, Checks
    <2>3. CASE CanIssue /\ BeginIssue(t, promised)
      <3>1. seeded' = TRUE
        BY <1>3 DEF Tick, ClockInv, ChainsOK
      <3> QED BY <1>1, <2>1, <2>3, <3>1, IssueIsWork DEF Alone, Issues
    <2> QED BY <1>3, <2>2, <2>3 DEF Tick
  <1>4. ASSUME NEW t \in Timers, TickAtBound(t)  PROVE Alone(t) /\ Ends(t)
    BY <1>1, <1>4 DEF TickAtBound, Alone, Ends, Nothing, world
  <1>5. ASSUME NEW j \in Jobs, Compose(j) \/ PdsWrites(j)  PROVE Alone(j)
    BY <1>1, <1>5 DEF Compose, PdsWrites, Alone
  <1>6. ASSUME NEW j \in Jobs, Written(j)  PROVE Alone(j) /\ Ends(j)
    BY <1>2, <1>6 DEF Written, Ends
  <1>7. ASSUME NEW j \in Jobs, Checked(j) \/ Rest(j)  PROVE Alone(j) /\ Ends(j)
    BY <1>2, <1>7 DEF Checked, Rest, Ends, world
  <1>8. ASSUME NEW j \in Jobs, WriteFails(j)  PROVE Alone(j) /\ Ends(j)
    BY <1>2, <1>8 DEF WriteFails, Ends
  <1>9. ASSUME SeedNext  PROVE Alone(Seed) /\ (Issues(Seed) \/ Checks(Seed))
    <2>1. job[Seed].at = "planned" /\ released' = released /\ seeded' = seeded
      BY <1>9 DEF SeedNext, world, Planned, clock
    <2>2. ASSUME CanIssue, BeginIssue(Seed, promised)  PROVE Alone(Seed) /\ Issues(Seed)
      <3>1. seeded' = TRUE
        BY <1>1, <1>9, <2>1 DEF ClockInv, ChainsOK, Busy, SeedNext, Planned, Idle
      <3>2. Alone(Seed)
        BY <1>1, <2>2, IssueIsWork DEF Alone
      <3> QED BY <2>1, <2>2, <3>1, <3>2 DEF Issues
    <2>3. ASSUME NEW r \in plan.issued, BeginCheck(Seed, r)  PROVE Alone(Seed) /\ Checks(Seed)
      BY <1>1, <2>1, <2>3, CheckIsWork DEF Alone, Checks
    <2>4. \/ CanIssue /\ BeginIssue(Seed, promised)
          \/ \E r \in plan.issued : BeginCheck(Seed, r)
      BY <1>9 DEF SeedNext
    <2> HIDE DEF Alone, Issues, Checks
    <2> QED BY <2>2, <2>3, <2>4
  <1>10. ASSUME SeedDone  PROVE Alone(Seed) /\ Ends(Seed)
    <2>1. released' = released /\ job' = [job EXCEPT ![Seed] = Idle]
      BY <1>10 DEF SeedDone, world
    <2>2. Alone(Seed) /\ job'[Seed].at = "idle"
      BY <1>1, <2>1 DEF Alone, Idle
    <2> QED BY <2>1, <2>2 DEF Ends
  <1>11. ASSUME NEW v \in Viewers, ViewerJoined(v)
         PROVE  (job' = job /\ released' = released) \/ (Alone(Seed) /\ Issues(Seed))
    <2>1. released' = released
      BY <1>11 DEF ViewerJoined, world
    <2>2. CASE ~seeded /\ seeded' = TRUE /\ BeginIssue(Seed, Promise(ActingAs[v]))
      <3>1. job[Seed].at = "idle"
        BY <1>1, <2>2 DEF ClockInv, ChainsOK, Busy, Idle
      <3> QED BY <1>1, <2>1, <2>2, <3>1, IssueIsWork DEF Alone, Issues
    <2>3. job' = job \/ (~seeded /\ seeded' = TRUE /\ BeginIssue(Seed, Promise(ActingAs[v])))
      BY <1>11 DEF ViewerJoined, work
    <2> QED BY <2>1, <2>2, <2>3
  <1>12. ASSUME NEW v \in Viewers, NEW r, \/ Ask(v) \/ CloseEarly(v) \/ ViewerLeft(v)
                                          \/ PostCheck(v, r) \/ ClearArrival(v, r)
                                          \/ CheckPublished(v) \/ CheckRefused(v)
         PROVE  job' = job /\ released' = released
    BY <1>12 DEF Ask, CloseEarly, ViewerLeft, PostCheck, ClearArrival, CheckPublished,
                 CheckRefused, work, world
  <1>13. CASE UNCHANGED vars
    BY <1>13 DEF vars, work, world
  <1> HIDE DEF Ends, Issues, Checks, Alone
  <1> QED BY <1>1, <1>3, <1>4, <1>5, <1>6, <1>7, <1>8, <1>9, <1>10, <1>11, <1>12, <1>13
          DEF Moves, Next, Visitor, Timeout, Advance, SeedRuns

\* Once the backlog was begun it stays begun.
LEMMA BegunStays ==
  ASSUME [Next]_vars
  PROVE  seeded' = seeded \/ seeded' = TRUE
  BY DEF Next, vars, clock, Visitor, Timeout, Advance, SeedRuns, Ask, CloseEarly, ViewerLeft,
         PostCheck, ClearArrival, CheckPublished, CheckRefused, ViewerJoined, Tick,
         TickAtBound, Compose, PdsWrites, Written, Checked, WriteFails, Rest, SeedNext, SeedDone

\* The releases being written can be counted.
LEMMA WritingSize ==
  ASSUME ClockInv
  PROVE  IsFiniteSet(Writing) /\ Cardinality(Writing) \in Nat /\ Writing \subseteq Busy
  <1>1. Writing \in SUBSET Busy
    BY DEF Writing, Busy, Idle
  <1> QED BY <1>1, Sizes, FS_Subset, FS_CardinalityType

\* A release that is written is the next one, of a job that is over then.
LEMMA RoomKept ==
  ASSUME ClockInv, DataInv, [Next]_vars
  PROVE  /\ RoomOK'
         /\ Len(released) <= Len(released') /\ Len(released') <= MaxReleases
         /\ Len(released') \in Nat /\ Len(released) \in Nat
  <1> DEFINE Rec == [prev : 0 .. MaxReleases, told : BOOLEAN]
  <1>1. /\ RoomOK /\ JobsOK /\ DOMAIN job = Jobs
        /\ Len(released) \in Nat /\ released \in Seq(Rec)
        /\ MaxReleases \in Nat \ {0} /\ Len(released) <= MaxReleases
    BY WritingSize, ActivityAssumption, SMTT(30) DEF DataInv, RoomOK, ClockInv
  <1>2. seeded' = seeded \/ seeded' = TRUE
    BY BegunStays
  <1>3. ~seeded => Writing = {} /\ released = << >>
    BY <1>1, WritingSize DEF ClockInv, ChainsOK, RoomOK
  <1>4. \/ job' = job /\ released' = released
        \/ \E j \in Jobs : Alone(j) /\ Moves(j)
    BY OneMoves DEF DataInv, Moves
  <1>5. ASSUME released' = released, Cardinality(Writing') \in Nat,
               Len(released) + Cardinality(Writing') <= MaxReleases
        PROVE  RoomOK' /\ Len(released) <= Len(released') /\ Len(released') <= MaxReleases
    BY <1>1, <1>2, <1>5 DEF RoomOK, Known
  <1>6. CASE job' = job /\ released' = released
    <2>1. Writing' = Writing
      BY <1>6 DEF Writing
    <2> QED BY <1>1, <1>5, <1>6, <2>1, WritingSize DEF RoomOK
  <1>7. ASSUME NEW j \in Jobs, Alone(j), Ends(j)
        PROVE  RoomOK' /\ Len(released) <= Len(released') /\ Len(released') <= MaxReleases
    <2>1. Writing' = Writing \ {j}
      BY <1>7 DEF Alone, Ends, Writing
    <2>2. /\ IsFiniteSet(Writing') /\ Cardinality(Writing') \in Nat
          /\ Cardinality(Writing') =
               IF j \in Writing THEN Cardinality(Writing) - 1 ELSE Cardinality(Writing)
      BY <2>1, WritingSize, FS_RemoveElement, FS_CardinalityType
    <2>3. CASE released' = released
      BY <1>1, <1>5, <2>2, <2>3, WritingSize DEF RoomOK
    <2>4. CASE job[j].at = "written" /\ released' = [released EXCEPT ![job[j].release].told = TRUE]
      <3> DEFINE r == job[j].release
      <3>1. r \in Known
        BY <1>1, <2>4 DEF JobsOK
      <3> HIDE DEF r
      <3>2. /\ released' \in Seq([prev : 0 .. MaxReleases, told : BOOLEAN])
            /\ Len(released') = Len(released)
            /\ \A i \in Known : released'[i].prev = released[i].prev
        <4> DEFINE R == [prev : 0 .. MaxReleases, told : BOOLEAN]
        <4>1. released \in Seq(R) /\ DOMAIN released = Known
          BY <1>1 DEF RoomOK, Known
        <4>2. released[r] \in R
          <5> HIDE DEF R
          <5> QED BY <3>1, <4>1
        <4> DEFINE e == [released[r] EXCEPT !.told = TRUE]
        <4>3. e \in R /\ e.prev = released[r].prev
          BY <4>2
        <4>4. released' = [released EXCEPT ![r] = e]
          BY <2>4 DEF r
        <4> HIDE DEF e, R
        <4>5. released' \in Seq(R) /\ Len(released') = Len(released)
          BY <3>1, <4>1, <4>3, <4>4 DEF Known
        <4>6. \A i \in Known : released'[i] = IF i = r THEN e ELSE released[i]
          BY <3>1, <4>1, <4>4
        <4>7. \A i \in Known : released'[i].prev = released[i].prev
          BY <4>3, <4>6
        <4> QED BY <4>5, <4>7 DEF R
      <3>3. \A i \in Known' : released'[i].prev \in 0 .. Len(released')
        BY <1>1, <3>2 DEF Known, RoomOK
      <3>4. seeded' = TRUE
        BY <1>1, <1>2, <3>1 DEF Known, RoomOK, ClockInv, ChainsOK
      <3> QED BY <1>1, <2>2, <3>2, <3>3, <3>4, WritingSize DEF RoomOK
    <2> QED BY <1>7, <2>3, <2>4 DEF Ends
  <1>8. ASSUME NEW j \in Jobs, Alone(j), Issues(j)
        PROVE  RoomOK' /\ Len(released) <= Len(released') /\ Len(released') <= MaxReleases
    <2>1. Writing' = Writing \cup {j} /\ j \notin Writing /\ released' = released
      <3>1. job'[j].at = "composing"
        BY <1>1, <1>8, IssueIsWork DEF Issues
      <3> QED BY <1>8, <3>1 DEF Alone, Issues, Writing
    <2>2. Cardinality(Writing') = Cardinality(Writing) + 1
      BY <2>1, WritingSize, FS_AddElement
    <2>3. Len(released) + Cardinality(Writing) < MaxReleases
      <3>1. CASE CanIssue
        BY <3>1 DEF CanIssue, Writing
      <3>2. CASE ~seeded
        <4>1. Cardinality(Writing) = 0 /\ Len(released) = 0
          BY <1>3, <3>2, FS_EmptySet
        <4> QED BY <1>1, <4>1
      <3> QED BY <1>8, <3>1, <3>2 DEF Issues
    <2> QED BY <1>1, <1>5, <2>1, <2>2, <2>3, WritingSize
  <1>9. ASSUME NEW j \in Jobs, Alone(j), Checks(j)
        PROVE  RoomOK' /\ Len(released) <= Len(released') /\ Len(released') <= MaxReleases
    <2>1. Writing' = Writing /\ released' = released
      BY <1>9 DEF Alone, Checks, Writing
    <2> QED BY <1>1, <1>5, <2>1, WritingSize DEF RoomOK
  <1>10. ASSUME NEW j \in Jobs, Alone(j), Compose(j)
        PROVE  RoomOK' /\ Len(released) <= Len(released') /\ Len(released') <= MaxReleases
    <2>1. Writing' = Writing /\ released' = released
      BY <1>1, <1>10 DEF Alone, Compose, Writing, world
    <2> QED BY <1>1, <1>5, <2>1, WritingSize DEF RoomOK
  <1>11. ASSUME NEW j \in Jobs, Alone(j), PdsWrites(j)
         PROVE  RoomOK' /\ Len(released) <= Len(released') /\ Len(released') <= MaxReleases
    <2> DEFINE e == [prev |-> job[j].prev, told |-> FALSE]
    <2>1. /\ released' = Append(released, e)
          /\ job[j].at = "writing" /\ job'[j].at = "written"
      BY <1>1, <1>11 DEF PdsWrites
    <2>2. /\ IsFiniteSet(Writing') /\ Cardinality(Writing') \in Nat
          /\ Cardinality(Writing') = Cardinality(Writing) - 1
      <3>1. Writing' = Writing \ {j} /\ j \in Writing
        BY <1>11, <2>1 DEF Alone, Writing
      <3> QED BY <3>1, WritingSize, FS_RemoveElement, FS_CardinalityType
    <2>3. e \in Rec /\ e.prev \in 0 .. Len(released)
      BY <1>1, <2>1 DEF JobsOK
    <2> HIDE DEF e, Rec
    <2>4. /\ released' \in Seq(Rec) /\ Len(released') = Len(released) + 1
          /\ \A i \in Known : released'[i] = released[i]
          /\ released'[Len(released) + 1] = e
      BY <1>1, <2>1, <2>3 DEF Known
    <2>5. Len(released') + Cardinality(Writing') <= MaxReleases
      BY <1>1, <2>2, <2>4, WritingSize DEF RoomOK
    <2>6. \A i \in Known' : released'[i].prev \in 0 .. Len(released')
      BY <1>1, <2>3, <2>4, SMTT(30) DEF Known, RoomOK
    <2>7. seeded' = TRUE
      <3>1. j \in Writing
        BY <2>1 DEF Writing
      <3> QED BY <1>2, <1>3, <3>1 DEF ClockInv, ChainsOK
    <2> QED BY <1>1, <2>2, <2>4, <2>5, <2>6, <2>7 DEF RoomOK, Rec
  <1>12. RoomOK' /\ Len(released) <= Len(released') /\ Len(released') <= MaxReleases
    BY <1>1, <1>4, <1>5, <1>6, <1>7, <1>8, <1>9, <1>10, <1>11, WritingSize DEF RoomOK, Moves
  <1>13. Len(released') \in Nat
    BY <1>12 DEF RoomOK
  <1> QED BY <1>1, <1>12, <1>13

\* A release the PDS writes has the next number.
LEMMA NextNumber ==
  ASSUME DataInv, NEW j \in Jobs, PdsWrites(j)
  PROVE  Len(released') = Len(released) + 1
  <1>1. \E R : released \in Seq(R)
    BY DEF DataInv, RoomOK
  <1> QED BY <1>1 DEF PdsWrites

\* What a job names from now on was released.
LEMMA JobsKept ==
  ASSUME ClockInv, DataInv, [Next]_vars
  PROVE  JobsOK'
  <1>1. /\ JobsOK /\ ListsOK /\ PlanOK /\ DOMAIN job = Jobs
        /\ Len(released) \in Nat /\ Len(released') \in Nat /\ MaxReleases \in Nat
        /\ Len(released) <= Len(released') /\ Len(released') <= MaxReleases
    BY RoomKept, ActivityAssumption DEF DataInv, ClockInv
  <1>2. Known \subseteq Known' /\ 0 .. Len(released) \subseteq 0 .. Len(released')
    BY <1>1 DEF Known
  <1>3. \/ job' = job /\ released' = released
        \/ \E j \in Jobs : Alone(j) /\ Moves(j)
    BY <1>1, OneMoves DEF Moves
  <1>4. ASSUME NEW j \in Jobs, Alone(j) \/ job' = job,
               \/ job' = job
               \/ job'[j].at \notin {"composing", "writing", "written", "checking"}
               \/ job'[j].at = "checking" /\ job'[j].release \in Known
               \/ job'[j].at = "composing" /\ job'[j].part \in 0 .. MaxReleases
               \/ /\ job'[j].at = "writing" /\ job'[j].part \in 0 .. MaxReleases
                  /\ job'[j].prev \in 0 .. Len(released)
               \/ /\ job'[j].at = "written" /\ job'[j].part \in 0 .. MaxReleases
                  /\ job'[j].release \in Known'
        PROVE  JobsOK'
    <2>1. ASSUME NEW k \in Jobs, job'[k] = job[k]
          PROVE  /\ job'[k].at \in {"written", "checking"} => job'[k].release \in Known'
                 /\ job'[k].at \in {"composing", "writing", "written"} =>
                      job'[k].part \in 0 .. MaxReleases
                 /\ job'[k].at = "writing" => job'[k].prev \in 0 .. Len(released')
      BY <1>1, <1>2, <2>1 DEF JobsOK
    <2>2. CASE job' = job
      BY <2>1, <2>2 DEF JobsOK
    <2>3. CASE job' # job
      <3>1. /\ job'[j].at \in {"written", "checking"} => job'[j].release \in Known'
            /\ job'[j].at \in {"composing", "writing", "written"} =>
                 job'[j].part \in 0 .. MaxReleases
            /\ job'[j].at = "writing" => job'[j].prev \in 0 .. Len(released')
        BY <1>2, <1>4, <2>3
      <3> QED BY <1>4, <2>1, <2>3, <3>1 DEF Alone, JobsOK
    <2> QED BY <2>2, <2>3
  <1>5. ASSUME NEW j \in Jobs, Alone(j), Ends(j)  PROVE JobsOK'
    BY <1>4, <1>5 DEF Ends
  <1>6. ASSUME NEW j \in Jobs, Alone(j), Issues(j)  PROVE JobsOK'
    <2>1. PICK q : BeginIssue(j, q)
      BY <1>6 DEF Issues
    <2>2. \E to : \E part \in {0} \cup ToSet(inService) :
            job' = [job EXCEPT ![j] = [at |-> "composing", to |-> to, part |-> part]]
      BY <2>1 DEF BeginIssue
    <2>3. PICK part \in {0} \cup ToSet(inService) :
            \E to : job' = [job EXCEPT ![j] = [at |-> "composing", to |-> to, part |-> part]]
      BY <2>2
    <2>4. part \in 0 .. MaxReleases
      <3>1. ToSet(inService) \subseteq Release
        BY <1>1 DEF ListsOK, ToSet
      <3> QED BY <1>1, <2>3, <3>1 DEF Release
    <2>5. job'[j].at = "composing" /\ job'[j].part = part
      BY <1>1, <2>3
    <2> QED BY <1>4, <1>6, <2>4, <2>5
  <1>7. ASSUME NEW j \in Jobs, Alone(j), Checks(j)  PROVE JobsOK'
    <2>1. ToSet(pending) \subseteq Known /\ plan.issued \subseteq Known
      BY <1>1 DEF ListsOK, PlanOK, ToSet
    <2> QED BY <1>4, <1>7, <2>1 DEF Checks
  <1>8. ASSUME NEW j \in Jobs, Alone(j), Compose(j)  PROVE JobsOK'
    <2>1. /\ job'[j].at = "writing" /\ job'[j].part = job[j].part
          /\ job'[j].prev = IF job[j].part = 0 THEN 0 ELSE parts[job[j].part].newest
      BY <1>1, <1>8 DEF Compose
    <2>2. job[j].part \in 0 .. MaxReleases
      BY <1>1, <1>8 DEF Compose, JobsOK
    <2>3. job'[j].prev \in 0 .. Len(released)
      BY <1>1, <2>1, <2>2 DEF ListsOK, Release
    <2> QED BY <1>4, <1>8, <2>1, <2>2, <2>3
  <1>9. ASSUME NEW j \in Jobs, Alone(j), PdsWrites(j)  PROVE JobsOK'
    <2>1. /\ job'[j].at = "written" /\ job'[j].part = job[j].part
          /\ job'[j].release = Len(released) + 1
      BY <1>1, <1>9 DEF PdsWrites
    <2>2. job[j].part \in 0 .. MaxReleases
      BY <1>1, <1>9 DEF PdsWrites, JobsOK
    <2>3. Len(released) + 1 \in Known'
      BY <1>1, <1>9, NextNumber DEF Known
    <2> QED BY <1>4, <1>9, <2>1, <2>2, <2>3
  <1>10. CASE job' = job
    <2>1. Seed \in Jobs
      BY DEF Jobs
    <2> QED BY <1>4, <1>10, <2>1
  <1> QED BY <1>3, <1>5, <1>6, <1>7, <1>8, <1>9, <1>10 DEF Moves

\* A set of naturals has a least one.
LEMMA LeastNat ==
  ASSUME NEW T, T \subseteq Nat, T # {}
  PROVE  \E n \in T : \A m \in T : n <= m
  <1> DEFINE R == OpToRel(<, Nat)
  <1>1. IsWellFoundedOn(R, Nat)
    BY NatLessThanWellFounded
  <1> HIDE DEF R
  <1>2. PICK n \in T : \A m \in T : ~(<<m, n>> \in R)
    BY <1>1, WFMin
  <1>3. \A m \in T : ~(m < n)
    BY <1>2 DEF R, OpToRel
  <1> QED BY <1>3

\* What is left of the promises are promises.
LEMMA IssueOwes ==
  ASSUME NEW j, NEW q \in Seq(Orgs), BeginIssue(j, q)
  PROVE  promised' \in Seq(Orgs)
  <1> DEFINE able  == {i \in DOMAIN q : q[i] \in Recipients}
             first == CHOOSE i \in able : \A k \in able : i <= k
  <1>1. promised' = IF able = {} THEN << >> ELSE SubSeq(q, first + 1, Len(q))
    BY DEF BeginIssue
  <1>2. able \subseteq Nat /\ able \subseteq 1 .. Len(q)
    OBVIOUS
  <1>3. ASSUME able # {}  PROVE first \in 1 .. Len(q)
    <2>1. \E i \in able : \A k \in able : i <= k
      <3> HIDE DEF able
      <3> QED BY <1>2, <1>3, LeastNat
    <2> HIDE DEF able
    <2> QED BY <1>2, <2>1
  <1> HIDE DEF able, first
  <1>4. ASSUME first \in 1 .. Len(q)  PROVE SubSeq(q, first + 1, Len(q)) \in Seq(Orgs)
    BY <1>4
  <1> QED BY <1>1, <1>3, <1>4

\* Promises are to organizations.
LEMMA PromisesKept ==
  ASSUME ListsOK, [Next]_vars
  PROVE  promised' \in Seq(Orgs)
  <1>1. promised \in Seq(Orgs)
    BY DEF ListsOK
  <1>2. ASSUME NEW v \in Viewers, ViewerJoined(v)  PROVE promised' \in Seq(Orgs)
    <2>1. ActingAs[v] \in Orgs \cup {Nobody}
      BY ActivityAssumption
    <2>2. Promise(ActingAs[v]) \in Seq(Orgs)
      BY <1>1, <2>1 DEF Promise
    <2>3. promised' = Promise(ActingAs[v]) \/ BeginIssue(Seed, Promise(ActingAs[v]))
      BY <1>2 DEF ViewerJoined
    <2> QED BY <2>2, <2>3, IssueOwes
  <1>3. ASSUME NEW t \in Timers, Tick(t)  PROVE promised' \in Seq(Orgs)
    <2>1. promised' = promised \/ BeginIssue(t, promised)
      BY <1>3 DEF Tick
    <2> QED BY <1>1, <2>1, IssueOwes
  <1>4. CASE SeedNext
    <2>1. promised' = promised \/ BeginIssue(Seed, promised)
      BY <1>4 DEF SeedNext
    <2> QED BY <1>1, <2>1, IssueOwes
  <1>5. \/ promised' = promised
        \/ \E v \in Viewers : ViewerJoined(v)
        \/ \E t \in Timers : Tick(t)
        \/ SeedNext
    BY DEF Next, vars, stock, Visitor, Timeout, Advance, SeedRuns, Ask, CloseEarly,
           ViewerLeft, PostCheck, ClearArrival, CheckPublished, CheckRefused, TickAtBound,
           Compose, PdsWrites, Written, Checked, WriteFails, Rest, SeedDone
  <1> QED BY <1>1, <1>2, <1>3, <1>4, <1>5

\* A list that is capped is no longer than its cap.
LEMMA CappedFits ==
  ASSUME NEW S, NEW s \in Seq(S), NEW e \in S, NEW cap \in Nat \ {0}, Len(s) <= cap
  PROVE  /\ Capped(Append(s, e), cap) \in Seq(S)
         /\ Len(Capped(Append(s, e), cap)) <= cap
         /\ ToSet(Capped(Append(s, e), cap)) \subseteq ToSet(s) \cup {e}
  <1> DEFINE w == Append(s, e)
  <1>1. w \in Seq(S) /\ Len(w) = Len(s) + 1 /\ Len(s) \in Nat /\ w # << >>
    OBVIOUS
  <1>2. \A i \in 1 .. Len(w) : w[i] \in ToSet(s) \cup {e}
    BY DEF ToSet
  <1> HIDE DEF w
  <1>3. CASE Len(w) > cap
    <2>1. /\ Tail(w) \in Seq(S) /\ Len(Tail(w)) = Len(s)
          /\ \A i \in 1 .. Len(Tail(w)) : Tail(w)[i] = w[i + 1]
      BY <1>1
    <2>2. \A i \in 1 .. Len(Tail(w)) : Tail(w)[i] \in ToSet(s) \cup {e}
      BY <1>1, <1>2, <2>1
    <2>3. Capped(w, cap) = Tail(w)
      BY <1>3 DEF Capped
    <2>4. DOMAIN Tail(w) = 1 .. Len(Tail(w))
      BY <2>1
    <2>5. ToSet(Capped(w, cap)) \subseteq ToSet(s) \cup {e}
      <3>1. ToSet(Capped(w, cap)) = {Tail(w)[i] : i \in 1 .. Len(Tail(w))}
        BY <2>3, <2>4 DEF ToSet
      <3> QED BY <2>2, <3>1
    <2> QED BY <2>1, <2>3, <2>5 DEF w
  <1>4. CASE ~(Len(w) > cap)
    <2>1. Capped(w, cap) = w /\ Len(w) <= cap /\ DOMAIN w = 1 .. Len(w)
      BY <1>1, <1>4 DEF Capped
    <2>2. ToSet(Capped(w, cap)) \subseteq ToSet(s) \cup {e}
      BY <1>2, <2>1 DEF ToSet
    <2> QED BY <1>1, <2>1, <2>2 DEF w
  <1> QED BY <1>3, <1>4

\* A release that is written has the next number, and room.
LEMMA WrittenNext ==
  ASSUME ClockInv, DataInv, [Next]_vars, NEW j \in Jobs, PdsWrites(j)
  PROVE  /\ Len(released') = Len(released) + 1
         /\ Len(released) + 1 \in Release /\ Len(released) + 1 \notin Known
         /\ Known' = Known \cup {Len(released) + 1}
         /\ job[j].at = "writing" /\ job[j].part \in 0 .. MaxReleases
  <1>1. /\ Len(released) \in Nat /\ Len(released') \in Nat /\ Len(released') <= MaxReleases
        /\ MaxReleases \in Nat
    BY RoomKept, ActivityAssumption
  <1>2. job[j].at = "writing"
    BY DEF PdsWrites
  <1>3. job[j].part \in 0 .. MaxReleases
    BY <1>2 DEF DataInv, JobsOK
  <1>4. Len(released') = Len(released) + 1
    BY NextNumber
  <1> QED BY <1>1, <1>2, <1>3, <1>4 DEF Release, Known

\* Releases are as many as there is room for.
LEMMA KnownFits ==
  ASSUME ClockInv, DataInv
  PROVE  /\ Len(released) \in Nat /\ Len(released) <= MaxReleases /\ MaxReleases \in Nat
         /\ Known \subseteq Release
  <1>1. Len(released) \in Nat /\ Len(released) <= MaxReleases /\ MaxReleases \in Nat
    BY WritingSize, ActivityAssumption, SMTT(30) DEF DataInv, RoomOK
  <1> QED BY <1>1 DEF Known, Release

\* A release whose writer is answered is there, and no other with it.
LEMMA AnsweredThere ==
  ASSUME ClockInv, DataInv, NEW j \in Jobs, Written(j)
  PROVE  /\ Len(released') = Len(released) /\ Known' = Known
         /\ job[j].release \in Known /\ job[j].release \in Release
         /\ job[j].at = "written" /\ job[j].part \in 0 .. MaxReleases
         /\ \A i \in Known : /\ released'[i].prev = released[i].prev
                             /\ i # job[j].release => released'[i] = released[i]
         /\ released'[job[j].release].told = TRUE
  <1> DEFINE r == job[j].release
  <1>1. /\ released' = [released EXCEPT ![r].told = TRUE]
        /\ job[j].at = "written"
    BY DEF Written
  <1>2. r \in Known /\ job[j].part \in 0 .. MaxReleases
    BY <1>1 DEF DataInv, JobsOK
  <1>3. released \in Seq([prev : 0 .. MaxReleases, told : BOOLEAN]) /\ Len(released) \in Nat
    BY DEF DataInv, RoomOK
  <1>4. Known \subseteq Release
    BY KnownFits
  <1> HIDE DEF r
  <1>5. Len(released') = Len(released) /\ Known' = Known
    BY <1>1, <1>3 DEF Known
  <1>6. /\ \A i \in Known : /\ released'[i].prev = released[i].prev
                            /\ i # r => released'[i] = released[i]
        /\ released'[r].told = TRUE
    BY <1>1, <1>2, <1>3 DEF Known
  <1> QED BY <1>1, <1>2, <1>4, <1>5, <1>6 DEF r

\* What was released stays released.
LEMMA KnownGrows ==
  ASSUME ClockInv, DataInv, [Next]_vars
  PROVE  Known \subseteq Known' /\ Known' \subseteq Release
  BY RoomKept, ActivityAssumption DEF Known, Release

\* The queue names what was released.
LEMMA QueueKept ==
  ASSUME ClockInv, DataInv, [Next]_vars
  PROVE  pending' \in Seq(Known') /\ Len(pending') <= PendingCap
  <1>1. pending \in Seq(Known) /\ Len(pending) <= PendingCap /\ PendingCap \in Nat \ {0}
    BY ActivityAssumption DEF DataInv, ListsOK
  <1>2. pending \in Seq(Known')
    BY <1>1, KnownGrows
  <1>3. ASSUME NEW j, NEW r, BeginCheck(j, r)
        PROVE  pending' \in Seq(Known') /\ Len(pending') <= PendingCap
    <2>1. pending' = Without(pending, r)
      BY <1>3 DEF BeginCheck
    <2>2. Without(pending, r) \in Seq(Known') /\ Len(Without(pending, r)) <= Len(pending)
      BY <1>2, WithoutLeaves
    <2> QED BY <1>1, <2>1, <2>2
  <1>4. ASSUME NEW j \in Jobs, Written(j)
        PROVE  pending' \in Seq(Known') /\ Len(pending') <= PendingCap
    <2>1. \/ pending' = pending
          \/ pending' = Capped(Append(pending, job[j].release), PendingCap)
      BY <1>4 DEF Written
    <2>2. job[j].release \in Known'
      BY <1>4, AnsweredThere
    <2>3. /\ Capped(Append(pending, job[j].release), PendingCap) \in Seq(Known')
          /\ Len(Capped(Append(pending, job[j].release), PendingCap)) <= PendingCap
      <3> DEFINE K == Known'
                 e == job[j].release
      <3>1. pending \in Seq(K) /\ e \in K
        BY <1>2, <2>2
      <3>2. Len(pending) <= PendingCap /\ PendingCap \in Nat \ {0}
        BY <1>1
      <3> HIDE DEF K, e
      <3>3. /\ Capped(Append(pending, e), PendingCap) \in Seq(K)
            /\ Len(Capped(Append(pending, e), PendingCap)) <= PendingCap
        BY <3>1, <3>2, CappedFits
      <3> QED BY <3>3 DEF K, e
    <2> HIDE DEF Known, Capped
    <2> QED BY <1>1, <1>2, <2>1, <2>3
  <1>5. \/ pending' = pending
        \/ \E j, r : BeginCheck(j, r)
        \/ \E j \in Jobs : Written(j)
    BY DEF Next, vars, stock, Visitor, Timeout, Advance, SeedRuns, Ask, CloseEarly,
           ViewerLeft, PostCheck, ClearArrival, CheckPublished, CheckRefused, ViewerJoined,
           Tick, TickAtBound, Compose, PdsWrites, Checked, WriteFails, Rest, SeedNext, SeedDone
  <1> QED BY <1>1, <1>2, <1>3, <1>4, <1>5

\* A part has a newest release, and is in service once.
LEMMA PartsKept ==
  ASSUME ClockInv, DataInv, [Next]_vars
  PROVE  /\ inService' \in Seq(Release) /\ Len(inService') <= InServiceCap
         /\ parts' \in [Release -> [newest : 0 .. Len(released'), visits : Nat]]
  <1> DEFINE Part(n) == [newest : 0 .. n, visits : Nat]
  <1>1. /\ inService \in Seq(Release) /\ Len(inService) <= InServiceCap
        /\ InServiceCap \in Nat \ {0}
        /\ parts \in [Release -> Part(Len(released))]
    BY ActivityAssumption DEF DataInv, ListsOK
  <1>2. parts \in [Release -> Part(Len(released'))]
    <2>1. Part(Len(released)) \subseteq Part(Len(released'))
      BY RoomKept
    <2> HIDE DEF Part
    <2> QED BY <1>1, <2>1
  <1>3. ASSUME NEW j \in Jobs, Written(j)
        PROVE  /\ inService' \in Seq(Release) /\ Len(inService') <= InServiceCap
               /\ parts' \in [Release -> Part(Len(released'))]
    <2> DEFINE r == job[j].release
               p == job[j].part
    <2>1. /\ r \in 1 .. Len(released') /\ Len(released') \in Nat
          /\ r \in Release /\ p \in 0 .. MaxReleases
          /\ Serviced(p, r) /\ MaxReleases \in Nat
      BY <1>3, AnsweredThere, RoomKept, ActivityAssumption DEF Written, Known
    <2> HIDE DEF r, p
    <2>2. CASE p = 0
      <3>1. /\ parts' = [parts EXCEPT ![r] = [newest |-> r, visits |-> 1]]
            /\ inService' = Capped(Append(inService, r), InServiceCap)
        BY <2>1, <2>2 DEF Serviced
      <3>2. [newest |-> r, visits |-> 1] \in Part(Len(released'))
        BY <2>1 DEF Release
      <3>3. inService' \in Seq(Release) /\ Len(inService') <= InServiceCap
        BY <1>1, <2>1, <3>1, CappedFits
      <3> HIDE DEF Part
      <3> QED BY <1>2, <2>1, <3>1, <3>2, <3>3
    <2>3. CASE p # 0
      <3>1. /\ parts' = [parts EXCEPT ![p] = [newest |-> r, visits |-> parts[p].visits + 1]]
            /\ inService' = Without(inService, p) \/ inService' = inService
        BY <2>1, <2>3 DEF Serviced
      <3>2. p \in Release
        BY <2>1, <2>3 DEF Release
      <3>3. [newest |-> r, visits |-> parts[p].visits + 1] \in Part(Len(released'))
        BY <1>1, <2>1, <3>2 DEF Release
      <3>4. inService' \in Seq(Release) /\ Len(inService') <= InServiceCap
        BY <1>1, <2>1, <3>1, WithoutLeaves
      <3> HIDE DEF Part
      <3> QED BY <1>2, <2>1, <3>1, <3>2, <3>3, <3>4
    <2> QED BY <2>2, <2>3
  <1>4. \/ UNCHANGED <<inService, parts>>
        \/ \E j \in Jobs : Written(j)
    BY DEF Next, vars, stock, Visitor, Timeout, Advance, SeedRuns, Ask, CloseEarly,
           ViewerLeft, PostCheck, ClearArrival, CheckPublished, CheckRefused, ViewerJoined,
           Tick, TickAtBound, Compose, PdsWrites, Checked, WriteFails, Rest, SeedNext, SeedDone
  <1> HIDE DEF Part
  <1>5. /\ inService' \in Seq(Release) /\ Len(inService') <= InServiceCap
        /\ parts' \in [Release -> Part(Len(released'))]
    BY <1>1, <1>2, <1>3, <1>4
  <1> QED BY <1>5 DEF Part

\* The backlog's plan names what it issued, and is there only while it is written.
LEMMA PlanKept ==
  ASSUME ClockInv, DataInv, [Next]_vars
  PROVE  PlanOK'
  <1>1. PlanOK /\ BacklogSize \in Nat /\ Seed \in Jobs /\ Seed \notin Timers /\ DOMAIN job = Jobs
    BY ActivityAssumption DEF DataInv, Jobs, Seed, ClockInv
  <1>2. Known \subseteq Known'
    BY KnownGrows
  <1>3. plan \in [left : 0 .. BacklogSize, issued : SUBSET Known']
    BY <1>1, <1>2 DEF PlanOK
  <1>4. ASSUME NEW v \in Viewers, ViewerJoined(v), plan' # plan  PROVE PlanOK'
    <2>1. BacklogSize > 0 /\ plan' = [left |-> BacklogSize - 1, issued |-> {}]
      BY <1>4 DEF ViewerJoined, work
    <2> QED BY <1>1, <2>1 DEF PlanOK
  <1>5. CASE SeedNext
    <2>1. CASE BeginIssue(Seed, promised) /\ plan.left > 0 /\ plan' = [plan EXCEPT !.left = @ - 1]
      <3>1. job'[Seed] # Idle
        BY <1>1, <2>1, IssueIsWork
      <3> QED BY <1>1, <1>3, <2>1, <3>1 DEF PlanOK
    <2>2. ASSUME NEW r \in plan.issued, BeginCheck(Seed, r),
                 plan' = [plan EXCEPT !.issued = @ \ {r}]
          PROVE  PlanOK'
      <3>1. job'[Seed] # Idle
        BY <1>1, <2>2, CheckIsWork
      <3> QED BY <1>1, <1>3, <2>2, <3>1 DEF PlanOK
    <2> QED BY <1>5, <2>1, <2>2 DEF SeedNext
  <1>6. CASE SeedDone
    <2>1. plan' = [left |-> 0, issued |-> {}]
      BY <1>6 DEF SeedDone
    <2> QED BY <1>1, <2>1 DEF PlanOK
  <1>7. ASSUME NEW j \in Jobs, Written(j)  PROVE PlanOK'
    <2> DEFINE r == job[j].release
    <2>1. r \in Known'
      BY <1>7, AnsweredThere
    <2>2. plan' = plan \/ (j = Seed /\ plan' = [plan EXCEPT !.issued = @ \cup {r}])
      BY <1>7 DEF Written
    <2>3. /\ j = Seed => job'[Seed] # Idle
          /\ j # Seed => job'[Seed] = job[Seed]
      BY <1>1, <1>7 DEF Written, Finish, Planned, Idle
    <2> HIDE DEF r
    <2>4. plan' \in [left : 0 .. BacklogSize, issued : SUBSET Known']
      BY <1>3, <2>1, <2>2
    <2> QED BY <1>1, <2>2, <2>3, <2>4 DEF PlanOK
  <1>8. ASSUME NEW j \in Jobs, Checked(j) \/ WriteFails(j) \/ Rest(j)
        PROVE  plan' = plan /\ (job'[Seed] # Idle \/ job'[Seed] = job[Seed])
    <2>1. Finish(j) /\ plan' = plan
      BY <1>8 DEF Checked, WriteFails, Rest
    <2> QED BY <1>1, <2>1 DEF Finish, Planned, Idle
  <1>9. ASSUME NEW j \in Jobs, Compose(j) \/ PdsWrites(j)
        PROVE  plan' = plan /\ (job'[Seed] # Idle \/ job'[Seed] = job[Seed])
    BY <1>1, <1>9 DEF Compose, PdsWrites, Idle
  <1>10. ASSUME NEW t \in Timers, Tick(t) \/ TickAtBound(t)
         PROVE  plan' = plan /\ job'[Seed] = job[Seed]
    <2>1. plan' = plan /\ t # Seed /\ t \in Jobs
      BY <1>1, <1>10 DEF Tick, TickAtBound, Jobs
    <2>2. CASE Tick(t)
      <3>1. (\E r : BeginCheck(t, r)) \/ (\E q : BeginIssue(t, q))
        BY <2>2 DEF Tick
      <3> QED BY <1>1, <2>1, <3>1, CheckIsWork, IssueIsWork
    <2>3. CASE TickAtBound(t)
      BY <1>1, <2>1, <2>3 DEF TickAtBound
    <2> QED BY <1>10, <2>1, <2>2, <2>3
  <1>11. ASSUME plan' = plan, job'[Seed] # Idle \/ job'[Seed] = job[Seed]  PROVE PlanOK'
    BY <1>1, <1>3, <1>11 DEF PlanOK
  <1>12. ASSUME NEW v \in Viewers, ViewerJoined(v), plan' = plan
         PROVE  job'[Seed] # Idle \/ job'[Seed] = job[Seed]
    <2>1. job' = job \/ \E q : BeginIssue(Seed, q)
      BY <1>12 DEF ViewerJoined, work
    <2> QED BY <1>1, <2>1, IssueIsWork
  <1>13. ASSUME NEW v \in Viewers, NEW r, \/ Ask(v) \/ CloseEarly(v) \/ ViewerLeft(v)
                                          \/ PostCheck(v, r) \/ ClearArrival(v, r)
                                          \/ CheckPublished(v) \/ CheckRefused(v)
         PROVE  plan' = plan /\ job' = job
    BY <1>13 DEF Ask, CloseEarly, ViewerLeft, PostCheck, ClearArrival, CheckPublished,
                 CheckRefused, work
  <1>14. CASE UNCHANGED vars
    BY <1>11, <1>14 DEF vars, work
  <1> QED
    BY <1>4, <1>5, <1>6, <1>7, <1>8, <1>9, <1>10, <1>11, <1>12, <1>13, <1>14
    DEF Next, Visitor, Timeout, Advance, SeedRuns

\* A part handed over waits at most at its own organization, within the cap.
LEMMA HandOverFits ==
  ASSUME NEW S, NEW d \in [Orgs -> Seq(S)], \A h \in Orgs : Len(d[h]) <= DockCap,
         NEW org, NEW r \in S
  PROVE  /\ HandOver(d, org, r) \in [Orgs -> Seq(S)]
         /\ \A h \in Orgs : /\ Len(HandOver(d, org, r)[h]) <= DockCap
                            /\ ToSet(HandOver(d, org, r)[h]) \subseteq ToSet(d[h]) \cup {r}
  <1> DEFINE list == <<r>> \o d[org]
             n    == IF Len(list) > DockCap THEN DockCap ELSE Len(list)
             w    == SubSeq(list, 1, n)
  <1>1. DockCap \in Nat \ {0}
    BY ActivityAssumption
  <1>2. HandOver(d, org, r) = d \/ HandOver(d, org, r) = [d EXCEPT ![org] = w]
    BY DEF HandOver
  <1>3. ASSUME org \in Orgs
        PROVE  w \in Seq(S) /\ Len(w) <= DockCap /\ ToSet(w) \subseteq ToSet(d[org]) \cup {r}
    <2>1. /\ d[org] \in Seq(S) /\ Len(d[org]) \in Nat
          /\ list \in Seq(S) /\ Len(list) = Len(d[org]) + 1
          /\ \A i \in 1 .. Len(list) : list[i] = r \/ (i - 1 \in 1 .. Len(d[org])
                                                       /\ list[i] = d[org][i - 1])
      BY <1>3
    <2>2. \A i \in 1 .. Len(list) : list[i] \in ToSet(d[org]) \cup {r}
      BY <2>1 DEF ToSet
    <2>3. n \in 0 .. Len(list) /\ n <= DockCap
      BY <1>1, <2>1
    <2> HIDE DEF n, list
    <2>4. /\ w \in Seq(S) /\ Len(w) = n /\ DOMAIN w = 1 .. n
          /\ \A i \in 1 .. n : w[i] = list[i]
      BY <2>1, <2>3
    <2>5. \A i \in 1 .. n : w[i] \in ToSet(d[org]) \cup {r}
      BY <2>1, <2>2, <2>3, <2>4
    <2>6. ToSet(w) = {w[i] : i \in 1 .. n}
      BY <2>4 DEF ToSet
    <2> QED BY <2>3, <2>4, <2>5, <2>6
  <1> HIDE DEF w
  <1>4. HandOver(d, org, r) \in [Orgs -> Seq(S)]
    BY <1>2, <1>3
  <1>5. ASSUME NEW h \in Orgs
        PROVE  HandOver(d, org, r)[h] = d[h] \/ (h = org /\ HandOver(d, org, r)[h] = w)
    BY <1>2
  <1> QED BY <1>3, <1>4, <1>5

\* A part that is settled waits nowhere, and nothing else has gone.
LEMMA SettleFits ==
  ASSUME NEW S, NEW d \in [Orgs -> Seq(S)], \A h \in Orgs : Len(d[h]) <= DockCap, NEW r
  PROVE  /\ Settle(d, r) \in [Orgs -> Seq(S)]
         /\ \A h \in Orgs : /\ Len(Settle(d, r)[h]) <= DockCap
                            /\ ToSet(Settle(d, r)[h]) = ToSet(d[h]) \ {r}
  <1>1. DockCap \in Nat
    BY ActivityAssumption
  <1>2. \A h \in Orgs : /\ Without(d[h], r) \in Seq(S) /\ Len(Without(d[h], r)) <= Len(d[h])
                        /\ ToSet(Without(d[h], r)) = ToSet(d[h]) \ {r}
    BY WithoutLeaves
  <1>3. Settle(d, r) = [h \in Orgs |-> Without(d[h], r)]
    BY DEF Settle
  <1>4. \A h \in Orgs : Len(d[h]) \in Nat /\ Len(Without(d[h], r)) \in Nat
    BY <1>2
  <1> QED BY <1>1, <1>2, <1>3, <1>4

\* What waits was released.
LEMMA DockKept ==
  ASSUME ClockInv, DataInv, [Next]_vars
  PROVE  dock' \in [Orgs -> Seq(Known')] /\ \A h \in Orgs : Len(dock'[h]) <= DockCap
  <1>1. dock \in [Orgs -> Seq(Known)] /\ \A h \in Orgs : Len(dock[h]) <= DockCap
    BY DEF DataInv, FloorOK
  <1>2. dock \in [Orgs -> Seq(Known')]
    <2>1. Seq(Known) \subseteq Seq(Known')
      BY KnownGrows
    <2> QED BY <1>1, <2>1
  <1>3. ASSUME NEW r, dock' = Settle(dock, r)
        PROVE  dock' \in [Orgs -> Seq(Known')] /\ \A h \in Orgs : Len(dock'[h]) <= DockCap
    BY <1>1, <1>2, <1>3, SettleFits
  <1>4. ASSUME NEW j \in Jobs, Written(j)
        PROVE  dock' \in [Orgs -> Seq(Known')] /\ \A h \in Orgs : Len(dock'[h]) <= DockCap
    <2>1. dock' = HandOver(dock, job[j].to, job[j].release)
      BY <1>4 DEF Written
    <2>2. job[j].release \in Known'
      BY <1>4, AnsweredThere
    <2> QED BY <1>1, <1>2, <2>1, <2>2, HandOverFits
  <1>5. \/ dock' = dock
        \/ \E r : dock' = Settle(dock, r)
        \/ \E j \in Jobs : Written(j)
    BY DEF Next, vars, floor, Visitor, Timeout, Advance, SeedRuns, Ask, CloseEarly,
           ViewerLeft, PostCheck, ClearArrival, CheckPublished, CheckRefused, ViewerJoined,
           Tick, TickAtBound, Compose, PdsWrites, Checked, WriteFails, Rest, SeedNext, SeedDone
  <1> QED BY <1>1, <1>2, <1>3, <1>4, <1>5

\* What is being published, and what was dealt with or checked, was released.
LEMMA SaidKept ==
  ASSUME ClockInv, DataInv, [Next]_vars
  PROVE  /\ desk' \in [Viewers -> 0 .. Len(released')]
         /\ dealt' \subseteq Known'
         /\ checks' \in [Release -> Nat]
         /\ \A r \in Release : checks'[r] # 0 => r \in Known'
  <1>1. /\ FloorOK /\ JobsOK /\ Known \subseteq Known' /\ Known \subseteq Release
        /\ 0 .. Len(released) \subseteq 0 .. Len(released')
        /\ Len(released) \in Nat
    BY RoomKept, KnownGrows, ActivityAssumption DEF DataInv, Known, Release
  <1>2. desk \in [Viewers -> 0 .. Len(released')]
    BY <1>1 DEF FloorOK
  <1>3. desk' \in [Viewers -> 0 .. Len(released')]
    <2>1. ASSUME NEW v \in Viewers, NEW r \in DOMAIN released, PostCheck(v, r)
          PROVE  desk' \in [Viewers -> 0 .. Len(released')]
      <3>1. \E R : released \in Seq(R)
        BY DEF DataInv, RoomOK
      <3>2. r \in 0 .. Len(released)
        BY <3>1
      <3>3. desk' = [desk EXCEPT ![v] = r]
        BY <2>1 DEF PostCheck
      <3> QED BY <1>1, <1>2, <3>2, <3>3
    <2>2. ASSUME NEW v \in Viewers, CheckPublished(v) \/ CheckRefused(v)
          PROVE  desk' \in [Viewers -> 0 .. Len(released')]
      <3>1. desk' = [desk EXCEPT ![v] = 0]
        BY <2>2 DEF CheckPublished, CheckRefused
      <3>2. 0 \in 0 .. Len(released')
        BY RoomKept
      <3> QED BY <1>2, <3>1, <3>2
    <2>3. \/ desk' = desk
          \/ \E v \in Viewers, r \in DOMAIN released : PostCheck(v, r)
          \/ \E v \in Viewers : CheckPublished(v) \/ CheckRefused(v)
      BY DEF Next, vars, floor, Visitor, Timeout, Advance, SeedRuns, Ask, CloseEarly,
             ViewerLeft, ClearArrival, ViewerJoined, Tick, TickAtBound, Compose, PdsWrites, Written,
             Checked, WriteFails, Rest, SeedNext, SeedDone
    <2> QED BY <1>2, <2>1, <2>2, <2>3
  <1>4. dealt' \subseteq Known'
    <2>1. ASSUME NEW v \in Viewers, CheckPublished(v)  PROVE dealt' \subseteq Known'
      <3>1. desk[v] # 0 /\ dealt' = dealt \cup {desk[v]}
        BY <2>1 DEF CheckPublished, DealWith
      <3>2. desk[v] \in Known
        BY <1>1, <3>1 DEF FloorOK, Known
      <3> QED BY <1>1, <3>1, <3>2 DEF FloorOK
    <2>2. ASSUME NEW j \in Jobs, Checked(j)  PROVE dealt' \subseteq Known'
      <3>1. job[j].at = "checking" /\ dealt' = dealt \cup {job[j].release}
        BY <2>2 DEF Checked, DealWith
      <3> QED BY <1>1, <3>1 DEF FloorOK, JobsOK
    <2>3. \/ dealt' = dealt
          \/ \E v \in Viewers : CheckPublished(v)
          \/ \E j \in Jobs : Checked(j)
      BY DEF Next, vars, world, said, Visitor, Timeout, Advance, SeedRuns, Ask, CloseEarly,
             ViewerLeft, PostCheck, ClearArrival, CheckRefused, ViewerJoined, Tick,
             TickAtBound, Compose, PdsWrites, Written, WriteFails, Rest, SeedNext, SeedDone
    <2> QED BY <1>1, <2>1, <2>2, <2>3 DEF FloorOK
  <1>5. \/ checks' = checks
        \/ \E j \in Jobs : /\ job[j].at = "checking"
                           /\ checks' = [checks EXCEPT ![job[j].release] = @ + 1]
    BY DEF Next, vars, world, said, Visitor, Timeout, Advance, SeedRuns, Ask, CloseEarly,
           ViewerLeft, PostCheck, ClearArrival, CheckPublished, CheckRefused, ViewerJoined,
           Tick, TickAtBound, Compose, PdsWrites, Written, Checked, WriteFails, Rest, SeedNext, SeedDone
  <1>6. ASSUME NEW j \in Jobs, job[j].at = "checking",
               checks' = [checks EXCEPT ![job[j].release] = @ + 1]
        PROVE  /\ checks' \in [Release -> Nat]
               /\ \A r \in Release : checks'[r] # 0 => r \in Known'
    <2>1. job[j].release \in Known /\ checks \in [Release -> Nat]
      BY <1>1, <1>6 DEF JobsOK, FloorOK
    <2> QED BY <1>1, <1>6, <2>1 DEF FloorOK
  <1> QED BY <1>1, <1>3, <1>4, <1>5, <1>6 DEF FloorOK

\* Every step keeps what the state names.
LEMMA DataSteps ==
  ASSUME ClockInv, DataInv, [Next]_vars
  PROVE  DataInv'
  <1>1. {seeding, unwatched}' \subseteq BOOLEAN
    <2>1. seeding' = seeding \/ seeding' \in BOOLEAN
      BY DEF Next, vars, clock, Visitor, Timeout, Advance, SeedRuns, Ask, CloseEarly,
             ViewerLeft, Stop, PostCheck, ClearArrival, CheckPublished, CheckRefused,
             ViewerJoined, Tick, TickAtBound, Compose, PdsWrites, Written, Checked, WriteFails, Rest,
             SeedNext, SeedDone
    <2>2. unwatched' = unwatched \/ unwatched' \in BOOLEAN
      BY DEF Next, vars, Visitor, Timeout, Advance, SeedRuns, Ask, CloseEarly, ViewerLeft,
             PostCheck, ClearArrival, CheckPublished, CheckRefused, ViewerJoined, Tick,
             TickAtBound, Compose, PdsWrites, Written, Checked, WriteFails, Rest, SeedNext, SeedDone
    <2> QED BY <2>1, <2>2 DEF DataInv
  <1>2. RoomOK' /\ JobsOK' /\ PlanOK'
    BY RoomKept, JobsKept, PlanKept
  <1>3. ListsOK'
    <2>1. promised' \in Seq(Orgs)
      BY PromisesKept DEF DataInv
    <2> QED BY <2>1, QueueKept, PartsKept DEF ListsOK
  <1>4. FloorOK'
    BY DockKept, SaidKept DEF FloorOK
  <1> QED BY <1>1, <1>2, <1>3, <1>4 DEF DataInv

\* At first nothing is named.
LEMMA DataStarts == Init => DataInv
  <1> SUFFICES ASSUME Init  PROVE DataInv
    OBVIOUS
  <1>1. Writing = {} /\ \A j \in Jobs : job[j].at = "idle"
    BY DEF Init, Writing, Idle
  <1>2. Cardinality(Writing) = 0
    BY <1>1, FS_EmptySet
  <1>3. /\ MaxReleases \in Nat /\ BacklogSize \in Nat
        /\ {PendingCap, InServiceCap, DockCap} \subseteq Nat
    BY ActivityAssumption
  <1>4. released = << >> /\ Len(released) = 0 /\ << >> \in Seq([prev : 0 .. MaxReleases, told : BOOLEAN])
    BY DEF Init
  <1>5. RoomOK
    BY <1>2, <1>3, <1>4 DEF RoomOK, Known
  <1>6. JobsOK
    BY <1>1 DEF JobsOK
  <1>7. ListsOK
    BY <1>3, <1>4 DEF Init, ListsOK
  <1>8. PlanOK
    BY <1>3 DEF Init, PlanOK
  <1>9. FloorOK
    BY <1>3, <1>4 DEF Init, FloorOK
  <1> QED BY <1>5, <1>6, <1>7, <1>8, <1>9 DEF Init, DataInv

\* Type correctness.
THEOREM TypeCorrect == Spec => []TypeOK
  <1>1. ClockInv /\ DataInv => TypeOK
    <2> SUFFICES ASSUME ClockInv, DataInv  PROVE TypeOK
      OBVIOUS
    <2>1. Len(released) \in Nat /\ MaxReleases \in Nat /\ Len(released) <= MaxReleases
      BY KnownFits
    <2>2. Known \subseteq Release /\ 0 .. Len(released) \subseteq 0 .. MaxReleases
      BY <2>1 DEF Known, Release
    <2>3. /\ promised \in Seq(Orgs) /\ pending \in Seq(Release) /\ inService \in Seq(Release)
          /\ Len(pending) <= PendingCap /\ Len(inService) <= InServiceCap
      BY <2>2 DEF DataInv, ListsOK
    <2>4. parts \in [Release -> [newest : 0 .. MaxReleases, visits : Nat]]
      <3>1. [newest : 0 .. Len(released), visits : Nat] \subseteq
              [newest : 0 .. MaxReleases, visits : Nat]
        BY <2>2
      <3> QED BY <3>1 DEF DataInv, ListsOK
    <2>5. plan.left \in 0 .. BacklogSize /\ plan.issued \subseteq Release
      BY <2>2 DEF DataInv, PlanOK
    <2>6. \A h \in Orgs : dock[h] \in Seq(Release) /\ Len(dock[h]) <= DockCap
      BY <2>2 DEF DataInv, FloorOK
    <2>7. desk \in [Viewers -> 0 .. MaxReleases]
      BY <2>2 DEF DataInv, FloorOK
    <2>8. {seeded, seeding, unwatched} \subseteq BOOLEAN
      BY DEF DataInv, ClockInv, ChainsOK
    <2> QED BY <2>1, <2>3, <2>4, <2>5, <2>6, <2>7, <2>8 DEF TypeOK, ClockInv, TimerOK
  <1> QED BY <1>1, ClockStarts, ClockSteps, DataStarts, DataSteps, PTL DEF Spec

----------------------------------------------------------------------------
(* Written, and not answered yet.                                          *)

\* The releases the generator means to have checked.
Due == ToSet(pending) \cup plan.issued

\* Release r is no part's newest, on no dock and in no list, and the generator
\* neither checks it nor has checked it.
Away(r) ==
  /\ \A p \in Release : parts[p].newest # r
  /\ \A h \in Orgs : r \notin ToSet(dock[h])
  /\ r \notin Due
  /\ checks[r] = 0
  /\ \A k \in Jobs : job[k].at = "checking" => job[k].release # r

\* A release the PDS has written is nowhere else before its writer is answered, and
\* has one writer.
AwayInv ==
  \A j \in Jobs : job[j].at = "written" =>
    /\ Away(job[j].release)
    /\ \A k \in Jobs : job[k].at = "written" /\ job[k].release = job[j].release => k = j

\* What becomes of jobs in a step in which the PDS writes nothing.
LEMMA NoneWritten ==
  ASSUME ClockInv, DataInv, [Next]_vars, \A j \in Jobs : ~PdsWrites(j)
  PROVE  /\ \A k \in Jobs : job'[k].at = "written" => job'[k] = job[k]
         /\ \A k \in Jobs : job'[k].at = "checking" =>
              job'[k] = job[k] \/ job'[k].release \in Due
  <1>1. \/ job' = job
        \/ \E j \in Jobs : Alone(j) /\ Moves(j)
    BY OneMoves DEF DataInv
  <1>2. ASSUME NEW j \in Jobs, Alone(j), Moves(j)
        PROVE  /\ job'[j].at # "written"
               /\ job'[j].at = "checking" => job'[j].release \in Due
    <2>1. DOMAIN job = Jobs
      BY DEF ClockInv
    <2>2. CASE Ends(j)
      BY <2>2 DEF Ends
    <2>3. CASE Issues(j)
      <3>1. job'[j].at = "composing"
        BY <2>1, <2>3, IssueIsWork DEF Issues
      <3> QED BY <3>1
    <2>4. CASE Checks(j)
      BY <2>4 DEF Checks, Due
    <2>5. CASE Compose(j)
      BY <2>1, <2>5 DEF Compose
    <2> QED BY <1>2, <2>2, <2>3, <2>4, <2>5 DEF Moves
  <1>3. ASSUME NEW j \in Jobs, Alone(j), Moves(j), NEW k \in Jobs
        PROVE  /\ job'[k].at = "written" => job'[k] = job[k]
               /\ job'[k].at = "checking" => job'[k] = job[k] \/ job'[k].release \in Due
    BY <1>2, <1>3 DEF Alone
  <1> QED BY <1>1, <1>3

\* Only the answer to a writer adds to the docks, the parts and the lists.
LEMMA NoneAnswered ==
  ASSUME ClockInv, DataInv, [Next]_vars, \A j \in Jobs : ~Written(j)
  PROVE  /\ parts' = parts
         /\ \A h \in Orgs : ToSet(dock'[h]) \subseteq ToSet(dock[h])
         /\ Due' \subseteq Due
         /\ \A r \in Release : checks'[r] = checks[r]
              \/ \E k \in Jobs : job[k].at = "checking" /\ job[k].release = r
  <1>1. /\ dock \in [Orgs -> Seq(Known)] /\ \A h \in Orgs : Len(dock[h]) <= DockCap
        /\ pending \in Seq(Known)
        /\ checks \in [Release -> Nat]
        /\ plan \in [left : 0 .. BacklogSize, issued : SUBSET Known]
    BY DEF DataInv, FloorOK, ListsOK, PlanOK
  <1>2. parts' = parts
    BY DEF Next, vars, stock, Visitor, Timeout, Advance, SeedRuns, Ask, CloseEarly,
           ViewerLeft, PostCheck, ClearArrival, CheckPublished, CheckRefused, ViewerJoined,
           Tick, TickAtBound, Compose, PdsWrites, Checked, WriteFails, Rest, SeedNext, SeedDone
  <1>3. \A h \in Orgs : ToSet(dock'[h]) \subseteq ToSet(dock[h])
    <2>1. dock' = dock \/ \E r : dock' = Settle(dock, r)
      BY DEF Next, vars, floor, Visitor, Timeout, Advance, SeedRuns, Ask, CloseEarly,
             ViewerLeft, PostCheck, ClearArrival, CheckPublished, CheckRefused, ViewerJoined,
             Tick, TickAtBound, Compose, PdsWrites, Checked, WriteFails, Rest, SeedNext,
             SeedDone
    <2>2. ASSUME NEW r, dock' = Settle(dock, r)
          PROVE  \A h \in Orgs : ToSet(dock'[h]) \subseteq ToSet(dock[h])
      <3>1. \A h \in Orgs : ToSet(Settle(dock, r)[h]) = ToSet(dock[h]) \ {r}
        BY <1>1, SettleFits, ZenonT(60)
      <3> QED BY <2>2, <3>1
    <2> QED BY <2>1, <2>2
  <1>4. ToSet(pending') \subseteq ToSet(pending)
    <2>1. pending' = pending \/ \E j, r : BeginCheck(j, r)
      BY DEF Next, vars, stock, Visitor, Timeout, Advance, SeedRuns, Ask, CloseEarly,
             ViewerLeft, PostCheck, ClearArrival, CheckPublished, CheckRefused, ViewerJoined,
             Tick, TickAtBound, Compose, PdsWrites, Checked, WriteFails, Rest, SeedNext,
             SeedDone
    <2>2. ASSUME NEW j, NEW r, BeginCheck(j, r)  PROVE ToSet(pending') \subseteq ToSet(pending)
      <3>1. pending' = Without(pending, r)
        BY <2>2 DEF BeginCheck
      <3> QED BY <1>1, <3>1, WithoutLeaves
    <2> QED BY <2>1, <2>2
  <1>5. plan'.issued \subseteq plan.issued
    <2>1. \/ plan' = plan
          \/ plan'.issued = {}
          \/ plan' = [plan EXCEPT !.left = @ - 1]
          \/ \E r : plan' = [plan EXCEPT !.issued = @ \ {r}]
      <3>1. ASSUME NEW v \in Viewers, ViewerJoined(v)  PROVE plan' = plan \/ plan'.issued = {}
        BY <3>1 DEF ViewerJoined, work
      <3>2. ASSUME SeedNext
            PROVE  \/ plan' = [plan EXCEPT !.left = @ - 1]
                   \/ \E r : plan' = [plan EXCEPT !.issued = @ \ {r}]
        BY <3>2 DEF SeedNext
      <3>3. ASSUME SeedDone  PROVE plan'.issued = {}
        BY <3>3 DEF SeedDone
      <3>4. ASSUME NEW j \in Jobs, \/ Compose(j) \/ PdsWrites(j) \/ Checked(j)
                                   \/ WriteFails(j) \/ Rest(j)
            PROVE  plan' = plan
        BY <3>4 DEF Compose, PdsWrites, Checked, WriteFails, Rest
      <3>5. ASSUME NEW t \in Timers, Timeout(t)  PROVE plan' = plan
        BY <3>5 DEF Timeout, Tick, TickAtBound
      <3>6. ASSUME Visitor \/ UNCHANGED vars  PROVE plan' = plan
        BY <3>6 DEF Visitor, vars, work, Ask, CloseEarly, ViewerLeft, PostCheck, ClearArrival,
                    CheckPublished, CheckRefused
      <3> QED BY <3>1, <3>2, <3>3, <3>4, <3>5, <3>6 DEF Next, Advance, SeedRuns
    <2>2. ASSUME NEW r, plan' = [plan EXCEPT !.issued = @ \ {r}]
          PROVE  plan'.issued \subseteq plan.issued
      BY <1>1, <2>2
    <2>3. plan' = [plan EXCEPT !.left = @ - 1] => plan'.issued \subseteq plan.issued
      BY <1>1
    <2> QED BY <2>1, <2>2, <2>3
  <1>6. \/ checks' = checks
        \/ \E j \in Jobs : /\ job[j].at = "checking"
                           /\ checks' = [checks EXCEPT ![job[j].release] = @ + 1]
    BY DEF Next, vars, world, said, Visitor, Timeout, Advance, SeedRuns, Ask, CloseEarly,
           ViewerLeft, PostCheck, ClearArrival, CheckPublished, CheckRefused, ViewerJoined,
           Tick, TickAtBound, Compose, PdsWrites, Checked, WriteFails, Rest, SeedNext, SeedDone
  <1>7. \A r \in Release : checks'[r] = checks[r]
          \/ \E k \in Jobs : job[k].at = "checking" /\ job[k].release = r
    BY <1>1, <1>6
  <1> QED BY <1>2, <1>3, <1>4, <1>5, <1>7 DEF Due

\* What the answer to a writer adds is its own release.
LEMMA AnswerAdds ==
  ASSUME ClockInv, DataInv, NEW j \in Jobs, Written(j)
  PROVE  /\ \A p \in Release : parts'[p].newest \in {parts[p].newest, job[j].release}
         /\ \A h \in Orgs : ToSet(dock'[h]) \subseteq ToSet(dock[h]) \cup {job[j].release}
         /\ \A h \in Orgs \ {job[j].to} : dock'[h] = dock[h]
         /\ Due' \subseteq Due \cup {job[j].release}
         /\ UNCHANGED said
         /\ job'[j].at \in {"idle", "planned"} /\ \A k \in Jobs \ {j} : job'[k] = job[k]
  <1> DEFINE r == job[j].release
             p == job[j].part
             to == job[j].to
  <1>1. /\ dock' = HandOver(dock, to, r) /\ UNCHANGED said /\ Finish(j) /\ Serviced(p, r)
        /\ pending' \in {pending, Capped(Append(pending, r), PendingCap)}
        /\ plan' = plan \/ plan' = [plan EXCEPT !.issued = @ \cup {r}]
    BY DEF Written
  <1>2. /\ dock \in [Orgs -> Seq(Known)] /\ \A h \in Orgs : Len(dock[h]) <= DockCap
        /\ pending \in Seq(Known) /\ Len(pending) <= PendingCap /\ PendingCap \in Nat \ {0}
        /\ plan \in [left : 0 .. BacklogSize, issued : SUBSET Known]
        /\ parts \in [Release -> [newest : 0 .. Len(released), visits : Nat]]
        /\ DOMAIN job = Jobs
    BY ActivityAssumption DEF DataInv, FloorOK, ListsOK, PlanOK, ClockInv
  <1>3. r \in Known /\ r \in Release /\ p \in 0 .. MaxReleases
    BY AnsweredThere
  <1>4. job'[j].at \in {"idle", "planned"} /\ \A k \in Jobs \ {j} : job'[k] = job[k]
    <2>1. job' = [job EXCEPT ![j] = Planned] \/ job' = [job EXCEPT ![j] = Idle]
      BY <1>1 DEF Finish
    <2> QED BY <1>2, <2>1 DEF Idle, Planned
  <1> HIDE DEF r, p, to
  <1>5. \A q \in Release : parts'[q].newest \in {parts[q].newest, r}
    <2>1. CASE p = 0
      <3>1. parts' = [parts EXCEPT ![r] = [newest |-> r, visits |-> 1]]
        BY <1>1, <2>1 DEF Serviced
      <3> QED BY <1>2, <3>1
    <2>2. CASE p # 0
      <3>1. parts' = [parts EXCEPT ![p] = [newest |-> r, visits |-> @.visits + 1]]
        BY <1>1, <2>2 DEF Serviced
      <3> QED BY <1>2, <3>1
    <2> QED BY <2>1, <2>2
  <1>6. \A h \in Orgs : ToSet(HandOver(dock, to, r)[h]) \subseteq ToSet(dock[h]) \cup {r}
    BY <1>2, <1>3, HandOverFits
  <1>7. \A h \in Orgs \ {to} : dock'[h] = dock[h]
    BY <1>1, <1>2 DEF HandOver
  <1>8. ToSet(pending') \subseteq ToSet(pending) \cup {r}
    BY <1>1, <1>2, <1>3, CappedFits
  <1>9. plan'.issued \subseteq plan.issued \cup {r}
    BY <1>1, <1>2
  <1> QED BY <1>1, <1>4, <1>5, <1>6, <1>7, <1>8, <1>9 DEF Due, r, to

\* What is away stays away if nothing but something else is added.
LEMMA AwayStays ==
  ASSUME NEW s, Away(s), NEW other, s # other,
         \A p \in Release : parts'[p].newest \in {parts[p].newest, other},
         \A h \in Orgs : ToSet(dock'[h]) \subseteq ToSet(dock[h]) \cup {other},
         Due' \subseteq Due \cup {other},
         checks'[s] = 0,
         \A k \in Jobs : job'[k].at = "checking" => job'[k].release # s
  PROVE  Away(s)'
  BY DEF Away

\* Every step keeps what is away.
LEMMA AwaySteps ==
  ASSUME ClockInv, DataInv, AwayInv, [Next]_vars
  PROVE  AwayInv'
  <1>1. ASSUME NEW j \in Jobs, PdsWrites(j)  PROVE AwayInv'
    <2>1. PICK r : r = Len(released) + 1
      OBVIOUS
    <2>2. /\ r \in Release /\ r \notin Known /\ Len(released) \in Nat
          /\ r \notin 0 .. Len(released)
      BY <1>1, <2>1, WrittenNext, KnownFits DEF Known
    <2>3. /\ job'[j].at = "written" /\ job'[j].release = r
          /\ \A k \in Jobs \ {j} : job'[k] = job[k]
      BY <1>1, <2>1 DEF PdsWrites, ClockInv
    <2>4. UNCHANGED <<parts, dock, Due, checks>>
      BY <1>1 DEF PdsWrites, stock, floor, said, Due
    <2>5. \A p \in Release : parts[p].newest # r
      BY <2>2 DEF DataInv, ListsOK
    <2>6. \A h \in Orgs : r \notin ToSet(dock[h])
      <3>1. \A h \in Orgs : dock[h] \in Seq(Known)
        BY DEF DataInv, FloorOK
      <3> HIDE DEF Known
      <3> QED BY <2>2, <3>1 DEF ToSet
    <2>7. r \notin Due
      <3>1. pending \in Seq(Known) /\ plan.issued \subseteq Known
        BY DEF DataInv, ListsOK, PlanOK
      <3> HIDE DEF Known
      <3> QED BY <2>2, <3>1 DEF Due, ToSet
    <2>8. checks[r] = 0
      BY <2>2 DEF DataInv, FloorOK
    <2>9. \A k \in Jobs : job[k].at \in {"written", "checking"} => job[k].release # r
      BY <2>2 DEF DataInv, JobsOK
    <2>10. ASSUME NEW k \in Jobs, job'[k].at = "checking"
           PROVE  job'[k] = job[k] /\ job'[k].release # r
      BY <2>3, <2>9, <2>10
    <2>11. Away(r)'
      BY <2>4, <2>5, <2>6, <2>7, <2>8, <2>10 DEF Away
    <2>12. ASSUME NEW k \in Jobs \ {j}, job[k].at = "written", NEW s, s = job[k].release
           PROVE  Away(s)' /\ s # r
      <3>1. Away(s) /\ s # r
        BY <2>9, <2>12 DEF AwayInv
      <3> QED BY <2>4, <2>10, <3>1 DEF Away
    <2>13. \A k \in Jobs : job'[k].at = "written" => Away(job[k].release)'
      BY <2>3, <2>11, <2>12 DEF Away
    <2>14. ASSUME NEW i \in Jobs, job'[i].at = "written",
                  NEW k \in Jobs, job'[k].at = "written", job'[k].release = job'[i].release
           PROVE  k = i
      BY <2>3, <2>9, <2>14 DEF AwayInv
    <2> QED BY <2>13, <2>14 DEF AwayInv
  <1>2. ASSUME NEW j \in Jobs, Written(j)  PROVE AwayInv'
    <2>1. PICK r : r = job[j].release
      OBVIOUS
    <2>2. \A k \in Jobs : job'[k].at \in {"written", "checking"} => k # j /\ job'[k] = job[k]
      BY <1>2, AnswerAdds
    <2>3. /\ \A p \in Release : parts'[p].newest \in {parts[p].newest, r}
          /\ \A h \in Orgs : ToSet(dock'[h]) \subseteq ToSet(dock[h]) \cup {r}
          /\ Due' \subseteq Due \cup {r} /\ checks' = checks
      BY <1>2, <2>1, AnswerAdds DEF said
    <2>4. job[j].at = "written"
      BY <1>2 DEF Written
    <2>5. ASSUME NEW k \in Jobs, job'[k].at = "written", NEW s, s = job'[k].release
          PROVE  Away(s)'
      <3>1. Away(s) /\ s # r
        BY <2>1, <2>2, <2>4, <2>5 DEF AwayInv
      <3>2. checks'[s] = 0 /\ \A i \in Jobs : job'[i].at = "checking" => job'[i].release # s
        BY <2>2, <2>3, <3>1 DEF Away
      <3> QED BY <2>3, <3>1, <3>2, AwayStays
    <2>6. \A k \in Jobs : job'[k].at = "written" => Away(job[k].release)'
      BY <2>5 DEF Away
    <2>7. ASSUME NEW i \in Jobs, job'[i].at = "written",
                 NEW k \in Jobs, job'[k].at = "written", job'[k].release = job'[i].release
          PROVE  k = i
      BY <2>2, <2>7 DEF AwayInv
    <2> QED BY <2>6, <2>7 DEF AwayInv
  <1>3. CASE \A j \in Jobs : ~PdsWrites(j) /\ ~Written(j)
    <2>1. /\ \A k \in Jobs : job'[k].at = "written" => job'[k] = job[k]
          /\ \A k \in Jobs : job'[k].at = "checking" =>
               job'[k] = job[k] \/ job'[k].release \in Due
      BY <1>3, NoneWritten
    <2>2. /\ parts' = parts
          /\ \A h \in Orgs : ToSet(dock'[h]) \subseteq ToSet(dock[h])
          /\ Due' \subseteq Due
          /\ \A r \in Release : checks'[r] = checks[r]
               \/ \E k \in Jobs : job[k].at = "checking" /\ job[k].release = r
      BY <1>3, NoneAnswered
    <2>3. ASSUME NEW k \in Jobs, job'[k].at = "written", NEW s, s = job'[k].release
          PROVE  Away(s)'
      <3>1. Away(s) /\ s \in Release
        <4>1. Known \subseteq Release
          BY KnownFits
        <4> QED BY <2>1, <2>3, <4>1 DEF AwayInv, DataInv, JobsOK
      <3>2. checks'[s] = 0
        BY <2>2, <3>1 DEF Away
      <3>3. \A i \in Jobs : job'[i].at = "checking" => job'[i].release # s
        BY <2>1, <3>1 DEF Away
      <3> QED BY <2>2, <3>1, <3>2, <3>3 DEF Away
    <2>4. \A k \in Jobs : job'[k].at = "written" => Away(job[k].release)'
      BY <2>3 DEF Away
    <2>5. ASSUME NEW i \in Jobs, job'[i].at = "written",
                 NEW k \in Jobs, job'[k].at = "written", job'[k].release = job'[i].release
          PROVE  k = i
      BY <2>1, <2>5 DEF AwayInv
    <2> QED BY <2>4, <2>5 DEF AwayInv
  <1> QED BY <1>1, <1>2, <1>3

LEMMA AwayStarts == Init => AwayInv
  BY DEF Init, AwayInv, Idle

----------------------------------------------------------------------------
(* Dealt with, and gone.                                                   *)

\* A release waits on one dock; one that was dealt with and waits was dealt with too
\* early, and so was one that was dealt with and is still to be handed over.
GoneInv ==
  /\ \A h \in Orgs, r \in dealt : r \in ToSet(dock[h]) => r \in early
  /\ \A g, h \in Orgs : g # h => ToSet(dock[g]) \cap ToSet(dock[h]) = {}
  /\ Unanswered \cap dealt \subseteq early

\* What is settled is on no dock, and what is handed over was on none.
LEMMA GoneSteps ==
  ASSUME ClockInv, DataInv, AwayInv, GoneInv, [Next]_vars
  PROVE  GoneInv'
  <1>1. /\ dock \in [Orgs -> Seq(Known)] /\ \A h \in Orgs : Len(dock[h]) <= DockCap
        /\ dealt \subseteq Known
    BY DEF DataInv, FloorOK
  <1>2. ASSUME \A j \in Jobs : ~PdsWrites(j)  PROVE Unanswered' \subseteq Unanswered
    BY <1>2, NoneWritten DEF Unanswered
  <1>3. ASSUME NEW r, dock' = Settle(dock, r), dealt' \subseteq dealt \cup {r},
               early \ {r} \subseteq early', r \in dealt' \cap Unanswered => r \in early',
               Unanswered' \subseteq Unanswered
        PROVE  GoneInv'
    <2>1. \A h \in Orgs : ToSet(dock'[h]) = ToSet(dock[h]) \ {r}
      BY <1>1, <1>3, SettleFits, ZenonT(60)
    <2> QED BY <1>3, <2>1 DEF GoneInv
  <1>4. ASSUME NEW j \in Jobs, Written(j)  PROVE GoneInv'
    <2> DEFINE r == job[j].release
    <2>1. r \in Unanswered /\ \A h \in Orgs : r \notin ToSet(dock[h])
      BY <1>4, AnsweredThere DEF AwayInv, Away, Unanswered
    <2>2. /\ \A h \in Orgs : ToSet(dock'[h]) \subseteq ToSet(dock[h]) \cup {r}
          /\ \A h \in Orgs \ {job[j].to} : dock'[h] = dock[h]
          /\ dealt' = dealt /\ early' = early
      BY <1>4, AnswerAdds DEF said
    <2>3. Unanswered' \subseteq Unanswered
      BY <1>4, AnswerAdds DEF Unanswered
    <2> HIDE DEF r
    <2>4. \A h \in Orgs, q \in dealt : q \in ToSet(dock'[h]) => q \in early
      BY <2>1, <2>2 DEF GoneInv
    <2>5. ASSUME NEW g \in Orgs, NEW h \in Orgs, g # h
          PROVE  ToSet(dock'[g]) \cap ToSet(dock'[h]) = {}
      <3>1. ToSet(dock[g]) \cap ToSet(dock[h]) = {}
        BY <2>5 DEF GoneInv
      <3>2. dock'[g] = dock[g] \/ dock'[h] = dock[h]
        BY <2>2, <2>5
      <3> QED BY <2>1, <2>2, <3>1, <3>2
    <2> QED BY <2>2, <2>3, <2>4, <2>5 DEF GoneInv
  <1>5. ASSUME NEW j \in Jobs, PdsWrites(j)  PROVE GoneInv'
    <2>1. Len(released) + 1 \notin Known
      BY <1>5, WrittenNext
    <2>2. UNCHANGED <<dock, dealt, early>>
      BY <1>5 DEF PdsWrites, floor, said
    <2>3. Unanswered' \subseteq Unanswered \cup {Len(released) + 1}
      BY <1>5 DEF PdsWrites, Unanswered, ClockInv
    <2>4. Unanswered' \cap dealt \subseteq Unanswered
      BY <1>1, <2>1, <2>3
    <2> QED BY <2>2, <2>4 DEF GoneInv
  <1>6. ASSUME NEW v \in Viewers, CheckPublished(v)  PROVE GoneInv'
    <2>1. /\ dock' = Settle(dock, desk[v]) /\ DealWith(desk[v]) /\ job' = job
      BY <1>6 DEF CheckPublished, work
    <2>2. Unanswered' = Unanswered
      BY <2>1 DEF Unanswered
    <2> QED BY <1>3, <2>1, <2>2 DEF DealWith
  <1>7. ASSUME NEW j \in Jobs, Checked(j)  PROVE GoneInv'
    <2>1. /\ dock' = Settle(dock, job[j].release) /\ DealWith(job[j].release)
      BY <1>7 DEF Checked
    <2>2. ~PdsWrites(j)
      BY <1>7 DEF Checked, PdsWrites
    <2>3. Unanswered' \subseteq Unanswered
      <3>1. Finish(j)
        BY <1>7 DEF Checked
      <3>2. job'[j].at # "written" /\ \A k \in Jobs \ {j} : job'[k] = job[k]
        BY <3>1 DEF Finish, Idle, Planned, ClockInv
      <3> QED BY <3>2 DEF Unanswered
    <2> QED BY <1>3, <2>1, <2>3 DEF DealWith
  <1>8. ASSUME NEW v \in Viewers, NEW r, ClearArrival(v, r)  PROVE GoneInv'
    <2>1. /\ dock' = Settle(dock, r) /\ early' = early \ {r} /\ dealt' = dealt /\ job' = job
          /\ ActingAs[v] # Nobody /\ Contains(dock[ActingAs[v]], r)
      BY <1>8 DEF ClearArrival, work, Arrival
    <2>2. ActingAs[v] \in Orgs
      BY <2>1, ActivityAssumption
    <2>3. r \in ToSet(dock[ActingAs[v]])
      BY <1>1, <2>1, <2>2 DEF Contains, ToSet
    <2>4. r \notin Unanswered /\ Unanswered' = Unanswered
      BY <2>1, <2>2, <2>3 DEF Unanswered, AwayInv, Away
    <2> QED BY <1>3, <2>1, <2>4
  <1>9. \/ UNCHANGED <<dock, dealt, early>>
        \/ \E v \in Viewers : CheckPublished(v) \/ \E r : ClearArrival(v, r)
        \/ \E j \in Jobs : Written(j) \/ Checked(j)
    BY DEF Next, vars, floor, world, said, Visitor, Timeout, Advance, SeedRuns, Ask,
           CloseEarly, ViewerLeft, PostCheck, CheckRefused, ViewerJoined, Tick, TickAtBound,
           Compose, PdsWrites, WriteFails, Rest, SeedNext, SeedDone
  <1>10. ASSUME UNCHANGED <<dock, dealt, early>>, \A j \in Jobs : ~PdsWrites(j)
         PROVE  GoneInv'
    BY <1>2, <1>10 DEF GoneInv
  <1> QED BY <1>4, <1>5, <1>6, <1>7, <1>8, <1>9, <1>10

\* A release waits on one dock at most, and one that somebody was told they had
\* attested on none, unless it was attested before its writer was answered.
THEOREM DealtWithGone == Spec => []DealtWithIsGone
  <1>1. Init => GoneInv
    <2> SUFFICES ASSUME Init  PROVE GoneInv
      OBVIOUS
    <2>1. dealt = {} /\ \A h \in Orgs : ToSet(dock[h]) = {}
      BY DEF Init, ToSet
    <2> QED BY <2>1 DEF GoneInv
  <1>2. DataInv /\ GoneInv => DealtWithIsGone
    <2> SUFFICES ASSUME DataInv, GoneInv  PROVE DealtWithIsGone
      OBVIOUS
    <2>1. ASSUME NEW r, NEW h \in Orgs  PROVE Arrival(dock, h, r) <=> r \in ToSet(dock[h])
      <3>1. dock[h] \in Seq(Known)
        BY DEF DataInv, FloorOK
      <3> QED BY <3>1 DEF Arrival, Contains, ToSet
    <2> QED BY <2>1 DEF GoneInv, DealtWithIsGone
  <1> QED
    BY <1>1, <1>2, ClockStarts, ClockSteps, DataStarts, DataSteps, AwayStarts, AwaySteps,
       GoneSteps, PTL
    DEF Spec

----------------------------------------------------------------------------
(* One chain of events.                                                    *)

\* With no join beside running work there is one chain: a timer or a job.
LEMMA OneChain ==
  ASSUME ClockInv, overlaps = 0
  PROVE  /\ \A j, k \in Busy : j = k
         /\ armed # {} => Busy = {}
  <1>1. /\ Cardinality(armed) + Cardinality(Busy) <= 1
        /\ Cardinality(armed) \in Nat /\ Cardinality(Busy) \in Nat
        /\ IsFiniteSet(armed) /\ IsFiniteSet(Busy)
    BY Sizes DEF ClockInv, ChainsOK
  <1>2. ASSUME NEW j \in Busy, NEW k \in Busy, j # k  PROVE FALSE
    <2>1. Cardinality(Busy \ {j}) = Cardinality(Busy) - 1 /\ IsFiniteSet(Busy \ {j})
      BY <1>1, FS_RemoveElement
    <2>2. Cardinality(Busy \ {j}) = 0
      BY <1>1, <2>1, FS_CardinalityType
    <2>3. Busy \ {j} = {}
      BY <2>1, <2>2, FS_EmptySet
    <2> QED BY <1>2, <2>3
  <1>3. ASSUME armed # {}, Busy # {}  PROVE FALSE
    <2>1. Cardinality(armed) # 0 /\ Cardinality(Busy) # 0
      BY <1>1, <1>3, FS_EmptySet
    <2> QED BY <1>1, <2>1
  <1> QED BY <1>2, <1>3

\* What was counted stays counted.
LEMMA OverlapsGrow ==
  ASSUME ClockInv, [Next]_vars
  PROVE  overlaps' = 0 => overlaps = 0
  <1>1. overlaps' = overlaps \/ overlaps' = overlaps + 1
    BY DEF Next, vars, Visitor, Timeout, Advance, SeedRuns, Ask, CloseEarly, ViewerLeft,
           PostCheck, ClearArrival, CheckPublished, CheckRefused, ViewerJoined, Tick,
           TickAtBound, Compose, PdsWrites, Written, Checked, WriteFails, Rest, SeedNext, SeedDone
  <1> QED BY <1>1 DEF ClockInv, ChainsOK

\* What is queued or planned was not checked yet, and what is being checked is
\* neither queued nor planned any more.
OnceInv ==
  overlaps = 0 =>
    /\ \A r \in Release : checks[r] \in {0, 1}
    /\ \A r \in Release : checks[r] # 0 => r \notin Due
    /\ \A j \in Jobs : job[j].at = "checking" => checks[job[j].release] = 0
                                                 /\ job[j].release \notin Due

\* A check that is begun takes its release off the queue and the plan.
LEMMA OnceBegins ==
  ASSUME ClockInv, DataInv, OnceInv, NEW j \in Jobs, NEW r \in Due, BeginCheck(j, r),
         Alone(j), plan'.issued \subseteq plan.issued, r \notin plan'.issued,
         checks' = checks, overlaps' = 0 => overlaps = 0
  PROVE  OnceInv'
  <1> SUFFICES ASSUME overlaps' = 0, overlaps = 0  PROVE OnceInv'
    BY DEF OnceInv
  <1>1. pending' = Without(pending, r) /\ pending \in Seq(Known)
    BY DEF BeginCheck, DataInv, ListsOK
  <1>2. ToSet(pending') = ToSet(pending) \ {r}
    BY <1>1, WithoutLeaves
  <1>3. Due' \subseteq Due /\ r \notin Due'
    BY <1>2 DEF Due
  <1>4. DOMAIN job = Jobs => job'[j].release = r
    BY CheckIsWork
  <1>5. r \in Release
    <2>1. ToSet(pending) \subseteq Known /\ plan.issued \subseteq Known /\ Known \subseteq Release
      BY <1>1, KnownFits DEF DataInv, PlanOK, ToSet
    <2> QED BY <2>1 DEF Due
  <1>6. checks[r] = 0
    BY <1>5 DEF OnceInv
  <1>7. DOMAIN job' = Jobs /\ DOMAIN job' = DOMAIN job /\ \A k \in Jobs \ {j} : job'[k] = job[k]
    BY CheckIsWork DEF Alone
  <1> QED BY <1>3, <1>4, <1>6, <1>7 DEF OnceInv

\* What neither checks nor queues anything new.
LEMMA OnceStands ==
  ASSUME OnceInv, checks' = checks, Due' \subseteq Due, overlaps' = 0 => overlaps = 0,
         \A j \in Jobs : job'[j].at = "checking" => job'[j] = job[j]
  PROVE  OnceInv'
  BY DEF OnceInv

\* Work that ends under a single chain leaves no check under way.
LEMMA OnceEnds ==
  ASSUME ClockInv, DataInv, OnceInv, NEW j \in Jobs, Finish(j), job[j] # Idle,
         overlaps' = overlaps,
         \A r \in Release :
           /\ checks'[r] \in {0, 1} \/ (checks'[r] = checks[r])
           /\ r \in Due' /\ r \notin Due => checks'[r] = 0
           /\ r \in Due => checks'[r] = checks[r] \/ overlaps # 0
  PROVE  OnceInv'
  <1> SUFFICES ASSUME overlaps = 0  PROVE OnceInv'
    BY DEF OnceInv
  <1>1. \A k \in Jobs : job'[k].at # "checking"
    <2>1. DOMAIN job = Jobs /\ \A k \in Jobs \ {j} : job[k] = Idle
      BY OneChain DEF ClockInv, Busy
    <2>2. job'[j].at \in {"idle", "planned"} /\ \A k \in Jobs \ {j} : job'[k] = job[k]
      BY <2>1 DEF Finish, Idle, Planned
    <2> QED BY <2>1, <2>2 DEF Idle
  <1> QED BY <1>1 DEF OnceInv

\* Every step keeps that a release is checked once.
LEMMA OnceSteps ==
  ASSUME ClockInv, DataInv, AwayInv, OnceInv, [Next]_vars
  PROVE  OnceInv'
  <1>1. /\ overlaps' = 0 => overlaps = 0
        /\ DOMAIN job = Jobs /\ Seed \in Jobs /\ Timers \subseteq Jobs
        /\ Known \subseteq Release
        /\ pending \in Seq(Known) /\ plan.issued \subseteq Known
        /\ checks \in [Release -> Nat]
    BY OverlapsGrow, KnownFits
    DEF ClockInv, Jobs, DataInv, ListsOK, PlanOK, FloorOK
  <1>2. ASSUME NEW v \in Viewers, NEW r, \/ Ask(v) \/ CloseEarly(v) \/ ViewerLeft(v)
                                         \/ PostCheck(v, r) \/ ClearArrival(v, r)
                                         \/ CheckPublished(v) \/ CheckRefused(v)
        PROVE  OnceInv'
    <2>1. UNCHANGED <<checks, pending, plan, job>>
      BY <1>2 DEF Ask, CloseEarly, ViewerLeft, PostCheck, ClearArrival, CheckPublished,
                  CheckRefused, work, world, said, stock
    <2> QED BY <1>1, <2>1, OnceStands DEF Due
  <1>3. ASSUME NEW v \in Viewers, ViewerJoined(v)  PROVE OnceInv'
    <2>1. UNCHANGED <<checks, pending>> /\ (job' = job \/ \E q : BeginIssue(Seed, q))
      BY <1>3 DEF ViewerJoined, work, world, said
    <2>2. plan' = plan \/ plan'.issued = {}
      BY <1>3 DEF ViewerJoined, work
    <2>3. \A j \in Jobs : job'[j].at = "checking" => job'[j] = job[j]
      BY <1>1, <2>1, IssueIsWork
    <2> QED BY <1>1, <2>1, <2>2, <2>3, OnceStands DEF Due
  <1>4. ASSUME NEW t \in Timers, Tick(t)  PROVE OnceInv'
    <2>1. UNCHANGED <<checks, plan>> /\ t \in armed
      BY <1>4 DEF Tick, world, said
    <2>2. CASE pending # << >> /\ BeginCheck(t, Head(pending))
      <3>1. Head(pending) \in ToSet(pending)
        BY <1>1, <2>2 DEF ToSet
      <3>2. CASE overlaps = 0
        <4>1. plan.issued = {}
          BY <1>1, <2>1, <3>2, OneChain DEF DataInv, PlanOK, Busy
        <4>2. Alone(t)
          BY <1>1, <2>2, CheckIsWork DEF Alone
        <4> QED BY <1>1, <2>1, <2>2, <3>1, <4>1, <4>2, OnceBegins DEF Due
      <3>3. CASE overlaps # 0
        BY <1>1, <3>3 DEF OnceInv
      <3> QED BY <3>2, <3>3
    <2>3. CASE BeginIssue(t, promised) /\ pending' = pending
      <3>1. \A j \in Jobs : job'[j].at = "checking" => job'[j] = job[j]
        BY <1>1, <2>3, IssueIsWork
      <3> QED BY <1>1, <2>1, <2>3, <3>1, OnceStands DEF Due
    <2> QED BY <1>4, <2>2, <2>3 DEF Tick
  <1>5. ASSUME NEW t \in Timers, TickAtBound(t)  PROVE OnceInv'
    <2>1. UNCHANGED <<checks, plan, pending>> /\ job' = [job EXCEPT ![t] = Nothing]
      BY <1>5 DEF TickAtBound, world, said, stock
    <2>2. \A j \in Jobs : job'[j].at = "checking" => job'[j] = job[j]
      BY <1>1, <2>1 DEF Nothing
    <2> QED BY <1>1, <2>1, <2>2, OnceStands DEF Due
  <1>6. ASSUME NEW j \in Jobs, Compose(j) \/ PdsWrites(j)  PROVE OnceInv'
    <2>1. /\ UNCHANGED <<checks, plan, pending>>
          /\ \A k \in Jobs : job'[k].at = "checking" => job'[k] = job[k]
      BY <1>1, <1>6 DEF Compose, PdsWrites, world, said, stock
    <2> QED BY <1>1, <2>1, OnceStands DEF Due
  <1>7. ASSUME NEW j \in Jobs, Rest(j)  PROVE OnceInv'
    <2>1. /\ UNCHANGED <<checks, plan, pending, overlaps>> /\ Finish(j) /\ job[j] # Idle
      BY <1>7 DEF Rest, world, said, stock, Nothing, Idle
    <2> QED BY <2>1, OnceEnds DEF Due
  <1>8. ASSUME NEW j \in Jobs, Written(j)  PROVE OnceInv'
    <2>1. UNCHANGED overlaps /\ Finish(j) /\ job[j] # Idle
      BY <1>8 DEF Written, Idle
    <2>2. checks' = checks /\ Due' \subseteq Due \cup {job[j].release}
      BY <1>8, AnswerAdds DEF said
    <2>3. checks[job[j].release] = 0
      BY <1>8, AnsweredThere DEF AwayInv, Away
    <2> QED BY <2>1, <2>2, <2>3, OnceEnds
  <1>9. ASSUME NEW j \in Jobs, Checked(j) \/ WriteFails(j)  PROVE OnceInv'
    <2>1. /\ UNCHANGED <<plan, pending, overlaps>> /\ Finish(j) /\ job[j] # Idle
          /\ \/ checks' = checks
             \/ /\ job[j].at = "checking"
                /\ checks' = [checks EXCEPT ![job[j].release] = @ + 1]
      <3>1. CASE Checked(j)
        BY <3>1 DEF Checked, stock, Idle
      <3>2. CASE WriteFails(j)
        <4>1. UNCHANGED <<plan, stock, overlaps>> /\ Finish(j) /\ job[j].at # "idle"
          BY <3>2 DEF WriteFails
        <4>2. \/ checks' = checks
              \/ /\ job[j].at = "checking"
                 /\ checks' = [checks EXCEPT ![job[j].release] = @ + 1]
          BY <3>2 DEF WriteFails
        <4> QED BY <4>1, <4>2 DEF stock, Idle
      <3> QED BY <1>9, <3>1, <3>2
    <2>2. Due' = Due
      BY <2>1 DEF Due
    <2>3. CASE checks' = checks
      BY <2>1, <2>2, <2>3, OnceEnds
    <2>4. CASE job[j].at = "checking" /\ checks' = [checks EXCEPT ![job[j].release] = @ + 1]
               /\ overlaps = 0
      <3>1. job[j].release \in Release /\ checks[job[j].release] = 0 /\ job[j].release \notin Due
        BY <1>1, <2>4 DEF DataInv, JobsOK, OnceInv
      <3> DEFINE c == job[j].release
      <3> HIDE DEF c
      <3>2. checks'[c] = 1 /\ \A r \in Release \ {c} : checks'[r] = checks[r]
        BY <1>1, <2>4, <3>1 DEF c
      <3> QED BY <2>1, <2>2, <3>1, <3>2, OnceEnds DEF c
    <2>5. CASE overlaps # 0
      BY <2>1, <2>5 DEF OnceInv
    <2> QED BY <2>1, <2>3, <2>4, <2>5
  <1>10. CASE SeedNext
    <2>1. CASE BeginIssue(Seed, promised) /\ plan' = [plan EXCEPT !.left = @ - 1]
               /\ pending' = pending
      <3>1. /\ checks' = checks /\ plan'.issued = plan.issued
            /\ \A j \in Jobs : job'[j].at = "checking" => job'[j] = job[j]
        BY <1>1, <1>10, <2>1, IssueIsWork DEF SeedNext, world, said, DataInv, PlanOK
      <3> QED BY <1>1, <2>1, <3>1, OnceStands DEF Due
    <2>2. ASSUME NEW r \in plan.issued, BeginCheck(Seed, r),
                 plan' = [plan EXCEPT !.issued = @ \ {r}]
          PROVE  OnceInv'
      <3>1. checks' = checks /\ plan'.issued = plan.issued \ {r} /\ Alone(Seed)
        BY <1>1, <1>10, <2>2, CheckIsWork DEF SeedNext, world, said, Alone, DataInv, PlanOK
      <3> QED BY <1>1, <2>2, <3>1, OnceBegins DEF Due
    <2> QED BY <1>10, <2>1, <2>2 DEF SeedNext
  <1>11. CASE SeedDone
    <2>1. /\ checks' = checks /\ pending' = pending /\ plan'.issued = {}
          /\ \A j \in Jobs : job'[j].at = "checking" => job'[j] = job[j]
      BY <1>1, <1>11 DEF SeedDone, world, said, stock, Idle
    <2> QED BY <1>1, <2>1, OnceStands DEF Due
  <1>12. CASE UNCHANGED vars
    BY <1>12 DEF vars, work, world, said, stock, OnceInv, Due
  <1> QED
    BY <1>2, <1>3, <1>4, <1>5, <1>6, <1>7, <1>8, <1>9, <1>10, <1>11, <1>12
    DEF Next, Visitor, Timeout, Advance, SeedRuns

\* With a single chain the generator says of a release at most once that it was
\* checked, though the queue and the backlog's plan both name it.
THEOREM NeverCheckedTwice == Spec => []CheckedOnce
  <1>1. Init => OnceInv
    <2>1. Init => /\ \A r \in Release : checks[r] = 0
                  /\ \A j \in Jobs : job[j].at = "idle"
      BY DEF Init, Idle
    <2> QED BY <2>1 DEF OnceInv
  <1>2. OnceInv => CheckedOnce
    BY DEF OnceInv, CheckedOnce
  <1> QED
    BY <1>1, <1>2, ClockStarts, ClockSteps, DataStarts, DataSteps, AwayStarts, AwaySteps,
       OnceSteps, PTL
    DEF Spec

----------------------------------------------------------------------------
(* A part's history is a line.                                             *)

\* No release is the newest of two parts.
OneNewest ==
  \A p, q \in Release :
    parts[p].newest = parts[q].newest /\ parts[p].newest # 0 => p = q

\* The release that what job j works on continues from.
Newest(j) == IF job[j].part = 0 THEN 0 ELSE parts[job[j].part].newest

\* What is being written continues from its part's newest release; so does what was
\* written last, if its writer still waits; and nothing that was continued, with its
\* writer told, is the newest of a part any more.
Continues ==
  /\ \A j \in Jobs : job[j].at = "writing" => job[j].prev = Newest(j)
  /\ \A j \in Jobs : job[j].at = "written" =>
       /\ job[j].release = Len(released)
       /\ released[job[j].release].prev = Newest(j)
       /\ \A i \in Known : released[i].prev # job[j].release
  /\ \A i \in Known : released[i].told /\ released[i].prev # 0 =>
       \A p \in Release : parts[p].newest # released[i].prev

LineInv ==
  /\ OneNewest
  /\ overlaps = 0 => Continues
  /\ HistoriesDoNotFork

\* A release that is written with a single chain continues nothing that was
\* continued before, as far as its writer knew.
LEMMA LineGrows ==
  ASSUME ClockInv, DataInv, LineInv, overlaps = 0, overlaps' = 0,
         NEW j \in Jobs, PdsWrites(j)
  PROVE  /\ HistoriesDoNotFork'
         /\ Len(released') = Len(released) + 1 /\ Len(released) \in Nat
         /\ \A i \in Known : released'[i] = released[i]
         /\ released'[Len(released) + 1].prev = job[j].prev
         /\ released'[Len(released) + 1].told = FALSE
         /\ Known' = Known \cup {Len(released) + 1}
  <1> DEFINE r == Len(released) + 1
             e == [prev |-> job[j].prev, told |-> FALSE]
  <1>1. /\ Len(released) \in Nat /\ Known = 1 .. Len(released)
        /\ \E R : released \in Seq(R)
        /\ released' = Append(released, e) /\ job[j].at = "writing"
    BY KnownFits DEF DataInv, RoomOK, Known, PdsWrites
  <1>2. e.prev = job[j].prev /\ e.told = FALSE
    OBVIOUS
  <1> HIDE DEF e
  <1>3. /\ Len(released') = r /\ released'[r] = e /\ DOMAIN released' = 1 .. r
        /\ \A i \in Known : released'[i] = released[i]
        /\ Known' = 1 .. r /\ DOMAIN released = Known
    BY <1>1 DEF Known
  <1>4. Continues
    BY DEF LineInv
  <1>5. job[j].part \in 0 .. MaxReleases
    BY <1>1 DEF DataInv, JobsOK
  <1>6. ASSUME NEW i \in Known, released[i].prev # 0, released[i].prev = e.prev
        PROVE  ~released[i].told
    <2>1. job[j].part # 0 /\ parts[job[j].part].newest = e.prev
      BY <1>1, <1>2, <1>4, <1>6 DEF Continues, Newest
    <2>2. job[j].part \in Release
      BY <1>5, <2>1, KnownFits DEF Release
    <2> QED BY <1>4, <1>6, <2>1, <2>2 DEF Continues
  <1>7. HistoriesDoNotFork'
    <2>1. SUFFICES ASSUME NEW i \in 1 .. r, NEW k \in 1 .. r, i < k, released'[i].prev # 0,
                          released'[i].prev = released'[k].prev
                   PROVE  ~released'[i].told
      BY <1>3 DEF HistoriesDoNotFork
    <2>2. i \in Known
      BY <1>1, <2>1
    <2>3. CASE k = r
      BY <1>3, <1>6, <2>1, <2>2, <2>3
    <2>4. CASE k # r
      <3>1. k \in Known
        BY <1>1, <2>1, <2>4
      <3> QED BY <1>3, <2>1, <2>2, <3>1 DEF LineInv, HistoriesDoNotFork
    <2> QED BY <2>3, <2>4
  <1> QED BY <1>1, <1>2, <1>3, <1>7

\* What writes nothing leaves the histories as they are.
LEMMA LineStands ==
  ASSUME LineInv, UNCHANGED <<parts, released>>, overlaps' = 0 => overlaps = 0,
         \A j \in Jobs : job'[j].at = "writing" =>
           job'[j] = job[j] \/ job'[j].prev = Newest(j)',
         \A j \in Jobs : job'[j].at = "written" => job'[j] = job[j]
  PROVE  LineInv'
  <1>1. OneNewest' /\ HistoriesDoNotFork'
    BY DEF LineInv, OneNewest, HistoriesDoNotFork
  <1>2. ASSUME overlaps' = 0  PROVE Continues'
    <2>1. Continues
      BY <1>2 DEF LineInv
    <2> QED BY <2>1 DEF Continues, Known, Newest
  <1> QED BY <1>1, <1>2 DEF LineInv

\* The record is there, and its writer does not know.
LEMMA LinePublished ==
  ASSUME ClockInv, DataInv, LineInv, NEW j \in Jobs, PdsWrites(j)
  PROVE  LineInv'
  <1>1. /\ UNCHANGED <<parts, overlaps>>
        /\ job[j].at = "writing" /\ DOMAIN job = Jobs
        /\ job' = [job EXCEPT ![j] = [at |-> "written", to |-> job[j].to,
                                      part |-> job[j].part, release |-> Len(released) + 1]]
    BY DEF PdsWrites, stock, ClockInv
  <1>2. OneNewest'
    BY <1>1 DEF LineInv, OneNewest
  <1>3. ASSUME overlaps = 0  PROVE HistoriesDoNotFork' /\ Continues'
    <2> DEFINE r == Len(released) + 1
    <2>1. /\ HistoriesDoNotFork'
          /\ Len(released') = r
          /\ \A i \in Known : released'[i] = released[i]
          /\ released'[r].prev = job[j].prev
          /\ released'[r].told = FALSE
          /\ Known' = Known \cup {r}
      BY <1>1, <1>3, LineGrows
    <2>2. /\ job'[j].at = "written" /\ job'[j].part = job[j].part /\ job'[j].release = r
          /\ \A k \in Jobs \ {j} : job'[k].at = "idle"
      BY <1>1, <1>3, OneChain DEF Busy, Idle
    <2>3. Continues
      BY <1>3 DEF LineInv
    <2>9. /\ \A i \in Known : released[i].prev # r
          /\ job[j].prev # r
      BY <1>1 DEF DataInv, RoomOK, JobsOK, Known
    <2> HIDE DEF r
    <2>4. job[j].prev = Newest(j)
      BY <1>1, <2>3 DEF Continues
    <2>5. Newest(j)' = Newest(j)
      BY <1>1, <2>2 DEF Newest
    <2>6. \A k \in Jobs : job'[k].at # "writing"
      BY <2>2
    <2>7. ASSUME NEW k \in Jobs, job'[k].at = "written"
          PROVE  /\ job'[k].release = Len(released')
                 /\ released'[job'[k].release].prev = Newest(k)'
                 /\ \A i \in Known' : released'[i].prev # job'[k].release
      <3>1. k = j
        BY <2>2, <2>7
      <3>2. \A i \in Known' : released'[i].prev # r
        BY <2>1, <2>9
      <3> QED BY <2>1, <2>2, <2>4, <2>5, <3>1, <3>2
    <2>8. ASSUME NEW i \in Known', released'[i].told, released'[i].prev # 0, NEW p \in Release
          PROVE  parts'[p].newest # released'[i].prev
      BY <1>1, <2>1, <2>3, <2>8 DEF Continues
    <2> QED BY <2>1, <2>6, <2>7, <2>8 DEF Continues
  <1>4. overlaps # 0 => HistoriesDoNotFork'
    BY <1>1 DEF HistoriesDoNotFork
  <1> QED BY <1>1, <1>2, <1>3, <1>4 DEF LineInv

\* The writer knows, and the record is its part's newest.
LEMMA LineWritten ==
  ASSUME ClockInv, DataInv, AwayInv, LineInv, NEW j \in Jobs, Written(j)
  PROVE  LineInv'
  <1> DEFINE r == job[j].release
             q == IF job[j].part = 0 THEN r ELSE job[j].part
  <1>1. /\ job[j].at = "written" /\ job[j].part \in 0 .. MaxReleases /\ r \in Release
        /\ Len(released') = Len(released) /\ Known' = Known /\ r \in Known
        /\ Known \subseteq Release
        /\ \A i \in Known : /\ released'[i].prev = released[i].prev
                            /\ i # r => released'[i] = released[i]
    BY AnsweredThere, KnownFits
  <1>2. overlaps' = overlaps /\ Serviced(job[j].part, r)
    BY DEF Written
  <1>3. q \in Release
    BY <1>1, KnownFits DEF Release
  <1>4. /\ parts \in [Release -> [newest : 0 .. Len(released), visits : Nat]]
        /\ Len(released) \in Nat /\ DOMAIN released = Known /\ DOMAIN released' = Known
        /\ Known = 1 .. Len(released)
    <2>1. released \in Seq([prev : 0 .. MaxReleases, told : BOOLEAN])
      BY DEF DataInv, RoomOK
    <2>2. DOMAIN released' = DOMAIN released
      BY DEF Written
    <2> QED BY <2>1, <2>2, KnownFits DEF DataInv, ListsOK, Known
  <1>5. /\ parts'[q].newest = r
        /\ \A p \in Release \ {q} : parts'[p].newest = parts[p].newest
    <2>1. CASE job[j].part = 0
      BY <1>1, <1>2, <1>4, <2>1 DEF Serviced
    <2>2. CASE job[j].part # 0
      BY <1>1, <1>2, <1>3, <1>4, <2>2 DEF Serviced
    <2> QED BY <2>1, <2>2
  <1>6. \A p \in Release : parts[p].newest # r
    BY <1>1 DEF AwayInv, Away
  <1>7. OneNewest'
    <2> HIDE DEF r, q
    <2> QED BY <1>3, <1>5, <1>6 DEF LineInv, OneNewest
  <1>8. ASSUME overlaps = 0  PROVE HistoriesDoNotFork' /\ Continues'
    <2>1. Continues
      BY <1>8 DEF LineInv
    <2>2. /\ r = Len(released) /\ released[r].prev = Newest(j)
          /\ \A i \in Known : released[i].prev # r
      BY <1>1, <2>1 DEF Continues
    <2>3. \A k \in Jobs : job'[k].at \in {"idle", "planned"}
      <3>1. DOMAIN job = Jobs /\ \A k \in Jobs \ {j} : job[k] = Idle
        BY <1>1, <1>8, OneChain DEF ClockInv, Busy, Idle
      <3>2. job'[j].at \in {"idle", "planned"} /\ \A k \in Jobs \ {j} : job'[k] = job[k]
        BY AnswerAdds
      <3> HIDE DEF r, q
      <3> QED BY <3>1, <3>2 DEF Idle
    <2>4. HistoriesDoNotFork'
      <3> SUFFICES ASSUME NEW i \in Known, NEW k \in Known, i < k, released'[i].prev # 0,
                          released'[i].prev = released'[k].prev
                   PROVE  ~released'[i].told
        BY <1>4 DEF HistoriesDoNotFork
      <3>1. i # r
        <4> HIDE DEF r, q
        <4>1. Len(released) \in Nat /\ i \in Nat /\ k \in Nat /\ k <= Len(released)
          BY <1>4
        <4>2. i < Len(released)
          BY <4>1
        <4>3. i # Len(released)
          BY <4>1, <4>2
        <4> QED BY <2>2, <4>3
      <3>2. /\ released'[i] = released[i] /\ released[i].prev # 0
            /\ released[i].prev = released[k].prev
        BY <1>1, <3>1
      <3> QED BY <1>4, <1>8, <3>2 DEF LineInv, HistoriesDoNotFork
    <2>5. ASSUME NEW i \in Known, released'[i].told, released'[i].prev # 0, NEW p \in Release
          PROVE  parts'[p].newest # released'[i].prev
      <3>1. CASE i # r
        <4>1. released'[i] = released[i]
          BY <1>1, <3>1
        <4>2. parts[p].newest # released[i].prev
          BY <2>1, <2>5, <4>1 DEF Continues
        <4>3. r # released[i].prev
          BY <2>2
        <4> HIDE DEF r, q
        <4> QED BY <1>5, <4>1, <4>2, <4>3
      <3>2. CASE i = r
        <4>1. /\ released'[i].prev = Newest(j) /\ job[j].part # 0 /\ q = job[j].part
              /\ Newest(j) = parts[job[j].part].newest
          BY <1>1, <2>2, <2>5, <3>2 DEF Newest
        <4>2. r # Newest(j)
          BY <1>3, <1>6, <4>1
        <4> HIDE DEF r, q
        <4>3. CASE p = q
          BY <1>5, <4>1, <4>2, <4>3
        <4>4. CASE p # q
          BY <1>3, <1>5, <2>5, <4>1, <4>4 DEF LineInv, OneNewest
        <4> QED BY <4>3, <4>4
      <3> QED BY <3>1, <3>2
    <2>6. Continues'
      <3>1. \A k \in Jobs : job'[k].at \notin {"writing", "written"}
        BY <2>3
      <3> HIDE DEF r, q
      <3> QED BY <1>1, <2>5, <3>1 DEF Continues
    <2> QED BY <2>4, <2>6
  <1>9. overlaps # 0 => HistoriesDoNotFork'
    BY <1>2 DEF HistoriesDoNotFork
  <1> QED BY <1>2, <1>7, <1>8, <1>9 DEF LineInv

\* Every step keeps the histories lines.
LEMMA LineSteps ==
  ASSUME ClockInv, DataInv, AwayInv, LineInv, [Next]_vars
  PROVE  LineInv'
  <1>1. /\ overlaps' = 0 => overlaps = 0
        /\ DOMAIN job = Jobs /\ Seed \in Jobs /\ Timers \subseteq Jobs
    BY OverlapsGrow DEF ClockInv, Jobs
  <1>2. ASSUME NEW j \in Jobs, Written(j)  PROVE LineInv'
    BY <1>2, LineWritten
  <1>3. ASSUME NEW j \in Jobs, PdsWrites(j)  PROVE LineInv'
    BY <1>3, LinePublished
  <1>4. ASSUME NEW j \in Jobs, Compose(j)  PROVE LineInv'
    <2>1. /\ UNCHANGED <<parts, released>> /\ job'[j].at = "writing"
          /\ job'[j].part = job[j].part
          /\ job'[j].prev = Newest(j)
          /\ \A k \in Jobs \ {j} : job'[k] = job[k]
      BY <1>1, <1>4 DEF Compose, stock, world, Newest
    <2>2. Newest(j)' = Newest(j)
      BY <2>1 DEF Newest
    <2>3. /\ \A k \in Jobs : job'[k].at = "writing" =>
               job'[k] = job[k] \/ job'[k].prev = Newest(k)'
          /\ \A k \in Jobs : job'[k].at = "written" => job'[k] = job[k]
      BY <2>1, <2>2
    <2> QED BY <1>1, <2>1, <2>3, LineStands
  <1>5. ASSUME UNCHANGED <<parts, released>>,
               \/ job' = job
               \/ \E k \in Jobs : \E q : BeginIssue(k, q)
               \/ \E k \in Jobs : \E r : BeginCheck(k, r)
               \/ \E k \in Jobs : job' = [job EXCEPT ![k] = Nothing]
               \/ \E k \in Jobs : job' = [job EXCEPT ![k] = Idle]
               \/ \E k \in Jobs : Finish(k)
        PROVE  LineInv'
    <2>1. \A k \in Jobs : job'[k].at \in {"writing", "written"} => job'[k] = job[k]
      <3>1. ASSUME NEW k \in Jobs, NEW q, BeginIssue(k, q)
            PROVE  \A i \in Jobs : job'[i].at \in {"writing", "written"} => job'[i] = job[i]
        BY <1>1, <3>1, IssueIsWork
      <3>2. ASSUME NEW k \in Jobs, NEW r, BeginCheck(k, r)
            PROVE  \A i \in Jobs : job'[i].at \in {"writing", "written"} => job'[i] = job[i]
        BY <1>1, <3>2, CheckIsWork
      <3>3. ASSUME NEW k \in Jobs,
                   \/ job' = [job EXCEPT ![k] = Nothing]
                   \/ job' = [job EXCEPT ![k] = Idle]
                   \/ Finish(k)
            PROVE  \A i \in Jobs : job'[i].at \in {"writing", "written"} => job'[i] = job[i]
        BY <1>1, <3>3 DEF Finish, Idle, Nothing, Planned
      <3> QED BY <1>5, <3>1, <3>2, <3>3
    <2> QED BY <1>1, <1>5, <2>1, LineStands
  <1>6. ASSUME NEW t \in Timers, Tick(t)  PROVE LineInv'
    <2>1. /\ UNCHANGED <<parts, released>>
          /\ BeginCheck(t, Head(pending)) \/ BeginIssue(t, promised)
      BY <1>6 DEF Tick, world
    <2> QED BY <1>1, <1>5, <2>1
  <1>7. CASE SeedNext
    <2>1. /\ UNCHANGED <<parts, released>>
          /\ (\E r : BeginCheck(Seed, r)) \/ BeginIssue(Seed, promised)
      BY <1>7 DEF SeedNext, world
    <2> QED BY <1>1, <1>5, <2>1
  <1>8. ASSUME NEW v \in Viewers, ViewerJoined(v)  PROVE LineInv'
    <2>1. UNCHANGED <<parts, released>> /\ (job' = job \/ \E q : BeginIssue(Seed, q))
      BY <1>8 DEF ViewerJoined, work, world
    <2> QED BY <1>1, <1>5, <2>1
  <1>9. ASSUME NEW t \in Timers, TickAtBound(t)  PROVE LineInv'
    BY <1>1, <1>5, <1>9 DEF TickAtBound, stock, world
  <1>10. ASSUME NEW j \in Jobs, Rest(j)  PROVE LineInv'
    BY <1>5, <1>10 DEF Rest, stock, world
  <1>11. ASSUME NEW j \in Jobs, Checked(j)  PROVE LineInv'
    BY <1>5, <1>11 DEF Checked, stock
  <1>12. CASE SeedDone
    BY <1>1, <1>5, <1>12 DEF SeedDone, stock, world
  <1>13. ASSUME NEW v \in Viewers, NEW r, \/ Ask(v) \/ CloseEarly(v) \/ ViewerLeft(v)
                                          \/ PostCheck(v, r) \/ ClearArrival(v, r)
                                          \/ CheckPublished(v) \/ CheckRefused(v)
         PROVE  LineInv'
    <2>1. UNCHANGED <<parts, released, job>>
      BY <1>13 DEF Ask, CloseEarly, ViewerLeft, PostCheck, ClearArrival, CheckPublished,
                   CheckRefused, work, world, stock
    <2> QED BY <1>5, <2>1
  <1>14. ASSUME NEW j \in Jobs, WriteFails(j)  PROVE LineInv'
    BY <1>5, <1>14 DEF WriteFails, stock
  <1>15. CASE UNCHANGED vars
    BY <1>5, <1>15 DEF vars, work, world, stock
  <1> QED
    BY <1>2, <1>3, <1>4, <1>6, <1>7, <1>8, <1>9, <1>10, <1>11, <1>12, <1>13, <1>14, <1>15
    DEF Next, Visitor, Timeout, Advance, SeedRuns

\* With a single chain, two releases of a part continue from the same release only
\* when the answer to the first of them was lost.
THEOREM NoForks == Spec => []HistoriesDoNotFork
  <1>1. Init => LineInv
    <2>1. Init => /\ released = << >> /\ \A p \in Release : parts[p].newest = 0
                  /\ \A j \in Jobs : job[j].at = "idle"
      BY DEF Init, Idle
    <2> QED BY <2>1 DEF LineInv, OneNewest, Continues, HistoriesDoNotFork, Known
  <1>2. LineInv => HistoriesDoNotFork
    BY DEF LineInv
  <1> QED
    BY <1>1, <1>2, ClockStarts, ClockSteps, DataStarts, DataSteps, AwayStarts, AwaySteps,
       LineSteps, PTL
    DEF Spec
=============================================================================
