--------------------------- MODULE DisclosureProofs ---------------------------
(***************************************************************************)
(* What holds of commitments and disclosures for any field table, forms,   *)
(* retypings and requests.                                                 *)
(***************************************************************************)
EXTENDS Disclosure, FiniteSetTheorems, WellFoundedInduction, TLAPS

----------------------------------------------------------------------------
(* Numbers.                                                                *)

\* A set of naturals has a least one.
LEMMA LeastNat ==
  ASSUME NEW T, T \subseteq Nat, T # {}
  PROVE  \E n \in T : \A m \in T : n <= m
  <1> DEFINE R == OpToRel(<, Nat)
  <1>1. IsWellFoundedOn(R, Nat)
    BY NatLessThanWellFounded
  <1> HIDE DEF R
  <1>2. PICK n \in T : \A m \in T : ~(<<m, n>> \in R)
    BY <1>1, WFMin
  <1>3. \A m \in T : ~(m < n)
    BY <1>2 DEF R, OpToRel
  <1> QED BY <1>3

\* A set that has zero, and the successor of each of its members, has all naturals.
LEMMA NatSet ==
  ASSUME NEW T, 0 \in T, \A n \in Nat : n \in T => n + 1 \in T
  PROVE  Nat \subseteq T
  <1> SUFFICES ASSUME Nat \ T # {}  PROVE FALSE
    OBVIOUS
  <1>1. PICK n \in Nat \ T : \A m \in Nat \ T : n <= m
    BY LeastNat
  <1>2. n # 0 /\ n - 1 \in Nat
    BY <1>1
  <1>3. n - 1 \in T
    BY <1>1, <1>2
  <1>4. n - 1 + 1 = n
    BY <1>1
  <1> QED BY <1>1, <1>2, <1>3, <1>4

\* The powers of two, from the subsets of an interval: a further element doubles them.
LEMMA PowerStep ==
  ASSUME NEW n \in Nat
  PROVE  2^n \in Nat /\ 2^(n + 1) = 2 * 2^n
  <1> DEFINE S == 1 .. n
             A == SUBSET S
             B == {X \cup {n + 1} : X \in A}
             C == SUBSET (S \cup {n + 1})
             f == [X \in A |-> X \cup {n + 1}]
  <1>1. IsFiniteSet(S) /\ Cardinality(S) = n /\ n + 1 \notin S
    BY FS_Interval
  <1>2. IsFiniteSet(S \cup {n + 1}) /\ Cardinality(S \cup {n + 1}) = n + 1
    BY <1>1, FS_AddElement
  <1>3. IsFiniteSet(A) /\ Cardinality(A) = 2^n /\ Cardinality(A) \in Nat
    BY <1>1, FS_SUBSET, FS_CardinalityType
  <1>4. IsFiniteSet(C) /\ Cardinality(C) = 2^(n + 1)
    BY <1>2, FS_SUBSET
  <1>5. f \in Surjection(A, B) /\ f \in Injection(A, B)
    <2>1. \A X, Y \in A : X \cup {n + 1} = Y \cup {n + 1} => X = Y
      BY <1>1
    <2> HIDE DEF A
    <2> QED BY <2>1 DEF Surjection, Injection, IsInjective
  <1>6. IsFiniteSet(B) /\ Cardinality(B) = Cardinality(A)
    <2> HIDE DEF A, B, f
    <2> QED BY <1>3, <1>5, FS_Surjection
  <1>7. C = A \cup B /\ A \cap B = {}
    <2>1. ASSUME NEW X \in C  PROVE X \in A \cup B
      <3>1. CASE n + 1 \in X
        <4>1. X \ {n + 1} \in A /\ X = (X \ {n + 1}) \cup {n + 1}
          BY <2>1, <3>1
        <4> QED BY <4>1
      <3>2. CASE n + 1 \notin X
        BY <2>1, <3>2
      <3> QED BY <3>1, <3>2
    <2>2. A \cup B \subseteq C
      OBVIOUS
    <2>3. A \cap B = {}
      BY <1>1
    <2> HIDE DEF A, B, C
    <2> QED BY <2>1, <2>2, <2>3
  <1> HIDE DEF A, B, C
  <1>8. Cardinality(C) = Cardinality(A) + Cardinality(B) - Cardinality(A \cap B)
    BY <1>3, <1>6, <1>7, FS_Union
  <1>9. Cardinality(A \cap B) = 0
    BY <1>7, FS_EmptySet
  <1> QED BY <1>3, <1>4, <1>6, <1>8, <1>9

\* Powers of two are positive, and outgrow their exponents.
LEMMA PowerGrows ==
  ASSUME NEW n \in Nat
  PROVE  2^n \in Nat /\ n < 2^n
  <1> DEFINE T == {k \in Nat : k < 2^k}
  <1>1. 0 \in T
    <2>1. 2^0 = 1
      OBVIOUS
    <2> QED BY <2>1
  <1>2. ASSUME NEW k \in Nat, k \in T  PROVE k + 1 \in T
    <2>1. 2^k \in Nat /\ 2^(k + 1) = 2 * 2^k /\ k < 2^k
      BY <1>2, PowerStep
    <2> QED BY <2>1
  <1>3. Nat \subseteq T
    <2> HIDE DEF T
    <2> QED BY <1>1, <1>2, NatSet
  <1> QED BY <1>3, PowerStep

\* The depth of a tree is enough for its leaves.
LEMMA DepthHolds ==
  ASSUME NEW n \in Nat
  PROVE  Depth(n) \in Nat /\ n <= 2^Depth(n)
  <1> DEFINE T == {d \in 0 .. n : 2^d >= n}
  <1>1. n \in T /\ T \subseteq Nat
    BY PowerGrows
  <1>2. \E d \in T : \A e \in T : d <= e
    <2> HIDE DEF T
    <2> QED BY <1>1, LeastNat
  <1>3. PICK d \in T : \A e \in T : d <= e
    BY <1>2
  <1>4. \A e \in 0 .. d - 1 : 2^e \in Nat /\ e \in 0 .. n /\ e \notin T
    BY <1>3, PowerGrows
  <1>5. d \in 0 .. n /\ 2^d >= n /\ \A e \in 0 .. d - 1 : 2^e < n
    BY <1>3, <1>4
  <1>6. Depth(n) \in 0 .. n /\ 2^Depth(n) >= n
    BY <1>5 DEF Depth
  <1> QED BY <1>6, PowerGrows

----------------------------------------------------------------------------
(* The tree.                                                               *)

\* A level of hashes above another.
Above(below) ==
  [i \in 1 .. Len(below) \div 2 |-> nodeHash(below[2 * i - 1], below[2 * i])]

Padded(leaves) ==
  [i \in 1 .. 2^Depth(Len(leaves)) |-> IF i <= Len(leaves) THEN leaves[i] ELSE padLeaf]

\* The levels are defined: each from the one below.
LEMMA LevelsAre ==
  ASSUME NEW leaves, Len(leaves) \in Nat
  PROVE  buildLevels(leaves) =
           [k \in 0 .. Depth(Len(leaves)) |->
              IF k = 0 THEN Padded(leaves) ELSE Above(buildLevels(leaves)[k - 1])]
  <1> DEFINE D == Depth(Len(leaves))
             Is(g, n) == g = [k \in 0 .. n |-> IF k = 0 THEN Padded(leaves) ELSE Above(g[k - 1])]
             T == {n \in Nat : \E g : Is(g, n)}
  <1>1. 0 \in T
    <2> DEFINE g == [k \in 0 .. 0 |-> Padded(leaves)]
    <2>1. \A k \in 0 .. 0 : g[k] = IF k = 0 THEN Padded(leaves) ELSE Above(g[k - 1])
      OBVIOUS
    <2>2. Is(g, 0)
      BY <2>1
    <2> QED BY <2>2
  <1>2. ASSUME NEW n \in Nat, n \in T  PROVE n + 1 \in T
    <2>1. PICK g : Is(g, n)
      BY <1>2
    <2> DEFINE h == [k \in 0 .. n + 1 |-> IF k = n + 1 THEN Above(g[n]) ELSE g[k]]
    <2>2. \A k \in 0 .. n : g[k] = IF k = 0 THEN Padded(leaves) ELSE Above(g[k - 1])
      BY <2>1
    <2>3. ASSUME NEW k \in 0 .. n + 1
          PROVE  h[k] = IF k = 0 THEN Padded(leaves) ELSE Above(h[k - 1])
      <3>1. CASE k = n + 1
        <4>1. h[k] = Above(g[n]) /\ h[k - 1] = g[n] /\ k # 0
          BY <3>1
        <4> QED BY <3>1, <4>1
      <3>2. CASE k = 0
        BY <2>2, <3>2
      <3>3. CASE k # n + 1 /\ k # 0
        <4>1. k \in 0 .. n /\ k - 1 \in 0 .. n /\ h[k] = g[k] /\ h[k - 1] = g[k - 1]
          BY <3>3
        <4> QED BY <2>2, <3>3, <4>1
      <3> QED BY <3>1, <3>2, <3>3
    <2>4. Is(h, n + 1)
      <3> DEFINE w == [k \in 0 .. n + 1 |-> IF k = 0 THEN Padded(leaves) ELSE Above(h[k - 1])]
      <3>1. DOMAIN h = 0 .. n + 1 /\ DOMAIN w = 0 .. n + 1
        OBVIOUS
      <3>2. \A k \in 0 .. n + 1 : w[k] = IF k = 0 THEN Padded(leaves) ELSE Above(h[k - 1])
        OBVIOUS
      <3>3. \A k \in 0 .. n + 1 : h[k] = w[k]
        <4> HIDE DEF h, w
        <4> QED BY <2>3, <3>2
      <3>4. h = w
        BY <3>3
      <3> HIDE DEF h
      <3> QED BY <3>4
    <2>5. \E m : Is(m, n + 1)
      <3> HIDE DEF Is, h
      <3> QED BY <2>4
    <2> HIDE DEF Is
    <2> QED BY <2>5
  <1>3. D \in T
    <2> HIDE DEF T
    <2> QED BY <1>1, <1>2, NatSet, DepthHolds
  <1>4. \E g : Is(g, D)
    BY <1>3
  <1>5. buildLevels(leaves) = CHOOSE g : Is(g, D)
    BY DEF buildLevels, Padded, Above
  <1>6. Is(buildLevels(leaves), D)
    <2> HIDE DEF Is
    <2> QED BY <1>4, <1>5
  <1> QED BY <1>6

\* The widths of the levels halve.
LEMMA LevelWidths ==
  ASSUME NEW leaves, Len(leaves) \in Nat, NEW k \in 0 .. Depth(Len(leaves))
  PROVE  LET D == Depth(Len(leaves))
             L == buildLevels(leaves)
         IN  /\ DOMAIN L[k] = 1 .. 2^(D - k)
             /\ Len(L[k]) = 2^(D - k)
             /\ k = 0 => L[k] = Padded(leaves)
             /\ k > 0 => \A i \in 1 .. 2^(D - k) :
                           L[k][i] = nodeHash(L[k - 1][2 * i - 1], L[k - 1][2 * i])
  <1> DEFINE D == Depth(Len(leaves))
             L == buildLevels(leaves)
             T == {j \in Nat : j <= D => DOMAIN L[j] = 1 .. 2^(D - j) /\ Len(L[j]) = 2^(D - j)}
  <1>1. D \in Nat
    BY DepthHolds
  <1>2. \A j \in 0 .. D : L[j] = IF j = 0 THEN Padded(leaves) ELSE Above(L[j - 1])
    <2> DEFINE M == [j \in 0 .. D |-> IF j = 0 THEN Padded(leaves) ELSE Above(L[j - 1])]
    <2>1. L = M
      BY LevelsAre
    <2>2. \A j \in 0 .. D : M[j] = IF j = 0 THEN Padded(leaves) ELSE Above(L[j - 1])
      OBVIOUS
    <2> HIDE DEF L, M, D
    <2> QED BY <2>1, <2>2
  <1> HIDE DEF L, D
  <1>3. 0 \in T
    <2>1. L[0] = Padded(leaves) /\ D - 0 = D /\ 2^D \in Nat
      BY <1>1, <1>2, PowerGrows
    <2> QED BY <2>1 DEF Padded, D
  <1>4. ASSUME NEW j \in Nat, j + 1 <= D, Len(L[j]) = 2^(D - j)
        PROVE  /\ L[j + 1] = [i \in 1 .. 2^(D - (j + 1)) |->
                                nodeHash(L[j][2 * i - 1], L[j][2 * i])]
               /\ 2^(D - (j + 1)) \in Nat
    <2> DEFINE m == D - (j + 1)
    <2>1. m \in Nat /\ D - j = m + 1
      BY <1>1, <1>4
    <2>2. 2^m \in Nat /\ 2^(D - j) = 2 * 2^m
      BY <2>1, PowerStep
    <2>3. (2 * 2^m) \div 2 = 2^m
      BY <2>2
    <2>4. L[j + 1] = Above(L[j])
      BY <1>1, <1>2, <1>4
    <2> QED BY <1>4, <2>2, <2>3, <2>4 DEF Above
  <1>5. ASSUME NEW j \in Nat, j \in T  PROVE j + 1 \in T
    <2>1. CASE j + 1 <= D
      <3>1. Len(L[j]) = 2^(D - j)
        BY <1>1, <1>5, <2>1
      <3>2. /\ L[j + 1] = [i \in 1 .. 2^(D - (j + 1)) |->
                             nodeHash(L[j][2 * i - 1], L[j][2 * i])]
            /\ 2^(D - (j + 1)) \in Nat
        BY <1>4, <2>1, <3>1
      <3>3. DOMAIN L[j + 1] = 1 .. 2^(D - (j + 1)) /\ Len(L[j + 1]) = 2^(D - (j + 1))
        BY <3>2
      <3> QED BY <3>3
    <2>2. CASE ~(j + 1 <= D)
      BY <2>2
    <2> QED BY <2>1, <2>2
  <1>6. \A j \in 0 .. D : DOMAIN L[j] = 1 .. 2^(D - j) /\ Len(L[j]) = 2^(D - j)
    <2>1. Nat \subseteq T
      <3> HIDE DEF T
      <3> QED BY <1>3, <1>5, NatSet
    <2> QED BY <1>1, <2>1
  <1>7. CASE k = 0
    BY <1>2, <1>6, <1>7 DEF L, D
  <1>8. CASE k # 0
    <2>1. k - 1 \in Nat /\ k - 1 \in 0 .. D /\ (k - 1) + 1 <= D /\ (k - 1) + 1 = k
      BY <1>1, <1>8 DEF D
    <2>2. L[k] = [i \in 1 .. 2^(D - k) |-> nodeHash(L[k - 1][2 * i - 1], L[k - 1][2 * i])]
      BY <1>4, <1>6, <2>1
    <2>3. \A i \in 1 .. 2^(D - k) :
            L[k][i] = nodeHash(L[k - 1][2 * i - 1], L[k - 1][2 * i])
      BY <2>2
    <2> QED BY <1>6, <1>8, <2>3 DEF L, D
  <1> QED BY <1>7, <1>8

\* The fold of a proof is defined: each step from the one before.
LEMMA FoldIs ==
  ASSUME NEW proof, Len(proof.path) \in Nat
  PROVE  /\ Fold(proof)[0] = leafHash(proof.field, proof.value, proof.nonce)
         /\ \A n \in 1 .. Len(proof.path) :
              Fold(proof)[n] = IF proof.path[n].side = "left"
                               THEN nodeHash(proof.path[n].hash, Fold(proof)[n - 1])
                               ELSE nodeHash(Fold(proof)[n - 1], proof.path[n].hash)
  <1> DEFINE N == Len(proof.path)
             leaf == leafHash(proof.field, proof.value, proof.nonce)
             Up(l, x) == IF proof.path[l].side = "left"
                         THEN nodeHash(proof.path[l].hash, x)
                         ELSE nodeHash(x, proof.path[l].hash)
             Is(g, n) == g = [l \in 0 .. n |-> IF l = 0 THEN leaf ELSE Up(l, g[l - 1])]
             T == {n \in Nat : \E g : Is(g, n)}
  <1>1. 0 \in T
    <2> DEFINE g == [l \in 0 .. 0 |-> leaf]
    <2>1. \A l \in 0 .. 0 : g[l] = IF l = 0 THEN leaf ELSE Up(l, g[l - 1])
      OBVIOUS
    <2>2. Is(g, 0)
      <3> HIDE DEF leaf, Up
      <3> QED BY <2>1
    <2> QED BY <2>2
  <1>2. ASSUME NEW n \in Nat, n \in T  PROVE n + 1 \in T
    <2>1. PICK g : Is(g, n)
      BY <1>2
    <2> HIDE DEF leaf, Up
    <2> DEFINE h == [l \in 0 .. n + 1 |-> IF l = n + 1 THEN Up(n + 1, g[n]) ELSE g[l]]
    <2>2. \A l \in 0 .. n : g[l] = IF l = 0 THEN leaf ELSE Up(l, g[l - 1])
      BY <2>1
    <2>3. ASSUME NEW l \in 0 .. n + 1
          PROVE  h[l] = IF l = 0 THEN leaf ELSE Up(l, h[l - 1])
      <3>1. CASE l = n + 1
        <4>1. h[l] = Up(l, g[n]) /\ h[l - 1] = g[n] /\ l # 0
          BY <3>1
        <4> QED BY <3>1, <4>1
      <3>2. CASE l = 0
        BY <2>2, <3>2
      <3>3. CASE l # n + 1 /\ l # 0
        <4>1. l \in 0 .. n /\ l - 1 \in 0 .. n /\ h[l] = g[l] /\ h[l - 1] = g[l - 1]
          BY <3>3
        <4> QED BY <2>2, <3>3, <4>1
      <3> QED BY <3>1, <3>2, <3>3
    <2>4. Is(h, n + 1)
      <3> DEFINE w == [l \in 0 .. n + 1 |-> IF l = 0 THEN leaf ELSE Up(l, h[l - 1])]
      <3>1. DOMAIN h = 0 .. n + 1 /\ DOMAIN w = 0 .. n + 1
        OBVIOUS
      <3>2. \A l \in 0 .. n + 1 : w[l] = IF l = 0 THEN leaf ELSE Up(l, h[l - 1])
        OBVIOUS
      <3>3. \A l \in 0 .. n + 1 : h[l] = w[l]
        <4> HIDE DEF h, w
        <4> QED BY <2>3, <3>2
      <3>4. h = w
        BY <3>3
      <3> HIDE DEF h
      <3> QED BY <3>4
    <2>5. \E m : Is(m, n + 1)
      <3> HIDE DEF Is, h
      <3> QED BY <2>4
    <2> HIDE DEF Is
    <2> QED BY <2>5
  <1>3. N \in T
    <2> HIDE DEF T
    <2> QED BY <1>1, <1>2, NatSet
  <1>4. \E g : Is(g, N)
    BY <1>3
  <1>5. Fold(proof) = CHOOSE g : Is(g, N)
    BY DEF Fold
  <1>6. Is(Fold(proof), N)
    <2> HIDE DEF Is
    <2> QED BY <1>4, <1>5
  <1>7. \A l \in 0 .. N : Fold(proof)[l] = IF l = 0 THEN leaf ELSE Up(l, Fold(proof)[l - 1])
    <2> HIDE DEF leaf, Up
    <2> QED BY <1>6
  <1> QED BY <1>7

\* What a tree is built on: as many leaves as there are fields.
Leaves(values, nonces) ==
  [i \in DOMAIN FIELDS |-> leafHash(FIELD_ORDER[i], values[FIELD_ORDER[i]], nonces[i])]

\* The depth of every tree over the field table.
Deep == Depth(Len(FIELDS))

Levels(values, nonces) == buildLevels(Leaves(values, nonces))

\* The table has a position for each of its names.
LEMMA Table ==
  /\ Len(FIELDS) \in Nat \ {0} /\ DOMAIN FIELDS = 1 .. Len(FIELDS)
  /\ FieldNames = {FIELD_ORDER[i] : i \in 1 .. Len(FIELDS)}
  /\ \A i, k \in 1 .. Len(FIELDS) : FIELD_ORDER[i] = FIELD_ORDER[k] => i = k
  /\ \A f \in FieldNames : /\ indexOf(f) \in Nat
                           /\ indexOf(f) + 1 \in 1 .. Len(FIELDS)
                           /\ FIELD_ORDER[indexOf(f) + 1] = f
  /\ \A i \in 1 .. Len(FIELDS) : FIELD_ORDER[i] = FIELDS[i].name
  <1>1. Len(FIELDS) \in Nat \ {0} /\ DOMAIN FIELDS = 1 .. Len(FIELDS)
    BY CommitmentAssumption
  <1>2. \A i \in 1 .. Len(FIELDS) : FIELD_ORDER[i] = FIELDS[i].name
    BY <1>1 DEF FIELD_ORDER
  <1>3. DOMAIN FIELD_ORDER = 1 .. Len(FIELDS)
    BY <1>1 DEF FIELD_ORDER
  <1>4. FieldNames = {FIELD_ORDER[i] : i \in 1 .. Len(FIELDS)}
    BY <1>3 DEF FieldNames, ToSet
  <1>5. \A i, k \in 1 .. Len(FIELDS) : FIELD_ORDER[i] = FIELD_ORDER[k] => i = k
    BY <1>1, <1>2, CommitmentAssumption
  <1>6. ASSUME NEW f \in FieldNames
        PROVE  /\ indexOf(f) \in Nat
               /\ indexOf(f) + 1 \in 1 .. Len(FIELDS)
               /\ FIELD_ORDER[indexOf(f) + 1] = f
    <2>1. \E i \in DOMAIN FIELDS : FIELDS[i].name = f
      BY <1>1, <1>2, <1>4
    <2> DEFINE i == CHOOSE i \in DOMAIN FIELDS : FIELDS[i].name = f
    <2>2. i \in DOMAIN FIELDS /\ FIELDS[i].name = f
      BY <2>1
    <2>3. indexOf(f) = i - 1
      BY DEF indexOf
    <2> HIDE DEF i
    <2>4. indexOf(f) + 1 = i
      BY <1>1, <2>2, <2>3
    <2> QED BY <1>1, <1>2, <2>2, <2>3, <2>4
  <1> QED BY <1>1, <1>2, <1>4, <1>5, <1>6

\* The levels of a tree over the fields: padded leaves, and nodes above them.
LEMMA Tree ==
  ASSUME NEW values, NEW nonces, NEW k \in 0 .. Deep
  PROVE  LET L == Levels(values, nonces) IN
         /\ Deep \in Nat /\ 2^(Deep - k) \in Nat \ {0} /\ 2^Deep >= Len(FIELDS)
         /\ k = 0 => \A i \in 1 .. 2^Deep :
                       L[k][i] = IF i <= Len(FIELDS)
                                 THEN leafHash(FIELD_ORDER[i], values[FIELD_ORDER[i]],
                                               nonces[i])
                                 ELSE padLeaf
         /\ k > 0 => /\ 2^(Deep - (k - 1)) = 2 * 2^(Deep - k)
                     /\ \A i \in 1 .. 2^(Deep - k) :
                          L[k][i] = nodeHash(L[k - 1][2 * i - 1], L[k - 1][2 * i])
  <1> DEFINE lv == Leaves(values, nonces)
             L  == Levels(values, nonces)
             N  == Len(FIELDS)
  <1>1. N \in Nat /\ DOMAIN FIELDS = 1 .. N
    BY Table
  <1>2. /\ lv = [i \in 1 .. N |-> leafHash(FIELD_ORDER[i], values[FIELD_ORDER[i]], nonces[i])]
    BY <1>1 DEF Leaves
  <1>3. Len(lv) = N
    BY <1>1, <1>2
  <1>4. Deep \in Nat /\ 2^Deep >= N /\ Deep - k \in Nat
    <2>1. Deep \in Nat /\ N <= 2^Deep
      BY <1>1, DepthHolds DEF Deep
    <2>2. 2^Deep \in Nat
      BY <2>1, PowerGrows
    <2> QED BY <1>1, <2>1, <2>2
  <1>5. 2^(Deep - k) \in Nat \ {0} /\ 2^Deep \in Nat
    BY <1>4, PowerGrows
  <1>6. /\ k = 0 => L[k] = Padded(lv)
        /\ k > 0 => \A i \in 1 .. 2^(Deep - k) :
                      L[k][i] = nodeHash(L[k - 1][2 * i - 1], L[k - 1][2 * i])
    <2>1. L = buildLevels(lv) /\ k \in 0 .. Depth(Len(lv)) /\ Len(lv) \in Nat /\ Deep = Depth(Len(lv))
      BY <1>1, <1>3 DEF Deep, Levels
    <2> HIDE DEF lv, L
    <2> QED BY <2>1, LevelWidths
  <1>7. ASSUME k = 0, NEW i \in 1 .. 2^Deep
        PROVE  L[k][i] = IF i <= N
                         THEN leafHash(FIELD_ORDER[i], values[FIELD_ORDER[i]], nonces[i])
                         ELSE padLeaf
    <2>1. L[k][i] = IF i <= N THEN lv[i] ELSE padLeaf
      <3> HIDE DEF lv, L
      <3> QED BY <1>3, <1>6, <1>7 DEF Padded, Deep
    <2>2. i <= N => lv[i] = leafHash(FIELD_ORDER[i], values[FIELD_ORDER[i]], nonces[i])
      BY <1>1, <1>2, <1>5
    <2> HIDE DEF lv, L
    <2> QED BY <2>1, <2>2
  <1>8. ASSUME k > 0
        PROVE  /\ 2^(Deep - (k - 1)) = 2 * 2^(Deep - k)
               /\ \A i \in 1 .. 2^(Deep - k) :
                    L[k][i] = nodeHash(L[k - 1][2 * i - 1], L[k - 1][2 * i])
    <2>1. Deep - (k - 1) = (Deep - k) + 1
      BY <1>4
    <2>2. 2^(Deep - (k - 1)) = 2 * 2^(Deep - k)
      BY <1>4, <2>1, PowerStep
    <2> HIDE DEF L
    <2> QED BY <1>6, <1>8, <2>2
  <1> HIDE DEF L
  <1> QED BY <1>4, <1>5, <1>7, <1>8 DEF L

\* The root is the one hash of the last level.
LEMMA RootIs ==
  ASSUME NEW values, NEW nonces
  PROVE  /\ commitCanonicalForm(values, nonces).root = Levels(values, nonces)[Deep][1]
         /\ commitCanonicalForm(values, nonces).leaves = Leaves(values, nonces)
         /\ commitCanonicalForm(values, nonces).values = values
         /\ commitCanonicalForm(values, nonces).nonces = nonces
  <1> DEFINE lv == Leaves(values, nonces)
  <1>1. lv = [i \in 1 .. Len(FIELDS) |-> leafHash(FIELD_ORDER[i], values[FIELD_ORDER[i]],
                                                  nonces[i])]
    BY Table DEF Leaves
  <1>2. Len(lv) = Len(FIELDS)
    BY <1>1, Table
  <1> HIDE DEF lv
  <1>3. commitCanonicalForm(values, nonces) =
          [root |-> rootFromLeaves(lv), leaves |-> lv, nonces |-> nonces, values |-> values]
    BY DEF commitCanonicalForm, lv, Leaves
  <1>4. rootFromLeaves(lv) = buildLevels(lv)[Deep][1]
    BY <1>2 DEF rootFromLeaves, Deep
  <1> QED BY <1>3, <1>4 DEF Levels, lv

\* The three kinds of hash differ, and each tells what it was made from.
LEMMA Tags ==
  /\ \A f, v, n, f2, v2, n2 :
       leafHash(f, v, n) = leafHash(f2, v2, n2) => f = f2 /\ v = v2 /\ n = n2
  /\ \A a, b, a2, b2 : nodeHash(a, b) = nodeHash(a2, b2) => a = a2 /\ b = b2
  /\ \A f, v, n : leafHash(f, v, n).tag = "leaf"
  /\ \A a, b : nodeHash(a, b).tag = "node"
  /\ padLeaf.tag = "pad"
  <1>1. \A f, v, n : /\ leafHash(f, v, n).tag = "leaf" /\ leafHash(f, v, n).field = f
                     /\ leafHash(f, v, n).value = v /\ leafHash(f, v, n).nonce = n
    BY DEF leafHash
  <1>2. \A a, b : /\ nodeHash(a, b).tag = "node" /\ nodeHash(a, b).left = a
                  /\ nodeHash(a, b).right = b
    BY DEF nodeHash
  <1>3. padLeaf.tag = "pad"
    BY DEF padLeaf
  <1> QED BY <1>1, <1>2, <1>3

\* A proof that folds up to the root is of a leaf of the tree, with the field, the
\* value and the nonce that are there (rootFromProof).
LEMMA FoldSound ==
  ASSUME NEW values, NEW nonces, NEW proof, Len(proof.path) \in Nat,
         rootFromProof(proof) = Levels(values, nonces)[Deep][1]
  PROVE  \E i \in 1 .. Len(FIELDS) : /\ proof.field = FIELD_ORDER[i]
                                     /\ proof.value = values[FIELD_ORDER[i]]
                                     /\ proof.nonce = nonces[i]
  <1> DEFINE L == Levels(values, nonces)
             F == Fold(proof)
             m == Len(proof.path)
             On(j) == j <= Deep /\ \E i \in 1 .. 2^j : F[m - j] = L[Deep - j][i]
             T == {j \in Nat : j <= m => On(j)}
  <1>1. Deep \in Nat
    BY Table, DepthHolds DEF Deep
  <1>2. /\ F[0] = leafHash(proof.field, proof.value, proof.nonce)
        /\ \A n \in 1 .. m : \/ \E h : F[n] = nodeHash(h, F[n - 1])
                             \/ \E h : F[n] = nodeHash(F[n - 1], h)
    <2>1. \A n \in 1 .. m : F[n] = IF proof.path[n].side = "left"
                                  THEN nodeHash(proof.path[n].hash, F[n - 1])
                                  ELSE nodeHash(F[n - 1], proof.path[n].hash)
      BY FoldIs
    <2>2. F[0] = leafHash(proof.field, proof.value, proof.nonce)
      BY FoldIs
    <2> HIDE DEF F, m
    <2> QED BY <2>1, <2>2
  <1>3. \A k \in 0 .. Deep :
          /\ 2^(Deep - k) \in Nat
          /\ k = 0 => \A i \in 1 .. 2^Deep :
                        L[k][i] = IF i <= Len(FIELDS)
                                  THEN leafHash(FIELD_ORDER[i], values[FIELD_ORDER[i]],
                                                nonces[i])
                                  ELSE padLeaf
          /\ k > 0 => /\ 2^(Deep - (k - 1)) = 2 * 2^(Deep - k)
                      /\ \A i \in 1 .. 2^(Deep - k) :
                           L[k][i] = nodeHash(L[k - 1][2 * i - 1], L[k - 1][2 * i])
    BY Tree
  <1> HIDE DEF L, F, m
  <1>3a. 0 \in T
    <2>1. F[m - 0] = L[Deep - 0][1] /\ m \in Nat
      BY <1>1 DEF rootFromProof, F, L, m
    <2>2. 2^0 = 1
      OBVIOUS
    <2> QED BY <1>1, <2>1, <2>2
  <1>4. ASSUME NEW k \in 0 .. Deep, NEW i \in 1 .. 2^(Deep - k), NEW a, NEW b,
               L[k][i] = nodeHash(a, b)
        PROVE  /\ k > 0 /\ 2^(Deep - (k - 1)) = 2 * 2^(Deep - k)
               /\ a = L[k - 1][2 * i - 1] /\ b = L[k - 1][2 * i]
               /\ 2^(Deep - k) \in Nat
    <2>1. k > 0
      <3> SUFFICES ASSUME k = 0  PROVE FALSE
        BY <1>1
      <3>1. i \in 1 .. 2^Deep
        BY <1>1
      <3>2. L[k][i] = IF i <= Len(FIELDS)
                      THEN leafHash(FIELD_ORDER[i], values[FIELD_ORDER[i]], nonces[i])
                      ELSE padLeaf
        BY <1>3, <3>1
      <3>3. nodeHash(a, b).tag = "node"
        BY Tags
      <3>4. leafHash(FIELD_ORDER[i], values[FIELD_ORDER[i]], nonces[i]).tag = "leaf"
        BY Tags
      <3>5. padLeaf.tag = "pad"
        BY Tags
      <3> QED BY <1>4, <3>2, <3>3, <3>4, <3>5
    <2>2. 2^(Deep - (k - 1)) = 2 * 2^(Deep - k) /\ 2^(Deep - k) \in Nat
      BY <1>3, <2>1
    <2>3. L[k][i] = nodeHash(L[k - 1][2 * i - 1], L[k - 1][2 * i])
      BY <1>3, <2>1
    <2>4. nodeHash(a, b) = nodeHash(L[k - 1][2 * i - 1], L[k - 1][2 * i])
      BY <1>4, <2>3
    <2>5. a = L[k - 1][2 * i - 1] /\ b = L[k - 1][2 * i]
      BY <2>4, Tags
    <2> QED BY <2>1, <2>2, <2>5
  <1>5. ASSUME NEW j \in Nat, j \in T  PROVE j + 1 \in T
    <2>1. SUFFICES ASSUME j + 1 <= m  PROVE On(j + 1)
      BY <1>5
    <2>2. m \in Nat /\ j <= m /\ m - j \in 1 .. m /\ (m - j) - 1 = m - (j + 1)
      BY <2>1 DEF m
    <2>3. j <= Deep /\ \E i \in 1 .. 2^j : F[m - j] = L[Deep - j][i]
      BY <1>5, <2>2
    <2>4. PICK i \in 1 .. 2^j : F[m - j] = L[Deep - j][i]
      BY <2>3
    <2>5. Deep - j \in 0 .. Deep /\ Deep - (Deep - j) = j /\ (Deep - j) - 1 = Deep - (j + 1)
          /\ Deep - ((Deep - j) - 1) = j + 1
      BY <1>1, <2>3
    <2>6. PICK a, b : L[Deep - j][i] = nodeHash(a, b) /\ F[m - (j + 1)] \in {a, b}
      BY <1>2, <2>2, <2>4
    <2>7. /\ Deep - j > 0 /\ 2^(j + 1) = 2 * 2^j
          /\ a = L[Deep - (j + 1)][2 * i - 1] /\ b = L[Deep - (j + 1)][2 * i]
          /\ 2^j \in Nat
      BY <1>4, <2>5, <2>6, SMTT(30)
    <2>8. 2 * i - 1 \in 1 .. 2^(j + 1) /\ 2 * i \in 1 .. 2^(j + 1)
      BY <2>4, <2>7
    <2>9. j + 1 <= Deep
      BY <1>1, <2>3, <2>7
    <2> QED BY <2>6, <2>7, <2>8, <2>9
  <1>6. On(m)
    <2>1. Nat \subseteq T
      <3> HIDE DEF T
      <3> QED BY <1>3a, <1>5, NatSet
    <2>2. m \in Nat /\ m \in T
      BY <2>1 DEF m
    <2> HIDE DEF On
    <2> QED BY <2>2
  <1>7. PICK i \in 1 .. 2^m : F[0] = L[Deep - m][i]
    <2>1. m - m = 0
      BY DEF m
    <2> QED BY <1>6, <2>1
  <1>8. m \in Nat /\ Deep - m \in 0 .. Deep /\ Deep - (Deep - m) = m
    BY <1>1, <1>6 DEF m
  <1>9. Deep - m = 0
    <2> SUFFICES ASSUME Deep - m > 0  PROVE FALSE
      BY <1>1, <1>8
    <2> DEFINE k == Deep - m
    <2>1. k \in 0 .. Deep /\ k > 0 /\ i \in 1 .. 2^(Deep - k)
      BY <1>7, <1>8
    <2>2. F[0] = nodeHash(L[k - 1][2 * i - 1], L[k - 1][2 * i])
      <3>1. F[0] = L[k][i]
        BY <1>7
      <3> HIDE DEF k
      <3> QED BY <1>3, <2>1, <3>1
    <2>3. F[0].tag = "leaf"
      BY <1>2, Tags
    <2>4. nodeHash(L[k - 1][2 * i - 1], L[k - 1][2 * i]).tag = "node"
      BY Tags
    <2> HIDE DEF k
    <2> QED BY <2>2, <2>3, <2>4
  <1>10. i \in 1 .. 2^Deep
    BY <1>1, <1>7, <1>8, <1>9
  <1>11. L[0][i] = IF i <= Len(FIELDS)
                   THEN leafHash(FIELD_ORDER[i], values[FIELD_ORDER[i]], nonces[i])
                   ELSE padLeaf
    BY <1>1, <1>3, <1>10
  <1>12. L[0][i] = leafHash(proof.field, proof.value, proof.nonce)
    BY <1>2, <1>7, <1>9
  <1>13. i <= Len(FIELDS)
    <2>1. L[0][i].tag = "leaf" /\ padLeaf.tag # "leaf"
      BY <1>12, Tags
    <2> QED BY <1>11, <2>1
  <1>14. /\ proof.field = FIELD_ORDER[i] /\ proof.value = values[FIELD_ORDER[i]]
         /\ proof.nonce = nonces[i]
    BY <1>11, <1>12, <1>13, Tags
  <1> QED BY <1>10, <1>13, <1>14, Table

\* Two trees with the same root have the same leaves: a root commits to every value
\* and every nonce.
LEMMA RootCommits ==
  ASSUME NEW v, NEW n, NEW v2, NEW n2,
         Levels(v, n)[Deep][1] = Levels(v2, n2)[Deep][1]
  PROVE  \A i \in 1 .. Len(FIELDS) : /\ v[FIELD_ORDER[i]] = v2[FIELD_ORDER[i]]
                                     /\ n[i] = n2[i]
  <1> DEFINE L == Levels(v, n)
             M == Levels(v2, n2)
             T == {j \in Nat : j <= Deep => \A i \in 1 .. 2^j : L[Deep - j][i] = M[Deep - j][i]}
  <1>1. Deep \in Nat /\ 2^Deep \in Nat /\ Len(FIELDS) \in Nat /\ Len(FIELDS) <= 2^Deep
    <2>1. Len(FIELDS) \in Nat
      BY Table
    <2>2. Deep \in Nat /\ Len(FIELDS) <= 2^Deep
      BY <2>1, DepthHolds DEF Deep
    <2> QED BY <2>1, <2>2, PowerGrows
  <1>2. \A k \in 0 .. Deep : k > 0 =>
          /\ 2^(Deep - (k - 1)) = 2 * 2^(Deep - k) /\ 2^(Deep - k) \in Nat
          /\ \A i \in 1 .. 2^(Deep - k) :
               /\ L[k][i] = nodeHash(L[k - 1][2 * i - 1], L[k - 1][2 * i])
               /\ M[k][i] = nodeHash(M[k - 1][2 * i - 1], M[k - 1][2 * i])
    BY Tree
  <1>3. \A i \in 1 .. Len(FIELDS) :
          /\ L[0][i] = leafHash(FIELD_ORDER[i], v[FIELD_ORDER[i]], n[i])
          /\ M[0][i] = leafHash(FIELD_ORDER[i], v2[FIELD_ORDER[i]], n2[i])
    <2>1. SUFFICES ASSUME NEW i \in 1 .. Len(FIELDS)
                   PROVE  /\ L[0][i] = leafHash(FIELD_ORDER[i], v[FIELD_ORDER[i]], n[i])
                          /\ M[0][i] = leafHash(FIELD_ORDER[i], v2[FIELD_ORDER[i]], n2[i])
      OBVIOUS
    <2>2. 0 \in 0 .. Deep /\ i \in 1 .. 2^Deep /\ i <= Len(FIELDS)
      BY <1>1
    <2> QED BY <2>2, Tree
  <1> HIDE DEF L, M
  <1>4. 0 \in T
    <2>1. 2^0 = 1 /\ Deep - 0 = Deep
      BY <1>1
    <2> QED BY <2>1 DEF L, M
  <1>5. ASSUME NEW j \in Nat, j \in T  PROVE j + 1 \in T
    <2>1. SUFFICES ASSUME j + 1 <= Deep, NEW i \in 1 .. 2^(j + 1)
                   PROVE  L[Deep - (j + 1)][i] = M[Deep - (j + 1)][i]
      OBVIOUS
    <2> DEFINE k == Deep - j
               h == (i + 1) \div 2
    <2>2. k \in 0 .. Deep /\ k > 0 /\ k - 1 = Deep - (j + 1) /\ Deep - k = j
          /\ Deep - (k - 1) = j + 1 /\ j <= Deep
      BY <1>1, <2>1
    <2>3. 2^(j + 1) = 2 * 2^j /\ 2^j \in Nat
      BY PowerStep
    <2>4. h \in 1 .. 2^j /\ (i = 2 * h - 1 \/ i = 2 * h)
      BY <2>3
    <2> HIDE DEF k, h
    <2>5. /\ L[k][h] = nodeHash(L[k - 1][2 * h - 1], L[k - 1][2 * h])
          /\ M[k][h] = nodeHash(M[k - 1][2 * h - 1], M[k - 1][2 * h])
      BY <1>2, <2>2, <2>4
    <2>6. L[k][h] = M[k][h]
      <3>1. j <= Deep => \A m \in 1 .. 2^j : L[Deep - j][m] = M[Deep - j][m]
        BY <1>5
      <3> QED BY <2>2, <2>4, <3>1 DEF k
    <2>7. L[k - 1][2 * h - 1] = M[k - 1][2 * h - 1] /\ L[k - 1][2 * h] = M[k - 1][2 * h]
      <3>1. nodeHash(L[k - 1][2 * h - 1], L[k - 1][2 * h])
              = nodeHash(M[k - 1][2 * h - 1], M[k - 1][2 * h])
        BY <2>5, <2>6
      <3> QED BY <3>1, Tags
    <2> QED BY <2>2, <2>4, <2>7
  <1>6. \A i \in 1 .. 2^Deep : L[0][i] = M[0][i]
    <2>1. Nat \subseteq T
      <3> HIDE DEF T
      <3> QED BY <1>4, <1>5, NatSet
    <2>2. Deep \in T /\ Deep - Deep = 0
      BY <1>1, <2>1
    <2> QED BY <1>1, <2>2
  <1> SUFFICES ASSUME NEW i \in 1 .. Len(FIELDS)
               PROVE  v[FIELD_ORDER[i]] = v2[FIELD_ORDER[i]] /\ n[i] = n2[i]
    OBVIOUS
  <1>7. i \in 1 .. 2^Deep
    BY <1>1
  <1>8. leafHash(FIELD_ORDER[i], v[FIELD_ORDER[i]], n[i])
          = leafHash(FIELD_ORDER[i], v2[FIELD_ORDER[i]], n2[i])
    BY <1>3, <1>6, <1>7
  <1> QED BY <1>8, Tags

\* A field's ancestor on the next level is at half the place.
LEMMA Halves ==
  ASSUME NEW i \in Nat, NEW l \in Nat
  PROVE  /\ At(i, 0) = i
         /\ At(i, l) \in Nat
         /\ At(i, l + 1) = At(i, l) \div 2
  <1> DEFINE w == 2^l
             q == i \div w
             r == i % w
             h == q \div 2
             b == q % 2
             x == h * w
  <1>1. w \in Nat \ {0} /\ 2^(l + 1) = 2 * w /\ 2^0 = 1
    BY PowerGrows, PowerStep
  <1> HIDE DEF w
  <1>2. q \in Nat /\ r \in 0 .. w - 1 /\ i = q * w + r
    BY <1>1
  <1> HIDE DEF q, r
  <1>3. h \in Nat /\ b \in {0, 1} /\ q = 2 * h + b
    BY <1>2
  <1> HIDE DEF h, b
  <1>4. b * w \in 0 .. w
    BY <1>1, <1>3
  <1>5. i = h * (2 * w) + (b * w + r)
    BY <1>1, <1>2, <1>3
  <1>6. b * w + r \in 0 .. (2 * w) - 1
    BY <1>1, <1>2, <1>4
  <1>7. \A c \in Nat \ {0}, y \in Nat : \A z \in 0 .. c - 1 : (y * c + z) \div c = y
    OBVIOUS
  <1>8. i \div (2 * w) = h
    <2> DEFINE z == b * w + r
               c == 2 * w
    <2>1. i = h * c + z /\ z \in 0 .. c - 1 /\ c \in Nat \ {0}
      BY <1>1, <1>5, <1>6
    <2> HIDE DEF z, c
    <2>2. i \div c = h
      BY <1>3, <1>7, <2>1
    <2> QED BY <2>2 DEF c
  <1>9. At(i, 0) = i
    BY <1>1 DEF At
  <1> QED BY <1>1, <1>2, <1>8, <1>9 DEF At, w, q, h

\* What the proof of a field is: the sibling on every level, on the side it is on.
LEMMA ProofIs ==
  ASSUME NEW values, NEW nonces, NEW f \in FieldNames
  PROVE  LET p == proofForField(commitCanonicalForm(values, nonces), f)
             i == indexOf(f)
             L == Levels(values, nonces)
         IN  /\ p.field = f /\ p.value = values[f] /\ p.nonce = nonces[i + 1] /\ p.index = i
             /\ DOMAIN p.path = 1 .. Deep /\ Len(p.path) = Deep /\ Deep \in Nat
             /\ \A l \in 1 .. Deep :
                  /\ p.path[l].hash = L[l - 1][IF At(i, l - 1) % 2 = 1 THEN At(i, l - 1)
                                               ELSE At(i, l - 1) + 2]
                  /\ p.path[l].side = IF At(i, l - 1) % 2 = 1 THEN "left" ELSE "right"
  <1> DEFINE c  == commitCanonicalForm(values, nonces)
             p  == proofForField(c, f)
             i  == indexOf(f)
             L  == Levels(values, nonces)
             at(l) == At(i, l - 1)
             step(l) == [hash |-> L[l - 1][IF at(l) % 2 = 1 THEN at(l) ELSE at(l) + 2],
                         side |-> IF at(l) % 2 = 1 THEN "left" ELSE "right"]
             path == [l \in 1 .. Deep |-> step(l)]
  <1>1. /\ c.leaves = Leaves(values, nonces) /\ c.values = values /\ c.nonces = nonces
    BY RootIs
  <1>2. Len(Leaves(values, nonces)) = Len(FIELDS)
    <2>1. Leaves(values, nonces) =
            [k \in 1 .. Len(FIELDS) |-> leafHash(FIELD_ORDER[k], values[FIELD_ORDER[k]],
                                                 nonces[k])]
      BY Table DEF Leaves
    <2> QED BY <2>1, Table
  <1>3. Depth(Len(c.leaves)) = Deep /\ buildLevels(c.leaves) = L
    BY <1>1, <1>2 DEF Deep, Levels
  <1>4. Deep \in Nat
    BY Table, DepthHolds DEF Deep
  <1> HIDE DEF c, L
  <1>5. p = [field |-> f, value |-> c.values[f], nonce |-> c.nonces[i + 1], index |-> i,
             path |-> path]
    BY <1>3 DEF proofForField
  <1>6. DOMAIN path = 1 .. Deep /\ Len(path) = Deep
    <2> HIDE DEF step
    <2> QED BY <1>4
  <1>7. \A l \in 1 .. Deep : path[l] = step(l)
    <2> HIDE DEF step
    <2> QED OBVIOUS
  <1> HIDE DEF path, i, at
  <1>8. /\ p.field = f /\ p.value = values[f] /\ p.nonce = nonces[i + 1] /\ p.index = i
        /\ p.path = path
    BY <1>1, <1>5
  <1>9. \A l \in 1 .. Deep :
          /\ p.path[l].hash = L[l - 1][IF at(l) % 2 = 1 THEN at(l) ELSE at(l) + 2]
          /\ p.path[l].side = IF at(l) % 2 = 1 THEN "left" ELSE "right"
    <2>1. SUFFICES ASSUME NEW l \in 1 .. Deep
                   PROVE  /\ p.path[l].hash = L[l - 1][IF at(l) % 2 = 1 THEN at(l) ELSE at(l) + 2]
                          /\ p.path[l].side = IF at(l) % 2 = 1 THEN "left" ELSE "right"
      OBVIOUS
    <2>2. p.path[l] = step(l)
      <3> HIDE DEF step, p
      <3> QED BY <1>7, <1>8
    <2> HIDE DEF p
    <2> QED BY <2>2
  <1> HIDE DEF p
  <1> QED BY <1>4, <1>6, <1>8, <1>9 DEF p, c, L, i, at

\* The proof of a field folds up to the root, whichever field and whatever tree.
LEMMA FoldComplete ==
  ASSUME NEW values, NEW nonces, NEW f \in FieldNames
  PROVE  LET p == proofForField(commitCanonicalForm(values, nonces), f) IN
         /\ Len(p.path) = Deep
         /\ Fold(p)[Len(p.path)] = Levels(values, nonces)[Deep][1]
         /\ \A l \in 0 .. Deep : At(indexOf(f), l) \in 0 .. 2^(Deep - l) - 1
  <1> DEFINE p == proofForField(commitCanonicalForm(values, nonces), f)
             i == indexOf(f)
             L == Levels(values, nonces)
             F == Fold(p)
             On(l) == At(i, l) \in 0 .. 2^(Deep - l) - 1 /\ F[l] = L[l][At(i, l) + 1]
             T == {l \in Nat : l <= Deep => On(l)}
  <1>1. /\ Len(p.path) = Deep /\ Deep \in Nat
        /\ p.field = f /\ p.value = values[f] /\ p.nonce = nonces[i + 1]
        /\ \A l \in 1 .. Deep :
             /\ p.path[l].hash = L[l - 1][IF At(i, l - 1) % 2 = 1 THEN At(i, l - 1)
                                          ELSE At(i, l - 1) + 2]
             /\ p.path[l].side = IF At(i, l - 1) % 2 = 1 THEN "left" ELSE "right"
    BY ProofIs
  <1>2. i \in Nat /\ i + 1 \in 1 .. Len(FIELDS) /\ FIELD_ORDER[i + 1] = f
    BY Table
  <1>3. 2^Deep \in Nat /\ Len(FIELDS) \in Nat /\ Len(FIELDS) <= 2^Deep
    <2>1. Len(FIELDS) \in Nat
      BY Table
    <2>2. Deep \in Nat /\ Len(FIELDS) <= 2^Deep
      BY <2>1, DepthHolds DEF Deep
    <2> QED BY <2>1, <2>2, PowerGrows
  <1>4. /\ F[0] = leafHash(f, values[f], nonces[i + 1])
        /\ \A l \in 1 .. Deep :
             F[l] = IF At(i, l - 1) % 2 = 1
                    THEN nodeHash(L[l - 1][At(i, l - 1)], F[l - 1])
                    ELSE nodeHash(F[l - 1], L[l - 1][At(i, l - 1) + 2])
    <2>1. /\ F[0] = leafHash(p.field, p.value, p.nonce)
          /\ \A l \in 1 .. Deep :
               F[l] = IF p.path[l].side = "left" THEN nodeHash(p.path[l].hash, F[l - 1])
                      ELSE nodeHash(F[l - 1], p.path[l].hash)
      <3>1. Len(p.path) \in Nat /\ Len(p.path) = Deep
        BY <1>1
      <3> HIDE DEF p
      <3> QED BY <3>1, FoldIs
    <2> HIDE DEF F, p, i, L
    <2>2. ASSUME NEW l \in 1 .. Deep
          PROVE  F[l] = IF At(i, l - 1) % 2 = 1
                        THEN nodeHash(L[l - 1][At(i, l - 1)], F[l - 1])
                        ELSE nodeHash(F[l - 1], L[l - 1][At(i, l - 1) + 2])
      <3>1. CASE At(i, l - 1) % 2 = 1
        BY <1>1, <2>1, <3>1
      <3>2. CASE At(i, l - 1) % 2 # 1
        <4>1. p.path[l].side = "right" /\ p.path[l].hash = L[l - 1][At(i, l - 1) + 2]
          BY <1>1, <3>2
        <4> QED BY <2>1, <3>2, <4>1
      <3> QED BY <3>1, <3>2
    <2> QED BY <1>1, <2>1, <2>2
  <1>5. \A k \in 1 .. Deep :
          /\ 2^(Deep - (k - 1)) = 2 * 2^(Deep - k) /\ 2^(Deep - k) \in Nat
          /\ \A h \in 1 .. 2^(Deep - k) :
               L[k][h] = nodeHash(L[k - 1][2 * h - 1], L[k - 1][2 * h])
    <2>1. SUFFICES ASSUME NEW k \in 1 .. Deep
                   PROVE  /\ 2^(Deep - (k - 1)) = 2 * 2^(Deep - k) /\ 2^(Deep - k) \in Nat
                          /\ \A h \in 1 .. 2^(Deep - k) :
                               L[k][h] = nodeHash(L[k - 1][2 * h - 1], L[k - 1][2 * h])
      OBVIOUS
    <2>2. k \in 0 .. Deep /\ k > 0
      BY <1>1
    <2>3. 2^(Deep - k) \in Nat
      BY <2>2, Tree
    <2>4. 2^(Deep - (k - 1)) = 2 * 2^(Deep - k)
      BY <2>2, Tree
    <2>5. ASSUME NEW h \in 1 .. 2^(Deep - k)
          PROVE  L[k][h] = nodeHash(L[k - 1][2 * h - 1], L[k - 1][2 * h])
      BY <2>2, Tree
    <2> QED BY <2>3, <2>4, <2>5
  <1>6. L[0][i + 1] = leafHash(f, values[f], nonces[i + 1])
    <2>1. 0 \in 0 .. Deep /\ i + 1 \in 1 .. 2^Deep /\ i + 1 <= Len(FIELDS)
      BY <1>1, <1>2, <1>3
    <2> QED BY <1>2, <2>1, Tree
  <1> HIDE DEF F, L, i, p
  <1>7. 0 \in T
    <2>1. At(i, 0) = i /\ Deep - 0 = Deep /\ i \in 0 .. 2^Deep - 1
      BY <1>1, <1>2, <1>3, Halves
    <2> QED BY <1>4, <1>6, <2>1
  <1>8. ASSUME NEW n \in Nat, n \in T  PROVE n + 1 \in T
    <2>1. SUFFICES ASSUME n + 1 <= Deep  PROVE On(n + 1)
      OBVIOUS
    <2> DEFINE l == n + 1
               a == At(i, n)
               h == At(i, l)
    <2>2. l \in 1 .. Deep /\ l - 1 = n /\ n <= Deep
      BY <1>1, <2>1
    <2>3. On(n)
      BY <1>8, <2>2
    <2>4. a \in Nat /\ h = a \div 2
      BY <1>2, Halves
    <2>5. a \in 0 .. 2^(Deep - n) - 1 /\ F[n] = L[n][a + 1]
      BY <2>3
    <2>6. 2^(Deep - n) = 2 * 2^(Deep - l) /\ 2^(Deep - l) \in Nat
      BY <1>5, <2>2
    <2>7. /\ F[l] = IF a % 2 = 1 THEN nodeHash(L[n][a], F[n]) ELSE nodeHash(F[n], L[n][a + 2])
      BY <1>4, <2>2
    <2>8. h \in 0 .. 2^(Deep - l) - 1 /\ h + 1 \in 1 .. 2^(Deep - l)
          /\ (IF a % 2 = 1 THEN a = 2 * h + 1 ELSE a = 2 * h)
      <3> HIDE DEF a, h, l
      <3> QED BY <2>4, <2>5, <2>6
    <2>9. L[l][h + 1] = nodeHash(L[n][2 * (h + 1) - 1], L[n][2 * (h + 1)])
      <3> HIDE DEF h
      <3> QED BY <1>5, <2>2, <2>8
    <2> HIDE DEF a, h
    <2>10. /\ a % 2 = 1 => 2 * (h + 1) - 1 = a /\ 2 * (h + 1) = a + 1
           /\ a % 2 # 1 => 2 * (h + 1) - 1 = a + 1 /\ 2 * (h + 1) = a + 2
      BY <2>4, <2>8
    <2>11. F[l] = L[l][h + 1]
      BY <2>5, <2>7, <2>9, <2>10
    <2> QED BY <2>8, <2>11 DEF h
  <1>9. \A l \in 0 .. Deep : On(l)
    <2>1. Nat \subseteq T
      <3> HIDE DEF T
      <3> QED BY <1>7, <1>8, NatSet
    <2>2. \A l \in 0 .. Deep : l \in T /\ l <= Deep
      BY <1>1, <2>1
    <2> QED BY <2>2
  <1>10. At(i, Deep) = 0
    <2>1. Deep - Deep = 0 /\ 2^0 = 1
      BY <1>1
    <2>2. 2^(Deep - Deep) = 1
      BY <2>1
    <2> QED BY <1>1, <1>9, <2>2
  <1>11. F[Deep] = L[Deep][1]
    BY <1>1, <1>9, <1>10
  <1> QED BY <1>1, <1>9, <1>11 DEF F, L, p, i

\* The wanted fields are those asked for, each once.
LEMMA WantedAre ==
  ASSUME NEW fields, ToSet(fields) \subseteq FieldNames
  PROVE  /\ Cardinality(ToSet(fields)) \in Nat
         /\ DOMAIN Wanted(fields) = 1 .. Cardinality(ToSet(fields))
         /\ {Wanted(fields)[k] : k \in DOMAIN Wanted(fields)} = ToSet(fields)
  <1> DEFINE S        == ToSet(fields)
             kept     == {i \in DOMAIN FIELDS : FIELD_ORDER[i] \in S}
             upto(i)  == {h \in kept : h <= i}
             place(i) == Cardinality(upto(i))
             n        == Cardinality(kept)
             f        == [i \in kept |-> place(i)]
             g        == [i \in kept |-> FIELD_ORDER[i]]
             at(k)    == CHOOSE i \in kept : place(i) = k
  <1>1. DOMAIN FIELDS = 1 .. Len(FIELDS) /\ Len(FIELDS) \in Nat /\ kept \subseteq 1 .. Len(FIELDS)
    BY Table
  <1>2. IsFiniteSet(kept) /\ n \in Nat
    <2>1. IsFiniteSet(1 .. Len(FIELDS))
      <3> HIDE DEF kept
      <3> QED BY <1>1, FS_Interval
    <2> HIDE DEF kept
    <2> QED BY <1>1, <2>1, FS_Subset, FS_CardinalityType
  <1>3. \A i \in kept : /\ IsFiniteSet(upto(i)) /\ place(i) \in 1 .. n
                        /\ \A k \in kept : i < k => upto(i) # upto(k) /\ upto(i) \subseteq upto(k)
    <2>1. SUFFICES ASSUME NEW i \in kept
                   PROVE  /\ IsFiniteSet(upto(i)) /\ place(i) \in 1 .. n
                          /\ \A k \in kept : i < k => /\ upto(i) # upto(k)
                                                      /\ upto(i) \subseteq upto(k)
      OBVIOUS
    <2>2. i \in upto(i) /\ upto(i) \in SUBSET kept
      BY <1>1
    <2>3. IsFiniteSet(upto(i)) /\ place(i) <= n
      <3> HIDE DEF kept, upto
      <3> QED BY <1>2, <2>2, FS_Subset
    <2>4. place(i) \in Nat /\ place(i) # 0
      <3> HIDE DEF kept, upto
      <3> QED BY <2>2, <2>3, FS_CardinalityType, FS_EmptySet
    <2>5. \A k \in kept : i < k => k \in upto(k) /\ k \notin upto(i) /\ upto(i) \subseteq upto(k)
      BY <1>1
    <2> HIDE DEF kept, upto, n
    <2> QED BY <1>2, <2>3, <2>4, <2>5
  <1>4. \A i, k \in kept : place(i) = place(k) => i = k
    <2>1. SUFFICES ASSUME NEW i \in kept, NEW k \in kept, i < k
                   PROVE  place(i) # place(k)
      <3> HIDE DEF place
      <3> QED BY <1>1
    <2>2. upto(i) \in SUBSET upto(k) /\ upto(i) # upto(k) /\ IsFiniteSet(upto(k))
      BY <1>3, <2>1
    <2> HIDE DEF upto, kept
    <2> QED BY <2>2, FS_Subset
  <1>5. f \in Injection(kept, 1 .. n)
    <2> HIDE DEF place, kept, n
    <2> QED BY <1>3, <1>4 DEF Injection, IsInjective
  <1>6. f \in Surjection(kept, 1 .. n)
    <2>1. IsFiniteSet(1 .. n) /\ Cardinality(1 .. n) = n
      BY <1>2, FS_Interval
    <2> HIDE DEF f, kept
    <2> QED BY <1>5, <2>1, FS_Injection
  <1>7. \A k \in 1 .. n : at(k) \in kept /\ place(at(k)) = k
    <2> HIDE DEF place, kept, n
    <2> QED BY <1>6 DEF Surjection
  <1>8. \A i \in kept : at(place(i)) = i
    <2> HIDE DEF place, kept, n
    <2> QED BY <1>3, <1>4, <1>7
  <1>9. g \in Surjection(kept, S) /\ g \in Injection(kept, S)
    <2>1. \A i, k \in kept : FIELD_ORDER[i] = FIELD_ORDER[k] => i = k
      BY <1>1, Table
    <2>2. \A s \in S : \E i \in kept : FIELD_ORDER[i] = s
      BY <1>1, Table
    <2>3. \A i \in kept : FIELD_ORDER[i] \in S
      OBVIOUS
    <2> HIDE DEF kept, S
    <2> QED BY <2>1, <2>2, <2>3 DEF Surjection, Injection, IsInjective
  <1>10. Cardinality(S) = n
    <2> HIDE DEF g, kept, S
    <2> QED BY <1>2, <1>9, FS_Surjection
  <1>11. Wanted(fields) = [k \in 1 .. n |-> FIELD_ORDER[at(k)]]
    BY DEF Wanted
  <1>12. {Wanted(fields)[k] : k \in DOMAIN Wanted(fields)} = S
    <2>1. {Wanted(fields)[k] : k \in DOMAIN Wanted(fields)} = {FIELD_ORDER[at(k)] : k \in 1 .. n}
      <3> HIDE DEF at, n
      <3> QED BY <1>11
    <2>2. {FIELD_ORDER[at(k)] : k \in 1 .. n} = {FIELD_ORDER[i] : i \in kept}
      <3> HIDE DEF at, kept, n, place
      <3> QED BY <1>3, <1>7, <1>8
    <2>3. {FIELD_ORDER[i] : i \in kept} = S
      <3>1. \A s \in S : \E i \in kept : FIELD_ORDER[i] = s
        BY <1>1, Table
      <3> QED BY <3>1
    <2> QED BY <2>1, <2>2, <2>3
  <1> QED BY <1>2, <1>10, <1>11, <1>12

----------------------------------------------------------------------------
(* Documents.                                                              *)

\* A form that is not refused comes out as a value for each field.
LEMMA FormsAre ==
  ASSUME NEW form, canonicalizeForm(form) # << >>
  PROVE  canonicalizeForm(form) = [f \in FieldNames |-> canonicalizeForm(form)[f]]
  <1> DEFINE given(f) == IF f \in DOMAIN form THEN form[f] ELSE Null
             val(f) == canonicalizeField(FIELDS[indexOf(f) + 1], given(f))
             out == [f \in FieldNames |-> val(f)]
  <1>1. canonicalizeForm(form) = out
    BY DEF canonicalizeForm
  <1> HIDE DEF val
  <1> QED BY <1>1

\* What a field's rule makes of a value it makes again of what it made, unless the
\* spelling is one that does not settle.
LEMMA SettledField ==
  ASSUME NEW spec, NEW v \in RawValues,
         spec.kind \in {"identifier", "integer", "text", "timestamp", "enum"},
         canonicalizeField(spec, v) # Refused
  PROVE  canonicalizeField(spec, canonicalizeField(spec, v)) = canonicalizeField(spec, v)
           <=> ~Unsettled(spec, v)
  <1> DEFINE w == canonicalizeField(spec, v)
  <1>0. /\ v.type \in {"null", "string", "number"}
        /\ v = [type |-> v.type, body |-> v.body, style |-> v.style]
    BY DEF RawValues
  <1>1. CASE v.type = "null"
    BY <1>1 DEF canonicalizeField, Null, Unsettled
  <1>2. CASE v.type # "null" /\ spec.kind = "integer"
    BY <1>0, <1>2 DEF canonicalizeField, normalizeInteger, Refused, Unsettled
  <1>3. CASE v.type = "number" /\ spec.kind # "integer"
    BY <1>3 DEF canonicalizeField
  <1>4. CASE v.type = "string" /\ spec.kind = "identifier"
    <2> DEFINE noise == {"decomposed", "spaces", "separators", "lowercase"} \cup Loosening
    <2>1. w = normalizeIdentifier(v)
      BY <1>4 DEF canonicalizeField
    <2>2. Without(v, noise) = [type |-> "string", body |-> v.body, style |-> v.style \ noise]
      BY <1>0, <1>4 DEF Without
    <2>3. CASE v.style \cap Loosening = {}
      <3>1. w = [type |-> "string", body |-> v.body, style |-> v.style \ noise]
        BY <2>1, <2>2, <2>3 DEF normalizeIdentifier
      <3>2. w.style \cap Loosening = {} /\ w.style \ noise = w.style
        BY <3>1
      <3>3. Without(w, noise) = w
        BY <3>1, <3>2 DEF Without
      <3>4. canonicalizeField(spec, w) = normalizeIdentifier(w)
        BY <1>4, <3>1 DEF canonicalizeField
      <3>5. normalizeIdentifier(w) = w
        <4> HIDE DEF w
        <4> QED BY <3>2, <3>3 DEF normalizeIdentifier
      <3> QED BY <1>4, <2>3, <3>4, <3>5 DEF Unsettled
    <2>4. CASE v.style \cap Loosening # {}
      <3>1. w = [type |-> "string", body |-> v.body,
                 style |-> (v.style \ noise) \cup {"decomposed"}]
        BY <2>1, <2>2, <2>4 DEF normalizeIdentifier
      <3>2. w.style \cap Loosening = {} /\ "decomposed" \in w.style
        BY <3>1 DEF Loosening
      <3>3. "decomposed" \notin Without(w, noise).style
        BY <3>1 DEF Without
      <3>4. canonicalizeField(spec, w) = normalizeIdentifier(w)
        BY <1>4, <3>1 DEF canonicalizeField
      <3>5. normalizeIdentifier(w) = Without(w, noise)
        <4> HIDE DEF w
        <4> QED BY <3>2 DEF normalizeIdentifier
      <3> QED BY <1>4, <2>4, <3>2, <3>3, <3>4, <3>5 DEF Unsettled
    <2> QED BY <2>3, <2>4
  <1>5. CASE v.type = "string" /\ spec.kind = "text"
    <2> DEFINE noise == {"decomposed", "spaces"}
    <2>1. w = [type |-> "string", body |-> v.body, style |-> v.style \ noise]
      BY <1>0, <1>5 DEF canonicalizeField, normalizeText, Without
    <2>2. canonicalizeField(spec, w) = Without(w, noise)
      BY <1>5, <2>1 DEF canonicalizeField, normalizeText
    <2>3. Without(w, noise) = w
      BY <2>1 DEF Without
    <2> QED BY <1>5, <2>2, <2>3 DEF Unsettled
  <1>6. CASE v.type = "string" /\ spec.kind = "timestamp"
    <2> DEFINE noise == {"spaces", "lowercase", "zone", "millis"}
               utc   == Without(v, noise)
    <2>1. w = normalizeTimestamp(v)
      BY <1>6 DEF canonicalizeField
    <2>2. utc = [type |-> "string", body |-> v.body, style |-> v.style \ noise]
      BY <1>0, <1>6 DEF Without
    <2>3. CASE utc.style = {}
      <3>1. w = [type |-> "string", body |-> v.body, style |-> {}]
        BY <2>1, <2>2, <2>3 DEF normalizeTimestamp
      <3>2. canonicalizeField(spec, w) = normalizeTimestamp(w)
        BY <1>6, <3>1 DEF canonicalizeField
      <3>3. Without(w, noise) = w /\ w.style = {}
        BY <3>1 DEF Without
      <3>4. normalizeTimestamp(w) = w
        <4> HIDE DEF w
        <4> QED BY <3>3 DEF normalizeTimestamp
      <3>5. "edge" \notin v.style
        BY <2>2, <2>3
      <3> QED BY <1>6, <3>2, <3>4, <3>5 DEF Unsettled
    <2>4. CASE utc.style = {"edge"}
      <3>1. w = [type |-> "string", body |-> v.body, style |-> {"beyond"}]
        BY <2>1, <2>2, <2>4 DEF normalizeTimestamp
      <3>2. canonicalizeField(spec, w) = normalizeTimestamp(w)
        BY <1>6, <3>1 DEF canonicalizeField
      <3>3. Without(w, noise).style = {"beyond"}
        BY <3>1 DEF Without
      <3>4. normalizeTimestamp(w) = Refused
        <4> HIDE DEF w
        <4> QED BY <3>3 DEF normalizeTimestamp
      <3>5. "edge" \in v.style
        BY <2>2, <2>4
      <3> QED BY <1>6, <3>2, <3>4, <3>5 DEF Unsettled
    <2>5. CASE utc.style # {} /\ utc.style # {"edge"}
      <3>1. w = Refused
        BY <2>1, <2>5 DEF normalizeTimestamp
      <3> QED BY <3>1
    <2> QED BY <2>3, <2>4, <2>5
  <1>7. CASE v.type = "string" /\ spec.kind = "enum"
    <2> DEFINE noise == {"decomposed", "spaces", "lowercase"}
               upper == Without(v, noise)
    <2>1. w = normalizeEnum(spec, v)
      BY <1>7 DEF canonicalizeField
    <2>2. upper = [type |-> "string", body |-> v.body, style |-> v.style \ noise]
      BY <1>0, <1>7 DEF Without
    <2>3. w = upper /\ upper.style = {} /\ upper.body \in spec.values
      <3> HIDE DEF w
      <3> QED BY <2>1 DEF normalizeEnum, w
    <2>4. w = [type |-> "string", body |-> v.body, style |-> {}] /\ v.body \in spec.values
      <3> HIDE DEF w
      <3> QED BY <2>2, <2>3
    <2>5. canonicalizeField(spec, w) = normalizeEnum(spec, w)
      BY <1>7, <2>4 DEF canonicalizeField
    <2>6. Without(w, noise) = w
      BY <2>4 DEF Without
    <2>7. normalizeEnum(spec, w) = w
      <3> HIDE DEF w
      <3> QED BY <2>4, <2>6 DEF normalizeEnum
    <2> QED BY <1>7, <2>5, <2>7 DEF Unsettled
  <1> QED BY <1>0, <1>1, <1>2, <1>3, <1>4, <1>5, <1>6, <1>7

\* So does a form, exactly if every spelling in it settles.
LEMMA SettledForm ==
  ASSUME NEW form \in Forms, canonicalizeForm(form) # << >>
  PROVE  canonicalizeForm(canonicalizeForm(form)) = canonicalizeForm(form)
           <=> \A f \in FieldNames \cap DOMAIN form :
                 ~Unsettled(FIELDS[indexOf(f) + 1], form[f])
  <1> DEFINE spec(f)  == FIELDS[indexOf(f) + 1]
             given(f) == IF f \in DOMAIN form THEN form[f] ELSE Null
             once(f)  == canonicalizeField(spec(f), given(f))
             w        == canonicalizeForm(form)
             twice(f) == canonicalizeField(spec(f), once(f))
             out      == [f \in FieldNames |-> twice(f)]
  <1>1. /\ w = [f \in FieldNames |-> once(f)]
        /\ DOMAIN form \subseteq FieldNames
        /\ \A f \in FieldNames : once(f) # Refused
    BY DEF canonicalizeForm
  <1>2. ASSUME NEW f \in FieldNames
        PROVE  spec(f).kind \in {"identifier", "integer", "text", "timestamp", "enum"}
    BY Table, CommitmentAssumption
  <1>3. ASSUME NEW f \in FieldNames
        PROVE  twice(f) = once(f) <=> ~(f \in DOMAIN form /\ Unsettled(spec(f), form[f]))
    <2>1. canonicalizeField(spec(f), given(f)) # Refused
      BY <1>1
    <2>2. CASE f \in DOMAIN form
      <3>1. given(f) \in RawValues /\ given(f) = form[f]
        BY <2>2, DisclosureAssumption
      <3> HIDE DEF spec, given
      <3> QED BY <1>2, <2>1, <2>2, <3>1, SettledField
    <2>3. CASE f \notin DOMAIN form
      <3>1. given(f) = Null
        BY <2>3
      <3>2. canonicalizeField(spec(f), Null) = Null
        <4> HIDE DEF spec
        <4> QED BY DEF canonicalizeField, Null
      <3> HIDE DEF spec, given
      <3> QED BY <2>3, <3>1, <3>2
    <2> QED BY <2>2, <2>3
  <1>4. canonicalizeForm(w) = IF \A f \in FieldNames : twice(f) # Refused THEN out ELSE << >>
    <2>1. DOMAIN w = FieldNames /\ \A f \in FieldNames : w[f] = once(f)
      BY <1>1
    <2>2. [f \in FieldNames |->
             canonicalizeField(spec(f), IF f \in DOMAIN w THEN w[f] ELSE Null)] = out
      <3> HIDE DEF w, once, spec
      <3> QED BY <2>1
    <2>3. canonicalizeForm(w) =
            LET o == [f \in FieldNames |->
                        canonicalizeField(spec(f), IF f \in DOMAIN w THEN w[f] ELSE Null)]
            IN  IF DOMAIN w \subseteq FieldNames /\ \A f \in FieldNames : o[f] # Refused
                THEN o ELSE << >>
      <3> HIDE DEF w
      <3> QED BY DEF canonicalizeForm
    <2> HIDE DEF w, once, twice, spec
    <2>4. \A f \in FieldNames : out[f] = twice(f)
      OBVIOUS
    <2> HIDE DEF out
    <2> QED BY <2>1, <2>2, <2>3, <2>4
  <1> HIDE DEF once, twice, given, spec
  <1>5. CASE \A f \in FieldNames : twice(f) = once(f)
    <2>1. out = w
      BY <1>1, <1>5
    <2>2. \A f \in FieldNames : twice(f) # Refused
      BY <1>1, <1>5
    <2>3. canonicalizeForm(w) = w
      BY <1>4, <2>1, <2>2
    <2> QED BY <1>3, <1>5, <2>3 DEF spec
  <1>6. CASE \E f \in FieldNames : twice(f) # once(f)
    <2>1. PICK f \in FieldNames : twice(f) # once(f)
      BY <1>6
    <2>2. out # w
      <3>1. out[f] = twice(f) /\ w[f] = once(f)
        BY <1>1
      <3> QED BY <2>1, <3>1
    <2>3. canonicalizeForm(w) # w
      BY <1>4, <2>2
    <2> QED BY <1>3, <2>1, <2>3 DEF spec
  <1> QED BY <1>5, <1>6

\* Two documents have one root exactly if they say the same.
LEMMA RootTells ==
  ASSUME NEW v, NEW v2, NEW n, NEW n2,
         v = [f \in FieldNames |-> v[f]], v2 = [f \in FieldNames |-> v2[f]],
         n = [i \in DOMAIN FIELDS |-> n[i]], n2 = [i \in DOMAIN FIELDS |-> n2[i]]
  PROVE  commitCanonicalForm(v, n).root = commitCanonicalForm(v2, n2).root
           <=> v = v2 /\ n = n2
  <1>1. SUFFICES ASSUME commitCanonicalForm(v, n).root = commitCanonicalForm(v2, n2).root
                 PROVE  v = v2 /\ n = n2
    OBVIOUS
  <1>2. Levels(v, n)[Deep][1] = Levels(v2, n2)[Deep][1]
    BY <1>1, RootIs
  <1>3. \A i \in 1 .. Len(FIELDS) : v[FIELD_ORDER[i]] = v2[FIELD_ORDER[i]] /\ n[i] = n2[i]
    BY <1>2, RootCommits
  <1>4. \A f \in FieldNames : v[f] = v2[f]
    BY <1>3, Table
  <1>5. \A i \in DOMAIN FIELDS : n[i] = n2[i]
    BY <1>3, Table
  <1>6. v = v2
    BY <1>4
  <1>7. n = n2
    BY <1>5
  <1> QED BY <1>6, <1>7

----------------------------------------------------------------------------
(* The invariant.                                                          *)

\* What was issued is a value and a nonce for each field, the nonces those drawn for
\* the release; the holder has a document of the same make.
PaperOK ==
  /\ DOMAIN issued = Docs /\ DOMAIN paper = Docs
  /\ \A d \in Issued :
       /\ issued[d].values # << >>
       /\ issued[d].values = [f \in FieldNames |-> issued[d].values[f]]
       /\ issued[d].typed \in Forms /\ issued[d].values = canonicalizeForm(issued[d].typed)
       /\ issued[d].nonces = [i \in DOMAIN FIELDS |-> NonceOf[<<d, i>>]]
       /\ DOMAIN paper[d] = {"version", "uri", "values", "nonces"}
       /\ paper[d].uri = d
       /\ DOMAIN paper[d].nonces = DOMAIN FIELDS

\* A disclosure as it was made: the proofs of the fields asked for, each once, in one
\* document, which is the one issued or is not.
AsMade(v, n) ==
  /\ v = [f \in FieldNames |-> v[f]]
  /\ n \in [DOMAIN FIELDS -> NONCES]
  /\ slip.asked \subseteq FieldNames /\ slip.asked # {}
  /\ slip.genuine = (v = issued[slip.doc].values /\ n = issued[slip.doc].nonces)
  /\ slip.untouched => slip.genuine = Plain(slip.doc)
  /\ Cardinality(slip.asked) \in Nat
  /\ DOMAIN slip.fields = 1 .. Cardinality(slip.asked)
  /\ Len(slip.fields) = Cardinality(slip.asked)
  /\ {slip.fields[k].field : k \in DOMAIN slip.fields} = slip.asked
  /\ \A k \in DOMAIN slip.fields :
       slip.fields[k] = proofForField(commitCanonicalForm(v, n), slip.fields[k].field)

ProofFields == {"field", "value", "nonce", "index", "path"}

SlipOK ==
  slip # Nothing =>
    /\ DOMAIN slip = {"doc", "fields", "asked", "amends", "genuine", "untouched"}
    /\ slip.doc \in Issued
    /\ slip.amends \in Nat
    /\ \A k \in DOMAIN slip.fields :
         /\ DOMAIN slip.fields[k] = ProofFields
         /\ Len(slip.fields[k].path) \in Nat
         /\ DOMAIN slip.fields[k].path = 1 .. Len(slip.fields[k].path)
    /\ slip.amends = 0 => \E v, n : AsMade(v, n)

\* An answer about the disclosure at hand is what checking it comes to; one about a
\* document, what its pages show.
AnswerOK ==
  /\ answer.of = "slip" =>
       /\ slip # Nothing
       /\ parseDisclosure(slip) = {} => answer.verified = FALSE
       /\ parseDisclosure(slip) # {} =>
            /\ answer.verified = (\A p \in ToSet(slip.fields) :
                                    rootFromProof(p) = Root(slip.doc))
            /\ answer.withheld = FieldNames \ {p.field : p \in ToSet(slip.fields)}
  /\ answer.of = "page" =>
       answer.matches = Unaltered(answer.doc) /\ answer.folds = Unaltered(answer.doc)

Inv == PaperOK /\ SlipOK /\ AnswerOK

----------------------------------------------------------------------------
(* It is kept.                                                             *)

LEMMA Kinds ==
  /\ Silence.of = "nothing"
  /\ DOMAIN Nothing = {"doc"}
  BY DEF Silence, Nothing

\* A copy opens the root exactly if it says what was issued.
LEMMA Opens ==
  ASSUME PaperOK, NEW d \in Issued
  PROVE  /\ \A b \in parseBundle(paper[d]) :
              /\ b.uri = d
              /\ b.values = canonicalizeForm(paper[d].values)
              /\ b.values = [f \in FieldNames |-> b.values[f]]
              /\ b.nonces \in [DOMAIN FIELDS -> NONCES]
              /\ Unaltered(d) <=> b.values = issued[d].values /\ b.nonces = issued[d].nonces
              /\ (commitmentFromBundle(b).root = Root(d)) <=> Unaltered(d)
         /\ Unaltered(d) => parseBundle(paper[d]) # {}
  <1>1. /\ d \in Docs /\ issued[d].values # << >>
        /\ issued[d].values = [f \in FieldNames |-> issued[d].values[f]]
        /\ issued[d].nonces = [i \in DOMAIN FIELDS |-> NonceOf[<<d, i>>]]
        /\ DOMAIN paper[d] = {"version", "uri", "values", "nonces"}
        /\ paper[d].uri = d
    BY DEF PaperOK, Issued
  <1>2. issued[d].nonces \in [DOMAIN FIELDS -> NONCES]
    <2>1. \A i \in DOMAIN FIELDS : NonceOf[<<d, i>>] \in NONCES
      BY <1>1, DisclosureAssumption
    <2> QED BY <1>1, <2>1
  <1>3. ASSUME NEW b \in parseBundle(paper[d])
        PROVE  /\ b.uri = d
               /\ b.values = canonicalizeForm(paper[d].values)
               /\ b.values = [f \in FieldNames |-> b.values[f]]
               /\ b.nonces \in [DOMAIN FIELDS -> NONCES]
               /\ Unaltered(d) <=> b.values = issued[d].values /\ b.nonces = issued[d].nonces
               /\ (commitmentFromBundle(b).root = Root(d)) <=> Unaltered(d)
    <2>1. /\ paper[d].version = FIELD_SET_VERSION
          /\ paper[d].nonces \in [DOMAIN FIELDS -> NONCES]
          /\ canonicalizeForm(paper[d].values) # << >>
          /\ b = [paper[d] EXCEPT !.values = canonicalizeForm(paper[d].values)]
      BY DEF parseBundle
    <2>2. /\ b.uri = d /\ b.values = canonicalizeForm(paper[d].values)
          /\ b.nonces = paper[d].nonces
      BY <1>1, <2>1
    <2>3. b.values = [f \in FieldNames |-> b.values[f]]
      BY <2>1, <2>2, FormsAre
    <2>4. Unaltered(d) <=> b.values = issued[d].values /\ b.nonces = issued[d].nonces
      BY <2>1, <2>2 DEF Unaltered
    <2>5. b.nonces = [i \in DOMAIN FIELDS |-> b.nonces[i]]
          /\ issued[d].nonces = [i \in DOMAIN FIELDS |-> issued[d].nonces[i]]
      BY <1>2, <2>1, <2>2
    <2>6. (commitmentFromBundle(b).root = Root(d))
            <=> b.values = issued[d].values /\ b.nonces = issued[d].nonces
      <3> DEFINE v  == b.values
                 v2 == issued[d].values
                 n  == b.nonces
                 n2 == issued[d].nonces
      <3>1. /\ v = [f \in FieldNames |-> v[f]] /\ v2 = [f \in FieldNames |-> v2[f]]
            /\ n = [i \in DOMAIN FIELDS |-> n[i]] /\ n2 = [i \in DOMAIN FIELDS |-> n2[i]]
        BY <1>1, <2>3, <2>5
      <3>2. commitCanonicalForm(v, n).root = commitCanonicalForm(v2, n2).root
              <=> v = v2 /\ n = n2
        <4> HIDE DEF v, v2, n, n2
        <4> QED BY <3>1, RootTells
      <3> QED BY <3>2 DEF commitmentFromBundle, Root
    <2> QED BY <2>1, <2>2, <2>3, <2>4, <2>6
  <1>4. ASSUME Unaltered(d)  PROVE parseBundle(paper[d]) # {}
    BY <1>1, <1>2, <1>4 DEF Unaltered, parseBundle
  <1> QED BY <1>3, <1>4

\* The copy as it was handed over says what was issued exactly if the form settled.
LEMMA AsHanded ==
  ASSUME PaperOK, NEW d \in Issued, Untouched(d)
  PROVE  Unaltered(d) = Plain(d)
  <1> DEFINE form == issued[d].typed
  <1>1. /\ d \in Docs /\ issued[d].values # << >> /\ form \in Forms
        /\ issued[d].values = canonicalizeForm(form)
    BY DEF PaperOK, Issued
  <1>2. /\ paper[d].version = FIELD_SET_VERSION
        /\ paper[d].values = issued[d].values
        /\ paper[d].nonces = issued[d].nonces
    BY DEF Untouched, buildBundle
  <1> HIDE DEF form
  <1>3. canonicalizeForm(canonicalizeForm(form)) = canonicalizeForm(form)
          <=> \A f \in FieldNames \cap DOMAIN form :
                ~Unsettled(FIELDS[indexOf(f) + 1], form[f])
    BY <1>1, SettledForm
  <1>4. Unaltered(d) <=> canonicalizeForm(canonicalizeForm(form)) = canonicalizeForm(form)
    BY <1>1, <1>2 DEF Unaltered
  <1>5. Plain(d) <=> \A f \in FieldNames \cap DOMAIN form :
                       ~Unsettled(FIELDS[indexOf(f) + 1], form[f])
    BY DEF Plain, form
  <1>6. Unaltered(d) \in BOOLEAN /\ Plain(d) \in BOOLEAN
    BY DEF Unaltered, Plain
  <1> QED BY <1>3, <1>4, <1>5, <1>6

LEMMA Starts == Init => Inv
  <1> SUFFICES ASSUME Init  PROVE Inv
    OBVIOUS
  <1>1. Issued = {}
    BY DEF Init, Issued
  <1>2. PaperOK
    BY <1>1 DEF Init, PaperOK
  <1>3. SlipOK /\ AnswerOK
    BY Kinds DEF Init, SlipOK, AnswerOK
  <1> QED BY <1>2, <1>3 DEF Inv

\* What an action leaves alone.
LEMMA Frames ==
  ASSUME [Next]_vars
  PROVE  /\ \/ UNCHANGED <<issued, paper>>
            \/ \E d \in Docs, form \in Forms : Issue(d, form)
            \/ \E d \in Docs, f \in FieldNames : Retype(d, f)
         /\ \/ UNCHANGED <<slip, issued>>
            \/ slip' = Nothing
            \/ slip = Nothing /\ slip' = slip
            \/ \E d \in Docs, fields \in Requests : Disclose(d, fields)
            \/ \E i \in DOMAIN FIELDS : Amend(i)
            \/ \E d \in Docs : Misfile(d)
         /\ \/ UNCHANGED vars
            \/ answer' = Silence
            \/ \E d \in Docs, f \in FieldNames : ShowForm(d, f)
            \/ CheckSlip
  <1>1. CASE UNCHANGED vars
    BY <1>1 DEF vars
  <1>2. CASE \E d \in Docs, form \in Forms : Issue(d, form)
    BY <1>2 DEF Issue
  <1>3. CASE \E d \in Docs, f \in FieldNames : Retype(d, f)
    BY <1>3 DEF Retype
  <1>4. CASE \E d \in Docs, f \in FieldNames : ShowForm(d, f)
    BY <1>4 DEF ShowForm
  <1>5. CASE \E d \in Docs, fields \in Requests : Disclose(d, fields)
    BY <1>5 DEF Disclose
  <1>6. CASE \E i \in DOMAIN FIELDS : Amend(i)
    BY <1>6 DEF Amend
  <1>7. CASE \E d \in Docs : Misfile(d)
    BY <1>7 DEF Misfile
  <1>8. CASE CheckSlip
    BY <1>8 DEF CheckSlip
  <1>9. CASE PutAway
    BY <1>9 DEF PutAway
  <1> QED BY <1>1, <1>2, <1>3, <1>4, <1>5, <1>6, <1>7, <1>8, <1>9 DEF Next

LEMMA IssueKeepsPaper ==
  ASSUME PaperOK, NEW d \in Docs, NEW form \in Forms, Issue(d, form)
  PROVE  PaperOK'
  <1> DEFINE v == canonicalizeForm(form)
             n == [i \in DOMAIN FIELDS |-> NonceOf[<<d, i>>]]
             c == commitCanonicalForm(v, n)
  <1>1. v # << >> /\ v = [f \in FieldNames |-> v[f]]
    BY FormsAre DEF Issue
  <1>2. c.values = v /\ c.nonces = n
    <2> HIDE DEF v, n
    <2> QED BY RootIs
  <1>3. /\ issued' = [issued EXCEPT ![d] = [doc |-> d, values |-> c.values, nonces |-> c.nonces,
                                           typed |-> form]]
        /\ paper' = [paper EXCEPT ![d] = buildBundle(d, c)]
    BY DEF Issue
  <1> HIDE DEF c, v
  <1>4. DOMAIN issued = Docs /\ DOMAIN paper = Docs
    BY DEF PaperOK
  <1>5. /\ DOMAIN issued' = Docs /\ DOMAIN paper' = Docs
        /\ \A e \in Docs \ {d} : issued'[e] = issued[e] /\ paper'[e] = paper[e]
        /\ issued'[d] = [doc |-> d, values |-> v, nonces |-> n, typed |-> form]
        /\ paper'[d] = [version |-> FIELD_SET_VERSION, uri |-> d, values |-> v, nonces |-> n]
    BY <1>2, <1>3, <1>4 DEF buildBundle
  <1>6. ASSUME NEW e \in Issued'
        PROVE  /\ issued'[e].values # << >>
               /\ issued'[e].values = [f \in FieldNames |-> issued'[e].values[f]]
               /\ issued'[e].typed \in Forms
               /\ issued'[e].values = canonicalizeForm(issued'[e].typed)
               /\ issued'[e].nonces = [i \in DOMAIN FIELDS |-> NonceOf[<<e, i>>]]
               /\ DOMAIN paper'[e] = {"version", "uri", "values", "nonces"}
               /\ paper'[e].uri = e
               /\ DOMAIN paper'[e].nonces = DOMAIN FIELDS
    <2>1. CASE e = d
      <3> HIDE DEF n
      <3>1. /\ issued'[e].values = v /\ issued'[e].nonces = n /\ issued'[e].typed = form
            /\ DOMAIN paper'[e] = {"version", "uri", "values", "nonces"}
            /\ paper'[e].uri = e /\ paper'[e].nonces = n
        BY <1>5, <2>1
      <3>2. n = [i \in DOMAIN FIELDS |-> NonceOf[<<e, i>>]] /\ DOMAIN n = DOMAIN FIELDS
        BY <2>1 DEF n
      <3> QED BY <1>1, <3>1, <3>2 DEF v
    <2>2. CASE e # d
      <3>1. e \in Issued /\ issued'[e] = issued[e] /\ paper'[e] = paper[e]
        BY <1>5, <2>2 DEF Issued
      <3> QED BY <3>1 DEF PaperOK
    <2> QED BY <2>1, <2>2
  <1> QED BY <1>5, <1>6 DEF PaperOK

LEMMA RetypeKeepsPaper ==
  ASSUME PaperOK, NEW d \in Docs, NEW f \in FieldNames, Retype(d, f)
  PROVE  PaperOK'
  <1>1. issued' = issued /\ d \in Issued
    BY DEF Retype
  <1>2. DOMAIN paper = Docs /\ DOMAIN paper[d] = {"version", "uri", "values", "nonces"}
        /\ paper[d].uri = d /\ DOMAIN paper[d].nonces = DOMAIN FIELDS
    BY <1>1 DEF PaperOK
  <1>3. \/ paper' = [paper EXCEPT ![d].version = FIELD_SET_VERSION - 1]
        \/ \E v : paper' = [paper EXCEPT ![d].values = v]
        \/ \E j, n : paper' = [paper EXCEPT ![d].nonces[j] = n]
    <2>1. CASE paper' = [paper EXCEPT ![d].version = FIELD_SET_VERSION - 1]
      BY <2>1
    <2>2. CASE \E v \in Retypings[f] : paper' = [paper EXCEPT ![d].values[f] = v]
      <3>1. PICK v : paper' = [paper EXCEPT ![d].values[f] = v]
        BY <2>2
      <3>2. paper' = [paper EXCEPT ![d].values = [paper[d].values EXCEPT ![f] = v]]
        BY <3>1
      <3> QED BY <3>2
    <2>3. CASE paper' = [paper EXCEPT ![d].values =
                           [k \in (FieldNames \ {f}) \cup {"misspelt"} |->
                              IF k = "misspelt" THEN @[f] ELSE @[k]]]
      <3> DEFINE v == [k \in (FieldNames \ {f}) \cup {"misspelt"} |->
                         IF k = "misspelt" THEN paper[d].values[f] ELSE paper[d].values[k]]
      <3>1. paper' = [paper EXCEPT ![d].values = v]
        BY <2>3
      <3> HIDE DEF v
      <3> QED BY <3>1
    <2>4. CASE \E n \in {Garbled, NonceOf[<<d, 1>>]} :
                 paper' = [paper EXCEPT ![d].nonces[indexOf(f) + 1] = n]
      BY <2>4
    <2> QED BY <2>1, <2>2, <2>3, <2>4 DEF Retype
  <1>4. /\ DOMAIN paper' = Docs
        /\ \A e \in Docs \ {d} : paper'[e] = paper[e]
        /\ DOMAIN paper'[d] = {"version", "uri", "values", "nonces"}
        /\ paper'[d].uri = d
        /\ DOMAIN paper'[d].nonces = DOMAIN FIELDS
    <2>1. CASE paper' = [paper EXCEPT ![d].version = FIELD_SET_VERSION - 1]
      BY <1>2, <2>1
    <2>2. CASE \E v : paper' = [paper EXCEPT ![d].values = v]
      BY <1>2, <2>2
    <2>3. CASE \E j, n : paper' = [paper EXCEPT ![d].nonces[j] = n]
      BY <1>2, <2>3
    <2> QED BY <1>3, <2>1, <2>2, <2>3
  <1>5. Issued' = Issued
    BY <1>1 DEF Issued
  <1>6. ASSUME NEW e \in Issued
        PROVE  /\ DOMAIN paper'[e] = {"version", "uri", "values", "nonces"}
               /\ paper'[e].uri = e
               /\ DOMAIN paper'[e].nonces = DOMAIN FIELDS
    BY <1>4 DEF PaperOK, Issued
  <1> QED BY <1>1, <1>4, <1>5, <1>6 DEF PaperOK

LEMMA PaperKept ==
  ASSUME PaperOK, [Next]_vars
  PROVE  PaperOK'
  <1>1. CASE UNCHANGED <<issued, paper>>
    <2>1. Issued' = Issued
      BY <1>1 DEF Issued
    <2> QED BY <1>1, <2>1 DEF PaperOK
  <1>2. CASE \E d \in Docs, form \in Forms : Issue(d, form)
    BY <1>2, IssueKeepsPaper
  <1>3. CASE \E d \in Docs, f \in FieldNames : Retype(d, f)
    BY <1>3, RetypeKeepsPaper
  <1> QED BY <1>1, <1>2, <1>3, Frames

\* A disclosure is made of the proofs of the fields asked for, in the document as the
\* holder has it.
LEMMA DiscloseMakes ==
  ASSUME PaperOK, NEW d \in Docs, NEW fields \in Requests, Disclose(d, fields)
  PROVE  SlipOK'
  <1>0. PICK b \in parseBundle(paper[d]) : \E s \in buildDisclosure(b, fields) :
          slip' = [doc |-> s.doc, fields |-> s.fields, asked |-> ToSet(fields), amends |-> 0,
                   genuine |-> Unaltered(d), untouched |-> Untouched(d)]
    BY DEF Disclose
  <1>1. PICK s \in buildDisclosure(b, fields) :
          slip' = [doc |-> s.doc, fields |-> s.fields, asked |-> ToSet(fields), amends |-> 0,
                   genuine |-> Unaltered(d), untouched |-> Untouched(d)]
    BY <1>0
  <1>2. d \in Issued /\ issued' = issued
    BY DEF Disclose
  <1> DEFINE c == commitCanonicalForm(b.values, b.nonces)
             w == Wanted(fields)
             m == Cardinality(ToSet(fields))
             proofs == [i \in DOMAIN w |-> proofForField(c, w[i])]
  <1>3. /\ fields # << >> /\ ToSet(fields) \subseteq FieldNames
        /\ s = [doc |-> b.uri, fields |-> proofs]
    BY DEF buildDisclosure
  <1>4. /\ m \in Nat /\ DOMAIN w = 1 .. m
        /\ {w[k] : k \in DOMAIN w} = ToSet(fields)
    <2> HIDE DEF w
    <2> QED BY <1>3, WantedAre DEF w
  <1>5. /\ b.uri = d
        /\ b.values = [f \in FieldNames |-> b.values[f]]
        /\ b.nonces \in [DOMAIN FIELDS -> NONCES]
        /\ Unaltered(d) = (b.values = issued[d].values /\ b.nonces = issued[d].nonces)
    <2>1. Unaltered(d) \in BOOLEAN
      BY DEF Unaltered
    <2> QED BY <1>2, <2>1, Opens
  <1> HIDE DEF c, m, w
  <1>6. DOMAIN proofs = 1 .. m /\ Len(proofs) = m /\ \A k \in 1 .. m : proofs[k] = proofForField(c, w[k])
    BY <1>4
  <1> HIDE DEF proofs
  <1>7. /\ DOMAIN slip' = {"doc", "fields", "asked", "amends", "genuine", "untouched"}
        /\ slip'.doc = d /\ slip'.fields = proofs /\ slip'.asked = ToSet(fields)
        /\ slip'.amends = 0 /\ slip'.genuine = Unaltered(d) /\ slip'.untouched = Untouched(d)
    BY <1>1, <1>3, <1>5
  <1>8. \A k \in 1 .. m :
          /\ w[k] \in FieldNames
          /\ proofs[k].field = w[k]
          /\ DOMAIN proofs[k] = ProofFields
          /\ Len(proofs[k].path) \in Nat
          /\ DOMAIN proofs[k].path = 1 .. Len(proofs[k].path)
    <2>1. SUFFICES ASSUME NEW k \in 1 .. m
                   PROVE  /\ w[k] \in FieldNames
                          /\ proofs[k].field = w[k]
                          /\ DOMAIN proofs[k] = ProofFields
                          /\ Len(proofs[k].path) \in Nat
                          /\ DOMAIN proofs[k].path = 1 .. Len(proofs[k].path)
      OBVIOUS
    <2>2. w[k] \in FieldNames
      BY <1>3, <1>4
    <2>3. /\ proofForField(c, w[k]).field = w[k]
          /\ DOMAIN proofForField(c, w[k]).path = 1 .. Deep
          /\ Len(proofForField(c, w[k]).path) = Deep /\ Deep \in Nat
      BY <2>2, ProofIs DEF c
    <2>4. DOMAIN proofForField(c, w[k]) = ProofFields
      BY DEF proofForField, ProofFields
    <2> QED BY <1>6, <2>2, <2>3, <2>4
  <1>9. {proofs[k].field : k \in DOMAIN proofs} = ToSet(fields)
    BY <1>4, <1>6, <1>8
  <1>10. ToSet(fields) # {}
    <2>1. fields \in Seq(ToSet(fields)) /\ fields # << >>
      BY <1>3, DisclosureAssumption
    <2>2. Len(fields) \in Nat \ {0} /\ DOMAIN fields = 1 .. Len(fields)
      BY <2>1
    <2>3. fields[1] \in ToSet(fields)
      BY <2>2 DEF ToSet
    <2> QED BY <2>3
  <1>11. AsMade(b.values, b.nonces)'
    <2>1. \A k \in DOMAIN slip'.fields :
            slip'.fields[k] = proofForField(c, slip'.fields[k].field)
      BY <1>6, <1>7, <1>8
    <2>2. slip'.untouched => slip'.genuine = Plain(d)
      BY <1>2, <1>7, AsHanded
    <2>3. Plain(slip.doc)' = Plain(d)
      BY <1>2, <1>7 DEF Plain
    <2> QED BY <1>2, <1>3, <1>4, <1>5, <1>6, <1>7, <1>9, <1>10, <2>1, <2>2, <2>3
        DEF AsMade, c, m
  <1>12. \E v, n : AsMade(v, n)'
    BY <1>11
  <1>13. d \in Issued'
    BY <1>2 DEF Issued
  <1> QED BY <1>6, <1>7, <1>8, <1>12, <1>13 DEF SlipOK

\* Whatever is changed on its way, a field keeps the make of a proof.
LEMMA AmendKeepsSlip ==
  ASSUME SlipOK, NEW i \in DOMAIN FIELDS, Amend(i)
  PROVE  SlipOK'
  <1> DEFINE q == slip.fields[i]
             Proper(p) == /\ DOMAIN p = ProofFields /\ Len(p.path) \in Nat
                          /\ DOMAIN p.path = 1 .. Len(p.path)
  <1>1. slip # Nothing /\ i \in DOMAIN slip.fields /\ issued' = issued
    BY DEF Amend
  <1>2. /\ DOMAIN slip = {"doc", "fields", "asked", "amends", "genuine", "untouched"}
        /\ slip.doc \in Issued /\ slip.amends \in Nat
        /\ \A k \in DOMAIN slip.fields : Proper(slip.fields[k])
    BY <1>1 DEF SlipOK
  <1>3. DOMAIN q = ProofFields /\ Len(q.path) \in Nat /\ DOMAIN q.path = 1 .. Len(q.path)
    BY <1>1, <1>2
  <1>4. \E p : Proper(p) /\ Change(i, p)
    <2>1. ASSUME NEW p, DOMAIN p = ProofFields, p.path = q.path, Change(i, p)
          PROVE  \E r : Proper(r) /\ Change(i, r)
      <3>1. Proper(p)
        BY <1>3, <2>1
      <3> HIDE DEF Proper
      <3> QED BY <2>1, <3>1
    <2>2. CASE \E v \in Retypings[q.field] : Change(i, [q EXCEPT !.value = v])
      <3>1. PICK v : Change(i, [q EXCEPT !.value = v])
        BY <2>2
      <3> DEFINE p == [q EXCEPT !.value = v]
      <3>2. DOMAIN p = ProofFields /\ p.path = q.path
        BY <1>3 DEF ProofFields
      <3> HIDE DEF p, q, Proper
      <3> QED BY <2>1, <3>1, <3>2 DEF p
    <2>3. CASE \E k \in DOMAIN FIELDS : Change(i, [q EXCEPT !.nonce = NonceOf[<<slip.doc, k>>]])
      <3>1. PICK k : Change(i, [q EXCEPT !.nonce = NonceOf[<<slip.doc, k>>]])
        BY <2>3
      <3> DEFINE p == [q EXCEPT !.nonce = NonceOf[<<slip.doc, k>>]]
      <3>2. DOMAIN p = ProofFields /\ p.path = q.path
        BY <1>3 DEF ProofFields
      <3> HIDE DEF p, q, Proper
      <3> QED BY <2>1, <3>1, <3>2 DEF p
    <2>4. CASE \E f \in FieldNames : Change(i, [q EXCEPT !.field = f])
      <3>1. PICK f : Change(i, [q EXCEPT !.field = f])
        BY <2>4
      <3> DEFINE p == [q EXCEPT !.field = f]
      <3>2. DOMAIN p = ProofFields /\ p.path = q.path
        BY <1>3 DEF ProofFields
      <3> HIDE DEF p, q, Proper
      <3> QED BY <2>1, <3>1, <3>2 DEF p
    <2>5. CASE \E f \in FieldNames : Change(i, [q EXCEPT !.field = f, !.index = indexOf(f)])
      <3>1. PICK f : Change(i, [q EXCEPT !.field = f, !.index = indexOf(f)])
        BY <2>5
      <3> DEFINE p == [q EXCEPT !.field = f, !.index = indexOf(f)]
      <3>2. DOMAIN p = ProofFields /\ p.path = q.path
        BY <1>3 DEF ProofFields
      <3> HIDE DEF p, q, Proper
      <3> QED BY <2>1, <3>1, <3>2 DEF p
    <2>6. CASE \E k \in DOMAIN slip.fields : Change(i, [q EXCEPT !.path = slip.fields[k].path])
      <3>1. PICK k \in DOMAIN slip.fields : Change(i, [q EXCEPT !.path = slip.fields[k].path])
        BY <2>6
      <3> DEFINE p == [q EXCEPT !.path = slip.fields[k].path]
      <3>2. DOMAIN p = ProofFields /\ p.path = slip.fields[k].path
        BY <1>3 DEF ProofFields
      <3>3. Proper(p)
        <4> HIDE DEF p, q
        <4> QED BY <1>2, <3>2
      <3> HIDE DEF Proper
      <3> QED BY <3>1, <3>3
    <2>7. CASE \E l \in DOMAIN q.path, s \in {"left", "right"} :
                 Change(i, [q EXCEPT !.path[l].side = s])
      <3>1. PICK l, s : Change(i, [q EXCEPT !.path[l].side = s])
        BY <2>7
      <3> DEFINE p == [q EXCEPT !.path[l].side = s]
      <3>2. DOMAIN p = ProofFields /\ DOMAIN p.path = DOMAIN q.path
        BY <1>3 DEF ProofFields
      <3>3. Proper(p)
        <4> HIDE DEF p, q
        <4> QED BY <1>3, <3>2
      <3> HIDE DEF Proper
      <3> QED BY <3>1, <3>3
    <2> HIDE DEF Proper
    <2> QED BY <2>2, <2>3, <2>4, <2>5, <2>6, <2>7 DEF Amend
  <1>5. PICK p : Proper(p) /\ Change(i, p)
    BY <1>4
  <1> HIDE DEF Proper, q
  <1>6. slip' = [slip EXCEPT !.fields = [slip.fields EXCEPT ![i] = p], !.amends = slip.amends + 1]
    BY <1>5 DEF Change
  <1>7. /\ DOMAIN slip' = {"doc", "fields", "asked", "amends", "genuine", "untouched"}
        /\ slip'.doc = slip.doc /\ slip'.amends = slip.amends + 1
        /\ slip'.fields = [slip.fields EXCEPT ![i] = p]
    BY <1>2, <1>6
  <1>8. \A k \in DOMAIN slip'.fields : Proper(slip'.fields[k])
    BY <1>2, <1>5, <1>7
  <1>9. slip'.doc \in Issued' /\ slip'.amends \in Nat /\ slip'.amends # 0
    BY <1>1, <1>2, <1>7 DEF Issued
  <1> QED BY <1>7, <1>8, <1>9 DEF SlipOK, Proper

LEMMA MisfileKeepsSlip ==
  ASSUME SlipOK, NEW d \in Docs, Misfile(d)
  PROVE  SlipOK'
  <1>1. /\ slip # Nothing /\ d \in Issued /\ issued' = issued
        /\ slip' = [slip EXCEPT !.doc = d, !.amends = @ + 1]
    BY DEF Misfile
  <1>2. /\ DOMAIN slip = {"doc", "fields", "asked", "amends", "genuine", "untouched"}
        /\ slip.amends \in Nat
        /\ \A k \in DOMAIN slip.fields :
             /\ DOMAIN slip.fields[k] = ProofFields
             /\ Len(slip.fields[k].path) \in Nat
             /\ DOMAIN slip.fields[k].path = 1 .. Len(slip.fields[k].path)
    BY <1>1 DEF SlipOK
  <1>3. /\ DOMAIN slip' = {"doc", "fields", "asked", "amends", "genuine", "untouched"}
        /\ slip'.doc = d /\ slip'.amends = slip.amends + 1 /\ slip'.fields = slip.fields
    BY <1>1, <1>2
  <1>4. slip'.doc \in Issued' /\ slip'.amends \in Nat /\ slip'.amends # 0
    BY <1>1, <1>2, <1>3 DEF Issued
  <1> QED BY <1>2, <1>3, <1>4 DEF SlipOK

LEMMA SlipKept ==
  ASSUME PaperOK, SlipOK, [Next]_vars
  PROVE  SlipOK'
  <1>1. CASE UNCHANGED <<slip, issued>>
    <2>1. Issued' = Issued
      BY <1>1 DEF Issued
    <2>2. \A v, n : AsMade(v, n) => AsMade(v, n)'
      <3>1. Plain(slip.doc)' = Plain(slip.doc)
        BY <1>1 DEF Plain
      <3> QED BY <1>1, <3>1 DEF AsMade
    <2>3. CASE slip = Nothing
      BY <1>1, <2>3 DEF SlipOK, Nothing
    <2>4. CASE slip # Nothing
      <3>1. slip.amends = 0 => \E v, n : AsMade(v, n)'
        BY <2>2, <2>4 DEF SlipOK
      <3>2. slip' = slip
        BY <1>1
      <3> QED BY <2>1, <2>4, <3>1, <3>2 DEF SlipOK
    <2> QED BY <2>3, <2>4
  <1>2. CASE slip' = Nothing
    BY <1>2 DEF SlipOK, Nothing
  <1>6. CASE slip = Nothing /\ slip' = slip
    BY <1>6 DEF SlipOK, Nothing
  <1>3. CASE \E d \in Docs, fields \in Requests : Disclose(d, fields)
    BY <1>3, DiscloseMakes
  <1>4. CASE \E i \in DOMAIN FIELDS : Amend(i)
    BY <1>4, AmendKeepsSlip
  <1>5. CASE \E d \in Docs : Misfile(d)
    BY <1>5, MisfileKeepsSlip
  <1> QED BY <1>1, <1>2, <1>3, <1>4, <1>5, <1>6, Frames

\* The page of a document shows a match, and folds the field up to the root, exactly
\* if the copy says what was issued.
LEMMA PageShows ==
  ASSUME PaperOK, NEW d \in Docs, NEW f \in FieldNames, ShowForm(d, f)
  PROVE  AnswerOK'
  <1>1. PICK b \in parseBundle(paper[d]) :
          LET c     == commitmentFromBundle(b)
              proof == proofForField(c, f)
          IN  answer' = [of |-> "page", doc |-> d, matches |-> c.root = Root(d),
                         folds |-> Fold(proof)[Len(proof.path)] = Root(d)]
    BY DEF ShowForm
  <1> DEFINE c     == commitmentFromBundle(b)
             proof == proofForField(c, f)
  <1>2. Fold(proof)[Len(proof.path)] = c.root
    BY FoldComplete, RootIs DEF commitmentFromBundle
  <1>3. (c.root = Root(d)) = Unaltered(d)
    <2>1. d \in Issued
      BY DEF ShowForm
    <2>2. Unaltered(d) \in BOOLEAN
      BY DEF Unaltered
    <2>3. c.root = Root(d) <=> Unaltered(d)
      BY <2>1, Opens
    <2> HIDE DEF c
    <2> QED BY <2>2, <2>3
  <1> HIDE DEF c, proof
  <1>4. answer' = [of |-> "page", doc |-> d, matches |-> c.root = Root(d),
                   folds |-> Fold(proof)[Len(proof.path)] = Root(d)]
    BY <1>1 DEF c, proof
  <1>5. /\ answer'.of = "page" /\ answer'.doc = d
        /\ answer'.matches = Unaltered(d) /\ answer'.folds = Unaltered(d)
    BY <1>2, <1>3, <1>4
  <1>6. Unaltered(d)' = Unaltered(d)
    BY DEF ShowForm, Unaltered
  <1> QED BY <1>5, <1>6 DEF AnswerOK

LEMMA CheckAnswers ==
  ASSUME CheckSlip
  PROVE  AnswerOK'
  <1>1. slip # Nothing /\ slip' = slip /\ issued' = issued
    BY DEF CheckSlip
  <1>2. Root(slip.doc)' = Root(slip.doc)
    BY <1>1 DEF Root
  <1>3. CASE /\ parseDisclosure(slip) # {}
             /\ answer' = [of |-> "slip",
                           verified |-> verifyDisclosure(slip, Root(slip.doc)).verified,
                           withheld |-> verifyDisclosure(slip, Root(slip.doc)).withheld]
    BY <1>1, <1>2, <1>3 DEF AnswerOK, verifyDisclosure
  <1>4. CASE /\ parseDisclosure(slip) = {}
             /\ answer' = [of |-> "slip", verified |-> FALSE, withheld |-> {}]
    BY <1>1, <1>4 DEF AnswerOK
  <1> QED BY <1>3, <1>4 DEF CheckSlip

LEMMA AnswerKept ==
  ASSUME PaperOK, AnswerOK, [Next]_vars
  PROVE  AnswerOK'
  <1>1. CASE UNCHANGED vars
    <2>1. \A d : Root(d)' = Root(d)
      BY <1>1 DEF vars, Root
    <2>2. \A d : Unaltered(d)' = Unaltered(d)
      BY <1>1 DEF vars, Unaltered
    <2> QED BY <1>1, <2>1, <2>2 DEF AnswerOK, vars
  <1>2. CASE answer' = Silence
    BY <1>2, Kinds DEF AnswerOK
  <1>3. CASE \E d \in Docs, f \in FieldNames : ShowForm(d, f)
    BY <1>3, PageShows
  <1>4. CASE CheckSlip
    BY <1>4, CheckAnswers
  <1> QED BY <1>1, <1>2, <1>3, <1>4, Frames

LEMMA Always == Spec => []Inv
  <1>1. Inv /\ [Next]_vars => Inv'
    BY PaperKept, SlipKept, AnswerKept DEF Inv
  <1> QED BY <1>1, Starts, PTL DEF Spec

----------------------------------------------------------------------------
(* The theorems.                                                           *)

\* Every field of a disclosure that verifies has the value the issuer committed to
\* under that name (verifyDisclosure, rootFromProof), for any table of fields, any
\* retypings, and however often it was changed on its way.
THEOREM NothingStandsIn == Spec => []VerifiedIsCommitted
  <1>1. Inv => VerifiedIsCommitted
    <2>1. SUFFICES ASSUME Inv, answer.of = "slip", answer.verified, NEW p \in ToSet(slip.fields)
                   PROVE  p.value = issued[slip.doc].values[p.field]
      BY DEF VerifiedIsCommitted
    <2>2. slip # Nothing /\ parseDisclosure(slip) # {} /\ rootFromProof(p) = Root(slip.doc)
      BY <2>1 DEF Inv, AnswerOK
    <2> DEFINE v == issued[slip.doc].values
               n == issued[slip.doc].nonces
    <2>3. Len(p.path) \in Nat
      BY <2>1, <2>2 DEF Inv, SlipOK, ToSet
    <2>4. rootFromProof(p) = Levels(v, n)[Deep][1]
      <3>1. Root(slip.doc) = commitCanonicalForm(v, n).root
        BY DEF Root
      <3> HIDE DEF v, n
      <3> QED BY <2>2, <3>1, RootIs
    <2> HIDE DEF v, n
    <2>5. PICK i \in 1 .. Len(FIELDS) : p.field = FIELD_ORDER[i] /\ p.value = v[FIELD_ORDER[i]]
      BY <2>3, <2>4, FoldSound
    <2> QED BY <2>5 DEF v
  <1> QED BY <1>1, Always, PTL

\* A copy opens the published root exactly if, read again, it says what was issued
\* (bundleMatchesCommitment); the copy as it was handed over does exactly if no
\* identifier in the form comes apart when it is normalized (normalizeIdentifier) and no
\* date is carried out of the years that are read (normalizeTimestamp); and the form
\* page agrees, for any two documents over any table of fields.
THEOREM OneDocumentPerRoot == Spec => []SameDocument
  <1>1. Inv => SameDocument
    <2>1. SUFFICES ASSUME Inv  PROVE SameDocument
      OBVIOUS
    <2>2. ASSUME NEW d \in Issued
          PROVE  OpensRoot(d) <=> Unaltered(d)
      BY <2>1, Opens DEF Inv, bundleMatchesCommitment, OpensRoot
    <2>3. ASSUME NEW d \in Issued, Untouched(d)
          PROVE  OpensRoot(d) <=> Plain(d)
      BY <2>1, <2>2, <2>3, AsHanded DEF Inv
    <2> QED BY <2>1, <2>2, <2>3 DEF Inv, AnswerOK, SameDocument
  <1> QED BY <1>1, Always, PTL

\* A disclosure nobody changed verifies exactly if the copy it was cut from, read again,
\* says what was issued, withheld fields included; cut from the copy as it was handed
\* over, exactly if the form settled when it was first normalized; and it shows each
\* field asked for once (buildDisclosure, verifyDisclosure).
THEOREM HonestSlipsVerify == Spec => []UntouchedVerifies
  <1>1. Inv => UntouchedVerifies
    <2>1. SUFFICES ASSUME Inv, answer.of = "slip", slip.amends = 0
                   PROVE  /\ answer.verified = slip.genuine
                          /\ slip.untouched => answer.verified = Plain(slip.doc)
                          /\ answer.withheld = FieldNames \ slip.asked
                          /\ Len(slip.fields) = Cardinality(slip.asked)
      BY DEF UntouchedVerifies
    <2>2. slip # Nothing
      BY <2>1 DEF Inv, AnswerOK
    <2>3. /\ slip.doc \in Issued /\ \E v, n : AsMade(v, n)
      BY <2>1, <2>2 DEF Inv, SlipOK
    <2>4. PICK v, n : AsMade(v, n)
      BY <2>3
    <2> DEFINE c == commitCanonicalForm(v, n)
               m == Cardinality(slip.asked)
               rec == issued[slip.doc]
    <2>5. /\ m \in Nat /\ DOMAIN slip.fields = 1 .. m /\ Len(slip.fields) = m
          /\ slip.asked \subseteq FieldNames /\ slip.asked # {}
          /\ {slip.fields[k].field : k \in 1 .. m} = slip.asked
          /\ \A k \in 1 .. m : slip.fields[k] = proofForField(c, slip.fields[k].field)
      BY <2>4 DEF AsMade
    <2>6. \A k \in 1 .. m : slip.fields[k].field \in FieldNames
      BY <2>5
    <2> HIDE DEF m
    <2>7. ASSUME NEW k \in 1 .. m
          PROVE  /\ rootFromProof(slip.fields[k]) = c.root
                 /\ slip.fields[k].nonce \in NONCES
                 /\ slip.fields[k].index = indexOf(slip.fields[k].field)
      <3> DEFINE f == slip.fields[k].field
                 p == proofForField(c, f)
      <3>1. f \in FieldNames /\ slip.fields[k] = p
        BY <2>5, <2>6
      <3> HIDE DEF f
      <3>2. rootFromProof(p) = c.root
        BY <3>1, FoldComplete, RootIs DEF rootFromProof
      <3>3. p.nonce = n[indexOf(f) + 1] /\ p.index = indexOf(f)
        BY <3>1, ProofIs
      <3>4. n[indexOf(f) + 1] \in NONCES
        <4>1. n \in [DOMAIN FIELDS -> NONCES]
          BY <2>4 DEF AsMade
        <4> QED BY <3>1, <4>1, Table
      <3> HIDE DEF p
      <3> QED BY <3>1, <3>2, <3>3, <3>4 DEF f
    <2>8. ToSet(slip.fields) = {slip.fields[k] : k \in 1 .. m} /\ 1 \in 1 .. m
      <3>1. \E k \in 1 .. m : slip.fields[k].field \in slip.asked
        BY <2>5
      <3>2. m \in Nat /\ m >= 1
        BY <2>5, <3>1
      <3> QED BY <2>5, <3>2 DEF ToSet
    <2>9. parseDisclosure(slip) # {}
      <3>1. slip.fields # << >>
        BY <2>5, <2>8
      <3>2. \A p \in ToSet(slip.fields) : /\ p.field \in FieldNames /\ p.nonce \in NONCES
                                          /\ p.index = indexOf(p.field)
        BY <2>6, <2>7, <2>8
      <3> QED BY <3>1, <3>2 DEF parseDisclosure
    <2>10. /\ answer.verified = (\A p \in ToSet(slip.fields) : rootFromProof(p) = Root(slip.doc))
           /\ answer.withheld = FieldNames \ {p.field : p \in ToSet(slip.fields)}
      BY <2>1, <2>9 DEF Inv, AnswerOK
    <2>11. {p.field : p \in ToSet(slip.fields)} = slip.asked
      BY <2>5, <2>8
    <2>12. (\A p \in ToSet(slip.fields) : rootFromProof(p) = Root(slip.doc))
             <=> c.root = Root(slip.doc)
      BY <2>7, <2>8
    <2>13. c.root = Root(slip.doc) <=> v = rec.values /\ n = rec.nonces
      <3> DEFINE v2 == rec.values
                 n2 == rec.nonces
      <3>1. /\ v2 = [f \in FieldNames |-> v2[f]]
            /\ n2 = [i \in DOMAIN FIELDS |-> NonceOf[<<slip.doc, i>>]]
        BY <2>1, <2>3 DEF Inv, PaperOK
      <3>2. n2 = [i \in DOMAIN FIELDS |-> n2[i]]
        BY <3>1
      <3>3. v = [f \in FieldNames |-> v[f]] /\ n = [i \in DOMAIN FIELDS |-> n[i]]
        BY <2>4 DEF AsMade
      <3>4. v2 = [f \in FieldNames |-> v2[f]]
        BY <3>1
      <3> HIDE DEF v2, n2
      <3>5. c.root = commitCanonicalForm(v2, n2).root <=> v = v2 /\ n = n2
        BY <3>2, <3>3, <3>4, RootTells
      <3> QED BY <3>5 DEF Root, v2, n2
    <2>14. slip.genuine = (v = rec.values /\ n = rec.nonces)
      BY <2>4 DEF AsMade
    <2>15. answer.verified = slip.genuine
      <3> HIDE DEF c, rec
      <3>1. slip.genuine = (c.root = Root(slip.doc))
        BY <2>13, <2>14
      <3>2. answer.verified = (c.root = Root(slip.doc))
        BY <2>10, <2>12
      <3> QED BY <3>1, <3>2
    <2>16. slip.untouched => answer.verified = Plain(slip.doc)
      BY <2>4, <2>15 DEF AsMade
    <2> QED BY <2>5, <2>10, <2>11, <2>15, <2>16 DEF m
  <1> QED BY <1>1, Always, PTL

\* Of the hashes a disclosure exposes, none of the nonces it carries opens one of a
\* withheld field (proofForField), as long as no nonce is drawn twice.
THEOREM SiblingsStayShut == Spec => []WithheldStaysShut
  <1>1. Inv => WithheldStaysShut
    <2>1. SUFFICES ASSUME Inv, slip # Nothing, slip.amends = 0, slip.genuine,
                          NEW h \in exposedHashes(slip), h.tag = "leaf",
                          h.field \notin slip.asked,
                          NEW q \in ToSet(slip.fields), h.nonce = q.nonce
                   PROVE  FALSE
      BY DEF WithheldStaysShut
    <2>2. slip.doc \in Issued /\ \E v, n : AsMade(v, n)
      BY <2>1 DEF Inv, SlipOK
    <2>3. PICK v, n : AsMade(v, n)
      BY <2>2
    <2> DEFINE c == commitCanonicalForm(v, n)
               L == Levels(v, n)
    <2>4. /\ \A k \in DOMAIN slip.fields : /\ slip.fields[k].field \in slip.asked
                                          /\ slip.fields[k] = proofForField(c, slip.fields[k].field)
          /\ slip.asked \subseteq FieldNames
          /\ n = issued[slip.doc].nonces
      BY <2>1, <2>3 DEF AsMade
    <2>5. \A i \in DOMAIN FIELDS : n[i] = NonceOf[<<slip.doc, i>>]
      <3>1. issued[slip.doc].nonces = [i \in DOMAIN FIELDS |-> NonceOf[<<slip.doc, i>>]]
        BY <2>1, <2>2 DEF Inv, PaperOK
      <3> QED BY <2>4, <3>1
    <2>6. \A i, k \in DOMAIN FIELDS : n[i] = n[k] => i = k
      <3>1. \A i \in DOMAIN FIELDS : <<slip.doc, i>> \in DOMAIN NonceOf
        BY <2>2, DisclosureAssumption DEF Issued
      <3>2. \A i, k \in DOMAIN FIELDS :
              NonceOf[<<slip.doc, i>>] = NonceOf[<<slip.doc, k>>]
                => <<slip.doc, i>> = <<slip.doc, k>>
        BY <3>1, DisclosureAssumption
      <3> QED BY <2>5, <3>2
    <2>7. PICK f \in slip.asked : q = proofForField(c, f)
      BY <2>4 DEF ToSet
    <2>8. f \in FieldNames /\ q.nonce = n[indexOf(f) + 1]
      BY <2>4, <2>7, ProofIs
    <2>9. PICK g \in slip.asked :
            \E l \in DOMAIN proofForField(c, g).path : h = proofForField(c, g).path[l].hash
      <3>1. PICK p \in ToSet(slip.fields) : h \in Hashes(p)
        BY <2>1 DEF exposedHashes
      <3>2. PICK e \in slip.asked : p = proofForField(c, e)
        BY <2>4, <3>1 DEF ToSet
      <3> QED BY <3>1, <3>2 DEF Hashes
    <2> DEFINE i == indexOf(g)
               p == proofForField(c, g)
    <2>10. PICK l \in DOMAIN p.path : h = p.path[l].hash
      BY <2>9
    <2>11. g \in FieldNames
      BY <2>4
    <2>12. /\ Deep \in Nat /\ l \in 1 .. Deep
           /\ h = L[l - 1][IF At(i, l - 1) % 2 = 1 THEN At(i, l - 1) ELSE At(i, l - 1) + 2]
      BY <2>10, <2>11, ProofIs
    <2> DEFINE a == At(i, l - 1)
               s == IF a % 2 = 1 THEN a ELSE a + 2
               k == l - 1
    <2>13. k \in 0 .. Deep /\ l \in 0 .. Deep /\ l > 0 /\ h = L[k][s]
      BY <2>12
    <2>14. a \in 0 .. 2^(Deep - k) - 1
      BY <2>11, <2>13, FoldComplete
    <2>15. 2^(Deep - k) = 2 * 2^(Deep - l) /\ 2^(Deep - l) \in Nat
      BY <2>13, Tree
    <2>16. s \in 1 .. 2^(Deep - k)
      <3> HIDE DEF a, k
      <3> QED BY <2>14, <2>15
    <2> HIDE DEF a, s, k, L
    <2>17. k = 0
      <3> SUFFICES ASSUME k > 0  PROVE FALSE
        BY <2>13
      <3>1. L[k][s] = nodeHash(L[k - 1][2 * s - 1], L[k - 1][2 * s])
        BY <2>13, <2>16, Tree DEF L
      <3>2. L[k][s].tag = "node"
        BY <3>1, Tags
      <3> QED BY <2>1, <2>13, <3>2
    <2>18. h = IF s <= Len(FIELDS) THEN leafHash(FIELD_ORDER[s], v[FIELD_ORDER[s]], n[s])
               ELSE padLeaf
      <3>1. s \in 1 .. 2^Deep
        BY <2>12, <2>16, <2>17
      <3> QED BY <2>13, <2>17, <3>1, Tree DEF L
    <2>19. /\ s \in 1 .. Len(FIELDS)
           /\ h = leafHash(FIELD_ORDER[s], v[FIELD_ORDER[s]], n[s])
      <3>1. padLeaf.tag = "pad" /\ Len(FIELDS) \in Nat
        BY Tags, Table
      <3>2. s \in Nat \ {0}
        BY <2>12, <2>15, <2>16, <2>17
      <3> QED BY <2>1, <2>18, <3>1, <3>2
    <2>20. h.field = FIELD_ORDER[s] /\ h.nonce = n[s]
      BY <2>19 DEF leafHash
    <2>21. s = indexOf(f) + 1 /\ FIELD_ORDER[indexOf(f) + 1] = f
      BY <2>1, <2>6, <2>8, <2>19, <2>20, Table
    <2> QED BY <2>1, <2>7, <2>20, <2>21
  <1> QED BY <1>1, Always, PTL
=============================================================================
