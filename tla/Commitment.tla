----------------------------- MODULE Commitment -----------------------------
(***************************************************************************)
(* The commitment to a form (core/fields.ts, core/canonical.ts,            *)
(* core/commitment.ts, core/bundle.ts): what a value is before and after   *)
(* normalization, the Merkle tree over the fields, and the document that   *)
(* opens it.  A hash is the term it was made from, so that two hashes are  *)
(* the same exactly when what was hashed is.                               *)
(***************************************************************************)
EXTENDS Integers, SequencesExt

CONSTANTS
  FIELDS,           \* the field table: [name, kind, values, public], in order
  NONCES            \* byte strings of the right length to be a nonce

FIELD_SET_VERSION == 2
FIELD_ORDER   == [i \in DOMAIN FIELDS |-> FIELDS[i].name]
FieldNames    == ToSet(FIELD_ORDER)
PUBLIC_FIELDS == {f \in FieldNames : \E s \in ToSet(FIELDS) : s.name = f /\ s.public}

ASSUME CommitmentAssumption ==
  /\ Len(FIELDS) \in Nat \ {0} /\ DOMAIN FIELDS = 1 .. Len(FIELDS)
  /\ \A i, k \in DOMAIN FIELDS : FIELDS[i].name = FIELDS[k].name => i = k
  /\ \A i \in DOMAIN FIELDS :
       FIELDS[i].kind \in {"identifier", "integer", "text", "timestamp", "enum"}

\* Position of a field in the tree, from 0.
indexOf(name) == (CHOOSE i \in DOMAIN FIELDS : FIELDS[i].name = name) - 1

----------------------------------------------------------------------------
(* Values.  What a string says is its body; how it says it is its style:   *)
(* what normalization may have to undo, or may refuse, or brings about.    *)

RawValues == [type : {"null", "string", "number"}, body : STRING, style : SUBSET STRING]

Null    == [type |-> "null", body |-> "", style |-> {}]
Refused == [type |-> "refused", body |-> "", style |-> {}]

Without(v, noise) == [v EXCEPT !.style = @ \ noise]

\* What comes apart after NFC has put marks and letters together: a separator between
\* a letter and its mark is only then stripped, and a small letter whose capital is
\* written with a mark only then made a capital.
Loosening == {"parted", "unfolding"}

\* NFC, then the separators, then capitals: a mark set loose on the way is left beside
\* its letter, for the next NFC to join.
normalizeIdentifier(v) ==
  LET kept == Without(v, {"decomposed", "spaces", "separators", "lowercase"} \cup Loosening)
  IN  IF v.style \cap Loosening = {} THEN kept
      ELSE [kept EXCEPT !.style = @ \cup {"decomposed"}]

normalizeText(v) == Without(v, {"decomposed", "spaces"})

\* No zone, no such day, no such hour: refused.  The rest becomes UTC seconds, also
\* where its offset carries it over the edge of the years 0100 to 9999 ("edge"), beyond
\* which a date is not read.
normalizeTimestamp(v) ==
  LET utc == Without(v, {"spaces", "lowercase", "zone", "millis"})
  IN  CASE utc.style = {}       -> utc
        [] utc.style = {"edge"} -> [utc EXCEPT !.style = {"beyond"}]
        [] OTHER                -> Refused

\* A fraction, an infinity, more than a double holds exactly, or a string.
normalizeInteger(v) == IF v.type = "number" /\ v.style = {} THEN v ELSE Refused

normalizeEnum(spec, v) ==
  LET upper == Without(v, {"decomposed", "spaces", "lowercase"})
  IN  IF upper.style = {} /\ upper.body \in spec.values THEN upper ELSE Refused

canonicalizeField(spec, v) ==
  CASE v.type = "null"                               -> Null
    [] v.type # "null" /\ spec.kind = "integer"      -> normalizeInteger(v)
    [] v.type = "number" /\ spec.kind # "integer"    -> Refused
    [] v.type = "string" /\ spec.kind = "identifier" -> normalizeIdentifier(v)
    [] v.type = "string" /\ spec.kind = "text"       -> normalizeText(v)
    [] v.type = "string" /\ spec.kind = "timestamp"  -> normalizeTimestamp(v)
    [] v.type = "string" /\ spec.kind = "enum"       -> normalizeEnum(spec, v)

\* A form maps keys to values.  Absent is null; an unknown key, or one value
\* refused, refuses the form.
canonicalizeForm(form) ==
  LET given(f) == IF f \in DOMAIN form THEN form[f] ELSE Null
      out == [f \in FieldNames |-> canonicalizeField(FIELDS[indexOf(f) + 1], given(f))]
  IN  IF DOMAIN form \subseteq FieldNames /\ \A f \in FieldNames : out[f] # Refused
      THEN out ELSE << >>

\* The plaintext half of a record; a blank field is left out of it.
publicValues(values) ==
  [f \in {p \in PUBLIC_FIELDS : values[p] # Null} |-> values[f]]

----------------------------------------------------------------------------
(* The tree.                                                               *)

padLeaf == [tag |-> "pad"]

\* Mutant: a leaf does not say which field it is of.
leafHashNameless(name, value, nonce) ==
  [tag |-> "leaf", field |-> "", value |-> value, nonce |-> nonce]

leafHash(name, value, nonce) ==
  [tag |-> "leaf", field |-> name, value |-> value, nonce |-> nonce]

nodeHash(left, right) == [tag |-> "node", left |-> left, right |-> right]

\* Levels above the leaves: the least depth whose width holds them all.
Depth(n) == CHOOSE d \in 0 .. n : 2^d >= n /\ \A e \in 0 .. d - 1 : 2^e < n

\* levels[0] is the padded leaf layer, the last one holds the root alone.
buildLevels(leaves) ==
  LET levels[k \in 0 .. Depth(Len(leaves))] ==
        IF k = 0
        THEN [i \in 1 .. 2^Depth(Len(leaves)) |->
                IF i <= Len(leaves) THEN leaves[i] ELSE padLeaf]
        ELSE LET below == levels[k - 1]
             IN  [i \in 1 .. Len(below) \div 2 |->
                    nodeHash(below[2 * i - 1], below[2 * i])]
  IN  levels

rootFromLeaves(leaves) == buildLevels(leaves)[Depth(Len(leaves))][1]

commitCanonicalForm(values, nonces) ==
  LET leaves == [i \in DOMAIN FIELDS |->
                   leafHash(FIELD_ORDER[i], values[FIELD_ORDER[i]], nonces[i])]
  IN  [root |-> rootFromLeaves(leaves), leaves |-> leaves, nonces |-> nonces,
       values |-> values]

\* Where a field's ancestor sits on a level, from 0.
At(index, level) == index \div 2^level

\* Mutant: the side is taken from the field's own index on every level.
proofSidesFixed(c, name) ==
  LET i == indexOf(name)
      levels == buildLevels(c.leaves)
  IN
  [field |-> name, value |-> c.values[name], nonce |-> c.nonces[i + 1], index |-> i,
   path  |-> [l \in 1 .. Depth(Len(c.leaves)) |->
     LET at == At(i, l - 1) IN
     [hash |-> levels[l - 1][IF at % 2 = 1 THEN at ELSE at + 2],
      side |-> IF i % 2 = 1 THEN "left" ELSE "right"]]]

\* The sibling on every level: on the left exactly when the own index is odd.
proofForField(c, name) ==
  LET i == indexOf(name)
      levels == buildLevels(c.leaves)
  IN
  [field |-> name, value |-> c.values[name], nonce |-> c.nonces[i + 1], index |-> i,
   path  |-> [l \in 1 .. Depth(Len(c.leaves)) |->
     LET at == At(i, l - 1) IN
     [hash |-> levels[l - 1][IF at % 2 = 1 THEN at ELSE at + 2],
      side |-> IF at % 2 = 1 THEN "left" ELSE "right"]]]

\* The fold of a proof: the leaf, then what each step makes of it.
Fold(proof) ==
  LET run[n \in 0 .. Len(proof.path)] ==
        IF n = 0 THEN leafHash(proof.field, proof.value, proof.nonce)
        ELSE LET step == proof.path[n]
             IN  IF step.side = "left" THEN nodeHash(step.hash, run[n - 1])
                 ELSE nodeHash(run[n - 1], step.hash)
  IN  run

rootFromProof(proof) == Fold(proof)[Len(proof.path)]

----------------------------------------------------------------------------
(* The document.                                                           *)

buildBundle(uri, c) ==
  [version |-> FIELD_SET_VERSION, uri |-> uri, values |-> c.values, nonces |-> c.nonces]

\* Mutant: the values are taken as they were typed.
parseBundleTrusting(b) ==
  IF /\ b.version = FIELD_SET_VERSION
     /\ b.nonces \in [DOMAIN FIELDS -> NONCES]
     /\ canonicalizeForm(b.values) # << >>
  THEN {b} ELSE {}

\* The document a text parses to, if it does: values are normalized again.
parseBundle(b) ==
  IF /\ b.version = FIELD_SET_VERSION
     /\ b.nonces \in [DOMAIN FIELDS -> NONCES]
     /\ canonicalizeForm(b.values) # << >>
  THEN {[b EXCEPT !.values = canonicalizeForm(b.values)]} ELSE {}

commitmentFromBundle(b) == commitCanonicalForm(b.values, b.nonces)

bundleMatchesCommitment(b, root) == commitmentFromBundle(b).root = root
=============================================================================
