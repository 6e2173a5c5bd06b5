----------------------------- MODULE Disclosure -----------------------------
(***************************************************************************)
(* What happens to the paperwork of a release after it is issued           *)
(* (core/disclosure.ts, and the pages and endpoints of web/app.ts that     *)
(* open and check documents).  The issuer publishes a root; the holder's   *)
(* copy is retyped, cut down to some fields, and passed on; a recipient    *)
(* checks what arrives against the root.  Nothing is kept by the service.  *)
(***************************************************************************)
EXTENDS Commitment, FiniteSets

CONSTANTS
  Docs,             \* releases, by their URI
  Forms,            \* forms a shop may fill in: key -> raw value
  Retypings,        \* field -> raw values a holder may type in its place
  Requests,         \* sequences of field names a holder may ask to disclose
  NonceOf,          \* [Docs \X fields -> NONCES], no nonce drawn twice
  Garbled           \* a byte string of another length

CONSTANTS
  MaxEdits,         \* bound: retypings of a document
  MaxAmends         \* bound: changes to a disclosure on its way

ASSUME DisclosureAssumption ==
  /\ DOMAIN NonceOf = Docs \X DOMAIN FIELDS
  /\ \A x, y \in DOMAIN NonceOf : NonceOf[x] \in NONCES /\ (NonceOf[x] = NonceOf[y] => x = y)
  /\ Garbled \notin NONCES
  /\ \A fields \in Requests : fields \in Seq(ToSet(fields))
  /\ \A form \in Forms : \A f \in DOMAIN form : form[f] \in RawValues

VARIABLES
  issued,           \* the issuer's side: release -> what its root commits to, and
                    \* (history) the form as it was typed
  paper,            \* the holder's copy of the document, as JSON
  slip,             \* the disclosure the recipient has
  answer,           \* what the service answered last
  edits

vars == <<issued, paper, slip, answer, edits>>

Nothing == [doc |-> "none"]
Silence == [of |-> "nothing"]
Issued  == {d \in Docs : issued[d] # Nothing}
Root(d) == commitCanonicalForm(issued[d].values, issued[d].nonces).root

\* The holder's copy, read again, says what was issued, however it is spelt.
Unaltered(d) ==
  /\ paper[d].version = FIELD_SET_VERSION
  /\ paper[d].nonces = issued[d].nonces
  /\ canonicalizeForm(paper[d].values) = issued[d].values

\* It is still the copy that was handed over.
Untouched(d) == paper[d] = buildBundle(d, issued[d])

\* A spelling that normalizing once does not settle: an identifier that comes apart, a
\* date carried out of the years that are read.
Unsettled(spec, v) ==
  /\ v.type = "string"
  /\ \/ spec.kind = "identifier" /\ v.style \cap Loosening # {}
     \/ spec.kind = "timestamp" /\ "edge" \in v.style

\* The form as the shop typed it has no such spelling.
Plain(d) ==
  \A f \in FieldNames \cap DOMAIN issued[d].typed :
    ~Unsettled(FIELDS[indexOf(f) + 1], issued[d].typed[f])

----------------------------------------------------------------------------
(* core/disclosure.ts                                                      *)

Hashes(proof) == {proof.path[l].hash : l \in DOMAIN proof.path}

\* Each wanted field once, in the order of the table: the k-th is the one with k of
\* those wanted up to it.
Wanted(fields) ==
  LET wanted   == {i \in DOMAIN FIELDS : FIELD_ORDER[i] \in ToSet(fields)}
      place(i) == Cardinality({h \in wanted : h <= i})
  IN  [k \in 1 .. Cardinality(wanted) |-> FIELD_ORDER[CHOOSE i \in wanted : place(i) = k]]

\* An unknown field, or none, is an error.
buildDisclosure(bundle, fields) ==
  LET c      == commitCanonicalForm(bundle.values, bundle.nonces)
      wanted == Wanted(fields)
  IN  IF fields = << >> \/ ~(ToSet(fields) \subseteq FieldNames) THEN {}
      ELSE {[doc |-> bundle.uri,
             fields |-> [i \in DOMAIN wanted |-> proofForField(c, wanted[i])]]}

parseDisclosure(d) ==
  IF /\ d.fields # << >>
     /\ \A p \in ToSet(d.fields) : /\ p.field \in FieldNames
                                   /\ p.nonce \in NONCES
                                   /\ p.index = indexOf(p.field)
  THEN {d} ELSE {}

verifyDisclosure(d, root) ==
  [verified |-> \A p \in ToSet(d.fields) : rootFromProof(p) = root,
   withheld |-> FieldNames \ {p.field : p \in ToSet(d.fields)}]

\* What a disclosure cannot help giving away of the other fields.
exposedHashes(d) == UNION {Hashes(p) : p \in ToSet(d.fields)}

----------------------------------------------------------------------------
(* The issuer and the holder.                                              *)

\* Mutant: one nonce is drawn for all fields.
IssueOneNonce(d, form) ==
  /\ d \notin Issued
  /\ slip = Nothing
  /\ canonicalizeForm(form) # << >>
  /\ LET c == commitCanonicalForm(canonicalizeForm(form),
                                  [i \in DOMAIN FIELDS |-> NonceOf[<<d, 1>>]])
     IN  /\ issued' = [issued EXCEPT ![d] = [doc |-> d, values |-> c.values,
                                             nonces |-> c.nonces, typed |-> form]]
         /\ paper' = [paper EXCEPT ![d] = buildBundle(d, c)]
  /\ answer' = Silence
  /\ UNCHANGED <<slip, edits>>

\* commitForm and buildBundle: a malformed form is refused before anything is
\* published; the holder gets the values as normalized.
Issue(d, form) ==
  /\ d \notin Issued
  /\ slip = Nothing
  /\ canonicalizeForm(form) # << >>
  /\ LET c == commitCanonicalForm(canonicalizeForm(form),
                                  [i \in DOMAIN FIELDS |-> NonceOf[<<d, i>>]])
     IN  /\ issued' = [issued EXCEPT ![d] = [doc |-> d, values |-> c.values,
                                             nonces |-> c.nonces, typed |-> form]]
         /\ paper' = [paper EXCEPT ![d] = buildBundle(d, c)]
  /\ answer' = Silence
  /\ UNCHANGED <<slip, edits>>

\* The holder's copy is typed in again: a value respelt or changed, or its key
\* misspelt; or a nonce is damaged.
Retype(d, f) ==
  /\ d \in Issued
  /\ slip = Nothing
  /\ edits < MaxEdits
  /\ edits' = edits + 1
  /\ f \in DOMAIN paper[d].values
  /\ \/ paper' = [paper EXCEPT ![d].version = FIELD_SET_VERSION - 1]
     \/ \E v \in Retypings[f] :
          paper' = [paper EXCEPT ![d].values[f] = v]
     \/ paper' = [paper EXCEPT ![d].values =
                    [k \in (FieldNames \ {f}) \cup {"misspelt"} |->
                       IF k = "misspelt" THEN @[f] ELSE @[k]]]
     \/ \E n \in {Garbled, NonceOf[<<d, 1>>]} :
          paper' = [paper EXCEPT ![d].nonces[indexOf(f) + 1] = n]
  /\ answer' = Silence
  /\ UNCHANGED <<issued, slip>>

\* POST /api/disclose: the holder's copy, cut down to the fields asked for.
Disclose(d, fields) ==
  /\ d \in Issued
  /\ slip = Nothing
  /\ \E b \in parseBundle(paper[d]) : \E s \in buildDisclosure(b, fields) :
       slip' = [doc |-> s.doc, fields |-> s.fields, asked |-> ToSet(fields), amends |-> 0,
                genuine |-> Unaltered(d), untouched |-> Untouched(d)]
  /\ answer' = Silence
  /\ UNCHANGED <<issued, paper, edits>>

Change(i, proof) ==
  slip' = [slip EXCEPT !.fields[i] = proof, !.amends = @ + 1]

\* On its way a field is changed: its value, its nonce, the name it goes by, its
\* place, all of its path, or a side of it.
Amend(i) ==
  /\ slip # Nothing
  /\ i \in DOMAIN slip.fields
  /\ slip.amends < MaxAmends
  /\ LET p == slip.fields[i] IN
     \/ \E v \in Retypings[p.field] : Change(i, [p EXCEPT !.value = v])
     \/ \E k \in DOMAIN FIELDS : Change(i, [p EXCEPT !.nonce = NonceOf[<<slip.doc, k>>]])
     \/ \E f \in FieldNames : Change(i, [p EXCEPT !.field = f])
     \/ \E f \in FieldNames : Change(i, [p EXCEPT !.field = f, !.index = indexOf(f)])
     \/ \E k \in DOMAIN slip.fields : Change(i, [p EXCEPT !.path = slip.fields[k].path])
     \/ \E l \in DOMAIN p.path, s \in {"left", "right"} :
          Change(i, [p EXCEPT !.path[l].side = s])
  /\ answer' = Silence
  /\ UNCHANGED <<issued, paper, edits>>

\* It is handed in as the paperwork of another release.
Misfile(d) ==
  /\ slip # Nothing
  /\ d \in Issued \ {slip.doc}
  /\ slip.amends < MaxAmends
  /\ slip' = [slip EXCEPT !.doc = d, !.amends = @ + 1]
  /\ answer' = Silence
  /\ UNCHANGED <<issued, paper, edits>>

\* The recipient is done with it; until then it is the one under way.
PutAway ==
  /\ slip # Nothing
  /\ slip' = Nothing
  /\ answer' = Silence
  /\ UNCHANGED <<issued, paper, edits>>

----------------------------------------------------------------------------
(* The recipient.                                                          *)

\* POST /api/disclose/verify: parsed, then checked against the root that was
\* fetched and verified for its URI.  A fetch that fails is an answer of its own.
CheckSlip ==
  /\ slip # Nothing
  /\ answer = Silence
  /\ \/ /\ parseDisclosure(slip) # {}
        /\ LET said == verifyDisclosure(slip, Root(slip.doc))
           IN  answer' = [of |-> "slip", verified |-> said.verified,
                          withheld |-> said.withheld]
     \/ /\ parseDisclosure(slip) = {}
        /\ answer' = [of |-> "slip", verified |-> FALSE, withheld |-> {}]
  /\ UNCHANGED <<issued, paper, slip, edits>>

\* POST /form: the document beside the record, and the fold of the field that
\* was clicked on.
ShowForm(d, f) ==
  /\ d \in Issued
  /\ slip = Nothing
  /\ \E b \in parseBundle(paper[d]) :
       LET c     == commitmentFromBundle(b)
           proof == proofForField(c, f)
       IN  answer' = [of |-> "page", doc |-> d, matches |-> c.root = Root(d),
                      folds |-> Fold(proof)[Len(proof.path)] = Root(d)]
  /\ UNCHANGED <<issued, paper, slip, edits>>

Init ==
  /\ issued = [d \in Docs |-> Nothing]
  /\ paper = [d \in Docs |-> Nothing]
  /\ slip = Nothing
  /\ answer = Silence
  /\ edits = 0

Next ==
  \/ \E d \in Docs, form \in Forms : Issue(d, form)
  \/ \E d \in Docs, f \in FieldNames : Retype(d, f) \/ ShowForm(d, f)
  \/ \E d \in Docs, fields \in Requests : Disclose(d, fields)
  \/ \E i \in DOMAIN FIELDS : Amend(i)
  \/ \E d \in Docs : Misfile(d)
  \/ CheckSlip
  \/ PutAway

Spec == Init /\ [][Next]_vars

----------------------------------------------------------------------------
(* Properties.                                                             *)

\* Every field of a disclosure that verifies (verifyDisclosure) has the value the
\* issuer committed to under that name, in that document: no field can stand in
\* for another, and no path or side makes a changed value fit.
VerifiedIsCommitted ==
  answer.of = "slip" /\ answer.verified =>
    \A p \in ToSet(slip.fields) : p.value = issued[slip.doc].values[p.field]

\* A disclosure nobody changed verifies exactly if the holder's copy, read again, said
\* what was issued, down to the fields not shown.  Cut from the copy as it was handed
\* over it verifies exactly if the form was typed in spellings that one normalization
\* settles (normalizeIdentifier, normalizeTimestamp).  It shows each field asked for once.
UntouchedVerifies ==
  answer.of = "slip" /\ slip.amends = 0 =>
    /\ answer.verified = slip.genuine
    /\ slip.untouched => answer.verified = Plain(slip.doc)
    /\ answer.withheld = FieldNames \ slip.asked
    /\ Len(slip.fields) = Cardinality(slip.asked)

\* Of the hashes a disclosure exposes, the nonces it carries open none that belongs
\* to a withheld field: a guess at its value cannot be confirmed.
WithheldStaysShut ==
  slip # Nothing /\ slip.amends = 0 /\ slip.genuine =>
    \A h \in exposedHashes(slip) :
      h.tag = "leaf" /\ h.field \notin slip.asked
        => h.nonce \notin {p.nonce : p \in ToSet(slip.fields)}

\* The holder's copy opens the published root (parseBundle, bundleMatchesCommitment).
OpensRoot(d) == \E b \in parseBundle(paper[d]) : bundleMatchesCommitment(b, Root(d))

\* A copy opens the published root exactly if, read again, it says what was issued,
\* however it was retyped; and the copy as it was handed over does exactly if the form
\* was typed in spellings that one normalization settles.  A shop that types any other
\* is handed a document that does not open its own root, until someone retypes it as it
\* was first typed.  The form page says so too, and folds every field of a copy that
\* opens the root up to it.
SameDocument ==
  /\ \A d \in Issued :
       /\ OpensRoot(d) <=> Unaltered(d)
       /\ Untouched(d) => (OpensRoot(d) <=> Plain(d))
  /\ answer.of = "page" =>
       answer.matches = Unaltered(answer.doc) /\ answer.folds = Unaltered(answer.doc)
=============================================================================
