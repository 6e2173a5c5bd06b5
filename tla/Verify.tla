------------------------------- MODULE Verify -------------------------------
(***************************************************************************)
(* Verification over the network (core/verify/pipeline.ts) with the ports  *)
(* it asks through (core/verify/atproto.ts, core/verify/memory.ts).        *)
(* Between any two questions organizations publish, rewrite and delete     *)
(* records, rotate keys and move handles, and any question may fail.       *)
(*                                                                         *)
(* Verifications share no state, so there is one.  A commitment is the     *)
(* document it opens (module Commitment says why it can be), the CID of a  *)
(* record is the record, and the key of an organization is the number of   *)
(* times it has rotated.                                                   *)
(***************************************************************************)
EXTENDS Integers, Sequences, FiniteSets

CONSTANTS
  Dids,
  Handles,
  Owner,            \* [Uris -> Dids]: the repository a record URI is in
  HomeHandle,       \* [Dids -> Handles]: the handle an organization starts with
  Documents,        \* documents: [part, note, secret]; note may be Null
  Opaque,           \* identities with no key history (did:web)
  MAX_CHAIN_DEPTH

CONSTANTS
  None,
  Null,             \* a blank field in a document
  NoUri,            \* a reference that is there but has no URI in it
  Malformed,        \* a reference that is no record URI
  Elsewhere         \* a reference to another collection

CONSTANTS
  MaxChanges,       \* bound: changes to the network other than new records
  MaxFaults         \* bound: questions that go unanswered

Uris == DOMAIN Owner

ASSUME VerifyAssumption ==
  /\ IsFiniteSet(Uris) /\ Uris = 1 .. Cardinality(Uris)
  /\ {None, NoUri, Malformed, Elsewhere} \cap Uris = {}
  /\ None \notin Documents \cup {NoUri, Malformed, Elsewhere}
  /\ NoUri \notin {Malformed, Elsewhere}
  /\ Owner \in [Uris -> Dids]
  /\ HomeHandle \in [Dids -> Handles]
  /\ MAX_CHAIN_DEPTH \in Nat \ {0}
  /\ Null # None

VARIABLES
  repo,             \* URI -> the record there, or None
  rotations,        \* DID -> number of key rotations
  impostors,        \* DIDs whose server signs with a key they do not publish
  handles,          \* handle -> the DID it resolves to, or None
  papers,           \* documents handed out on issue
  ever,             \* history: every <<URI, record>> published
  changes, faults,
  job               \* the verification

world == <<repo, rotations, impostors, handles, papers, ever>>
vars  == <<world, changes, faults, job>>

----------------------------------------------------------------------------
(* Records.                                                                *)

\* A blank public field is left out of the record.
publicValues(doc) ==
  [f \in {"part", "note"} |-> IF doc[f] = Null THEN None ELSE doc[f]]

Record(root, doc, prev, pin) ==
  [root |-> root, public |-> publicValues(doc), prev |-> prev, pin |-> pin]

Issued == {u \in Uris : \E e \in ever : e[1] = u}

----------------------------------------------------------------------------
(* The ports.  An answer is None if the question fails.                    *)

Key(d) == <<d, rotations[d]>>
WrongKey(d) == <<d, -1>>

resolveHandle(h) == handles[h]

resolveDid(d) ==
  [did |-> d, signingKey |-> IF d \in impostors THEN WrongKey(d) ELSE Key(d)]

\* Mutant: the first key of the log is taken for the last.
signingKeysAtFirst(d, anchor) ==
  IF d \in Opaque THEN None
  ELSE IF d \in impostors THEN {WrongKey(d)} ELSE {<<d, 0>>}

\* The one key in force at the anchor.
signingKeysAt(d, anchor) ==
  IF d \in Opaque THEN None
  ELSE IF d \in impostors THEN {WrongKey(d)} ELSE {<<d, anchor[d]>>}

\* The head of the repository is signed anew when the key rotates.  A record
\* that is not there is proved absent by the same signature.
getRecordProof(u) == [key |-> Key(Owner[u]), record |-> repo[u]]

\* A question on the real network: it may fail, and fails as None.
Asked(answer, failed) == IF failed THEN None ELSE answer

MayFail(failed) ==
  /\ failed \in {FALSE} \cup (IF faults < MaxFaults THEN {TRUE} ELSE {})
  /\ faults' = faults + (IF failed THEN 1 ELSE 0)

----------------------------------------------------------------------------
(* The network changes.                                                    *)

Idle == [step |-> "idle"]

\* Nothing that happens after the report is looked at.
Open == job.step # "done"
Disturbed == [job EXCEPT !.quiet = FALSE]

\* issue, createRelease: a record, and the document that opens it.
Issue(u, doc, prev) ==
  /\ Open
  /\ u = Cardinality(Issued) + 1
  /\ prev \in Issued \cup {None}
  /\ prev # None => repo[prev] # None
  /\ LET r == Record(doc, doc, prev, IF prev = None THEN None ELSE repo[prev])
     IN  /\ repo' = [repo EXCEPT ![u] = r]
         /\ ever' = ever \cup {<<u, r>>}
  /\ papers' = papers \cup {[uri |-> u, handle |-> HomeHandle[Owner[u]], doc |-> doc]}
  /\ job' = IF job = Idle THEN Idle ELSE Disturbed
  /\ UNCHANGED <<rotations, impostors, handles, changes, faults>>

Change ==
  /\ Open
  /\ changes < MaxChanges
  /\ changes' = changes + 1
  /\ job' = IF job = Idle THEN Idle ELSE Disturbed
  /\ UNCHANGED <<papers, faults>>

\* An organization puts another record in the place of one: over another
\* commitment or none, with other public fields, or with another past.
Rewritten(r) ==
     {[r EXCEPT !.root = x] : x \in Documents \cup {None}}
  \cup {[r EXCEPT !.public = publicValues(x)] : x \in Documents}
  \cup {[r EXCEPT !.prev = x, !.pin = None] : x \in Issued \cup {NoUri, Malformed, Elsewhere}}

Rewrite(u) ==
  /\ Change
  /\ repo[u] # None
  /\ \E r \in Rewritten(repo[u]) \ {repo[u]} :
       /\ repo' = [repo EXCEPT ![u] = r]
       /\ ever' = ever \cup {<<u, r>>}
  /\ UNCHANGED <<rotations, impostors, handles>>

Delete(u) ==
  /\ Change
  /\ repo[u] # None
  /\ repo' = [repo EXCEPT ![u] = None]
  /\ UNCHANGED <<rotations, impostors, handles, ever>>

rotateKey(d) ==
  /\ Change
  /\ rotations' = [rotations EXCEPT ![d] = @ + 1]
  /\ UNCHANGED <<repo, impostors, handles, ever>>

publishWrongKey(d) ==
  /\ Change
  /\ d \notin impostors
  /\ impostors' = impostors \cup {d}
  /\ UNCHANGED <<repo, rotations, handles, ever>>

\* repointHandle and makeUnresolvable.
repointHandle(h, d) ==
  /\ Change
  /\ handles[h] # d
  /\ handles' = [handles EXCEPT ![h] = d]
  /\ UNCHANGED <<repo, rotations, impostors, ever>>

----------------------------------------------------------------------------
(* The report.                                                             *)

StageNames ==
  <<"resolve", "fetch", "signature", "recompute", "agree", "physical", "chain">>

add(stages, name, status) == Append(stages, <<name, status>>)

\* Mutant: a stage that ends the verification is not in the list of the skipped.
skipRestShort(stages) ==
  stages \o [i \in 1 .. Len(StageNames) - Len(stages) - 1 |->
               <<StageNames[Len(stages) + i], "skipped">>]

\* The rest of the stages, in order, are skipped.
skipRest(stages) ==
  stages \o [i \in 1 .. Len(StageNames) - Len(stages) |->
               <<StageNames[Len(stages) + i], "skipped">>]

Failed(stages) == \E i \in DOMAIN stages : stages[i][2] = "fail"

\* What ends the work: for a document the stages are filled up.
finish(j, why) ==
  [j EXCEPT !.step = "done", !.why = why,
            !.stages = IF j.kind = "bundle" THEN skipRest(@) ELSE @]

FailAt(j, name, why) == finish([j EXCEPT !.stages = add(@, name, "fail")], why)

verifyWithAnyKey(proof, keys) == proof.key \in keys

----------------------------------------------------------------------------
(* The walk.                                                               *)

\* Where it stops, and what the chain stage makes of it.
Stop(j, reached, why) ==
  IF j.kind = "bundle"
  THEN finish([j EXCEPT !.reached = reached,
                        !.stages = add(@, "chain", IF reached THEN "pass" ELSE "fail")], why)
  ELSE finish([j EXCEPT !.reached = reached], why)

\* What the walk takes for the end of a history: a record without a reference, or
\* with one that has no URI in it.
Ends == {None, NoUri}

\* One record of the walk: its link, and then the end of the history, the end
\* of patience, a reference that leads nowhere, or the next record.
Walk(j, u, r) ==
  LET k == [j EXCEPT !.links = Append(@, [uri |-> u, cid |-> r])] IN
  CASE r.prev \in Ends -> Stop(k, TRUE, "birth")
    [] r.prev \notin Ends /\ Len(k.links) > MAX_CHAIN_DEPTH -> Stop(k, FALSE, "long")
    [] r.prev = Malformed /\ Len(k.links) <= MAX_CHAIN_DEPTH -> Stop(k, FALSE, "malformed")
    [] r.prev = Elsewhere /\ Len(k.links) <= MAX_CHAIN_DEPTH -> Stop(k, FALSE, "elsewhere")
    [] OTHER -> [k EXCEPT !.step = "did", !.at = r.prev, !.pin = r.pin]

\* Mutant: any signed record at the address is a predecessor.
FollowAnywhere(j, r) ==
  IF r = None THEN Stop(j, FALSE, "absent") ELSE Walk(j, j.at, r)

\* The predecessor, signed: there, as it was when it was referenced, and of the
\* same part.
Follow(j, r) ==
  CASE r = None -> Stop(j, FALSE, "absent")
    [] r # None /\ j.pin # None /\ j.pin # r -> Stop(j, FALSE, "altered")
    [] r # None /\ j.pin \in {None, r} ->
         IF r.public["part"] = j.links[Len(j.links)].cid.public["part"]
         THEN Walk(j, j.at, r)
         ELSE Stop(j, FALSE, "other part")

----------------------------------------------------------------------------
(* verifyBundle, up to the first question; and between its questions.      *)

\* The instant keys are judged at is fixed here for a trace only: for a document when
\* its identity has been resolved, for a record alone when its proof has come.
NewJob(kind, b, stamped) ==
  [kind |-> kind, b |-> b, stamped |-> stamped, anchor |-> rotations,
   step |-> IF kind = "bundle" THEN "handle" ELSE "did", at |-> b.uri, pin |-> None,
   seen |-> None, dated |-> FALSE, keys |-> {}, proof |-> None, links |-> << >>,
   stages |-> << >>, reached |-> FALSE, why |-> "",
   quiet |-> TRUE, forged |-> impostors, claimed |-> {}]

Start(j) ==
  /\ job = Idle
  /\ job' = j
  /\ UNCHANGED <<world, changes, faults>>

\* A document, and the serial number stamped on the part if one was read.
verifyBundle(b, stamped) ==
  LET j == NewJob("bundle", b, stamped)
  IN  Start(IF b.uri = Malformed THEN FailAt(j, "resolve", "malformed") ELSE j)

\* The history of a record, and a record alone: no handle, and the proof is
\* asked for before the keys.
traceChain(b) == Start(NewJob("trace", b, None))

fetchVerifiedRelease(b) == Start(NewJob("fetch", b, None))

\* A failed question is not a quiet network.
Step(failed, next) ==
  /\ MayFail(failed)
  /\ job' = [next EXCEPT !.quiet = @ /\ ~failed]
  /\ UNCHANGED <<world, changes>>

\* Mutant: the handle need not resolve to the repository of the record.
ResolveHandleOnly ==
  /\ job.step = "handle"
  /\ \E failed \in BOOLEAN :
       LET did == Asked(resolveHandle(job.b.handle), failed)
           j == [job EXCEPT !.claimed = {did}]
       IN  Step(failed, IF did # None THEN [j EXCEPT !.step = "did"]
                        ELSE FailAt(j, "resolve", "handle"))

ResolveHandle ==
  /\ job.step = "handle"
  /\ \E failed \in BOOLEAN :
       LET did == Asked(resolveHandle(job.b.handle), failed)
           j == [job EXCEPT !.claimed = {did}]
       IN  Step(failed, IF did = Owner[job.b.uri] THEN [j EXCEPT !.step = "did"]
                        ELSE FailAt(j, "resolve", "handle"))

\* The record of the document itself.  Its keys are asked for before the record;
\* any other record is asked for first, and then its keys.
AtDocument == job.kind = "bundle" /\ job.links = << >>

ResolveDid ==
  /\ job.step = "did"
  /\ AtDocument
  /\ \E failed \in BOOLEAN :
       LET id == Asked(resolveDid(Owner[job.at]), failed)
       IN  Step(failed,
             IF id = None THEN FailAt(job, "resolve", "identity")
             ELSE [job EXCEPT !.seen = id.signingKey, !.step = "keys", !.anchor = rotations,
                              !.stages = add(@, "resolve", "pass")])

ResolveNext ==
  /\ job.step = "did"
  /\ ~AtDocument
  /\ \E failed \in BOOLEAN :
       LET id == Asked(resolveDid(Owner[job.at]), failed)
       IN  Step(failed, IF id = None THEN Stop(job, FALSE, "identity")
                        ELSE [job EXCEPT !.seen = id.signingKey, !.step = "proof"])

\* No history of keys: the key the identity names today.
KeysOr(answer) == IF answer = None THEN {job.seen} ELSE answer

AskKeys ==
  /\ job.step = "keys"
  /\ \E failed \in BOOLEAN :
       LET keys == Asked(signingKeysAt(Owner[job.at], job.anchor), failed)
       IN  Step(failed, [job EXCEPT !.keys = KeysOr(keys), !.step = "proof",
                                    !.dated = keys # None])

\* What a document is checked for once its record is there and signed.
Recompute(j, r) ==
  add(j.stages, "recompute", IF r.root = j.b.doc THEN "pass" ELSE "fail")

\* Field by field; a field the record leaves out is not a blank one.
Agree(stages, j, r) ==
  add(stages, "agree", IF \A f \in DOMAIN r.public : r.public[f] = j.b.doc[f]
                       THEN "pass" ELSE "fail")

Physical(stages, j, r) ==
  add(stages, "physical", IF j.stamped = None THEN "skipped"
                          ELSE IF j.stamped = r.public["part"] THEN "pass" ELSE "fail")

\* The record of a document: fetched, signed or not, proved absent, or checked
\* stage by stage, none of which ends the work.
CheckHead(j, proof) ==
  LET signed == add(add(j.stages, "fetch", "pass"), "signature",
                    IF j.dated THEN "pass" ELSE "warn")
      k == [j EXCEPT !.stages = signed]
  IN  CASE ~verifyWithAnyKey(proof, j.keys) ->
             finish([j EXCEPT !.stages = add(add(@, "fetch", "fail"), "signature", "fail")],
                    "unsigned")
        [] verifyWithAnyKey(proof, j.keys) /\ proof.record = None ->
             finish([j EXCEPT !.stages = add(add(@, "fetch", "fail"), "signature", "pass")],
                    "absent")
        [] verifyWithAnyKey(proof, j.keys) /\ proof.record # None ->
             Walk([k EXCEPT !.stages = Physical(Agree(Recompute(k, proof.record), k, proof.record),
                                                k, proof.record)],
                  j.at, proof.record)

AskProof ==
  /\ job.step = "proof"
  /\ AtDocument
  /\ \E failed \in BOOLEAN :
       LET proof == Asked(getRecordProof(job.at), failed)
       IN  Step(failed, IF proof = None THEN FailAt(job, "fetch", "unreachable")
                        ELSE CheckHead(job, proof))

AskNext ==
  /\ job.step = "proof"
  /\ ~AtDocument
  /\ \E failed \in BOOLEAN :
       LET proof == Asked(getRecordProof(job.at), failed)
       IN  Step(failed, IF proof = None THEN Stop(job, FALSE, "unreachable")
                        ELSE [job EXCEPT !.proof = proof, !.step = "check",
                                         !.anchor = IF job.kind = "fetch" THEN rotations
                                                    ELSE @])

\* fetchVerifiedRelease ends with the record it asked for, if that has a root.
FetchRecord(j, r) ==
  IF r = None THEN finish(j, "absent")
  ELSE finish([j EXCEPT !.reached = r.root # None,
                        !.links = <<[uri |-> j.at, cid |-> r]>>], "fetched")

\* traceChain walks from it.
TraceRecord(j, r) == IF r = None THEN finish(j, "absent") ELSE Walk(j, j.at, r)

\* The proof of a record came first: now its keys.
CheckProof ==
  /\ job.step = "check"
  /\ \E failed \in BOOLEAN :
       LET keys == KeysOr(Asked(signingKeysAt(Owner[job.at], job.anchor), failed))
           r    == job.proof.record
       IN  Step(failed,
             CASE ~verifyWithAnyKey(job.proof, keys) -> Stop(job, FALSE, "unsigned")
               [] verifyWithAnyKey(job.proof, keys) /\ job.links # << >> -> Follow(job, r)
               [] verifyWithAnyKey(job.proof, keys) /\ job.links = << >> ->
                    IF job.kind = "trace" THEN TraceRecord(job, r) ELSE FetchRecord(job, r))

----------------------------------------------------------------------------
Init ==
  /\ repo = [u \in Uris |-> None]
  /\ rotations = [d \in Dids |-> 0]
  /\ impostors = {}
  /\ handles = [h \in Handles |-> IF \E d \in Dids : HomeHandle[d] = h
                                  THEN CHOOSE d \in Dids : HomeHandle[d] = h ELSE None]
  /\ papers = {}
  /\ ever = {}
  /\ changes = 0
  /\ faults = 0
  /\ job = Idle

\* Papers as they were handed out, or made up, or altered.
Bundles == [uri : Uris \cup {Malformed}, handle : Handles, doc : Documents]

Network ==
  \/ \E u \in Uris, doc \in Documents, prev \in Uris \cup {None} : Issue(u, doc, prev)
  \/ \E u \in Uris : Rewrite(u) \/ Delete(u)
  \/ \E d \in Dids : rotateKey(d) \/ publishWrongKey(d)
  \/ \E h \in Handles, d \in Dids \cup {None} : repointHandle(h, d)

Verifier ==
  \/ \E b \in Bundles, stamped \in {None} \cup {doc.part : doc \in Documents} :
       verifyBundle(b, stamped)
  \/ \E b \in papers : traceChain(b) \/ fetchVerifiedRelease(b)
  \/ ResolveHandle \/ ResolveDid \/ AskKeys \/ AskProof
  \/ ResolveNext \/ AskNext \/ CheckProof

Next == Network \/ Verifier

Spec == Init /\ [][Next]_vars

----------------------------------------------------------------------------
(* Properties.                                                             *)

Done     == job.step = "done"
Verified == Done /\ job.kind = "bundle" /\ ~Failed(job.stages)

\* A report names all seven stages once, in their order, whichever of the early
\* exits it took (skipRest).
ReportsAreWhole ==
  Done /\ job.kind = "bundle" => [i \in DOMAIN job.stages |-> job.stages[i][1]] = StageNames

\* A document that verifies was published, over this commitment and with these
\* public fields, in the repository of the organization its handle resolved to,
\* and not by a server that signs with a key of its own; so was a record that is
\* fetched to check a disclosure (fetchVerifiedRelease).
VerifiedWasIssued ==
  /\ Verified =>
       /\ job.claimed = {Owner[job.b.uri]}
       /\ Owner[job.b.uri] \notin job.forged
       /\ \E e \in ever : /\ e[1] = job.b.uri
                          /\ e[2].root = job.b.doc
                          /\ e[2].public = publicValues(job.b.doc)
  /\ Done /\ job.why = "fetched" =>
       Owner[job.b.uri] \notin job.forged /\ <<job.b.uri, job.links[1].cid>> \in ever

\* A history is a path of records that were published, from the record asked about,
\* each the one the record before it names, unchanged since if that one pins it, of one
\* part; and it ends.  If it says it reached birth, its last record names no URI to go
\* on to: it has no reference, or one without a URI (walkChain takes either for a birth).
HistoriesHold ==
  Done /\ job.links # << >> =>
    LET L == job.links IN
    /\ L[1].uri = job.b.uri
    /\ Len(L) <= MAX_CHAIN_DEPTH + 1
    /\ \A i \in DOMAIN L : <<L[i].uri, L[i].cid>> \in ever /\ Owner[L[i].uri] \notin job.forged
    /\ \A i \in 1 .. Len(L) - 1 :
         /\ L[i].cid.prev = L[i + 1].uri
         /\ L[i].cid.pin \in {None, L[i + 1].cid}
         /\ L[i].cid.public["part"] = L[i + 1].cid.public["part"]
    /\ job.reached /\ job.kind # "fetch" => L[Len(L)].cid.prev \in Ends

\* Every record is as it was first published.
Unrewritten == \A e \in ever : repo[e[1]] = e[2]

\* The paper was handed out, and nothing was wrong with the network.
Clean ==
  /\ job.quiet
  /\ job.b \in papers
  /\ Unrewritten
  /\ impostors = {}
  /\ \A d \in Dids : handles[HomeHandle[d]] = d
  /\ Cardinality({e[2].public["part"] : e \in ever}) = 1
  /\ job.stamped \in {None, job.b.doc.part}
  /\ Cardinality(Uris) <= MAX_CHAIN_DEPTH + 1

\* On a network that keeps still and answers, a document as it was handed out
\* verifies, and every history traces back to birth; also after keys have rotated.
GenuineVerifies ==
  Done /\ Clean => (job.kind = "bundle" => Verified) /\ job.reached
=============================================================================
