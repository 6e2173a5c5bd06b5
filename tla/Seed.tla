-------------------------------- MODULE Seed --------------------------------
(***************************************************************************)
(* The seed job (seed/src/index.ts) and what it publishes                  *)
(* (seed/src/scenarios.ts, the cast of core/src/roster.ts).  One job runs  *)
(* at a time, from top to bottom, against a PDS any of whose calls may     *)
(* fail; a failed call ends the job, and the service is redeployed.  What  *)
(* the web service writes into the same accounts is not here: of the       *)
(* repositories, only what seed jobs published.                            *)
(***************************************************************************)
EXTENDS Integers, Sequences, FiniteSets, SequencesExt

CONSTANTS
  Modes,        \* environments of a deployment: "plain", "reset", "force"
  Attempts,     \* how often waitForPds asks (30)
  MaxJobs       \* bound: deployments

ASSUME SeedAssumption ==
  /\ Modes \subseteq {"plain", "reset", "force"}
  /\ Attempts \in Nat \ {0}
  /\ MaxJobs \in Nat

----------------------------------------------------------------------------
(* The scenarios.                                                          *)

orgs ==
  <<"northwind", "calder", "vantage",
    "cascadia", "ironwood", "saltmarsh", "flinthills", "harborpoint",
    "graniteridge", "clearwater", "copperline", "sandhills", "basalt",
    "fjordholm", "alpine", "wexford",
    "exampleair", "southpoint", "marisol", "highline", "cobaltcoast",
    "redcliff", "pinewood", "kenai",
    "meridian", "fairlead", "rioseco",
    "halyard", "windward">>

\* A shop visit whose customer published that the paper verified.
Visit(issuer, customer) == [issuer |-> issuer, customer |-> customer, received |-> TRUE]

\* One that says nothing: the part is still on its way.
InTransit(issuer, customer) == [Visit(issuer, customer) EXCEPT !.received = FALSE]

brokerForms == <<"NT-7702-09/1", "NT-7702-09/2", "NT-7702-09/3">>

\* Seventeen years, seven visits, six organizations.
deepLineage ==
  <<Visit("northwind", "exampleair"), Visit("ironwood", "exampleair"),
    Visit("cascadia", "exampleair"), Visit("harborpoint", "southpoint"),
    Visit("alpine", "southpoint"), Visit("fjordholm", "halyard"),
    Visit("cascadia", "marisol")>>

vanishedLineage ==
  <<Visit("copperline", "redcliff"), Visit("clearwater", "redcliff")>>

routineLineages ==
  << <<Visit("saltmarsh", "cobaltcoast")>>, <<Visit("flinthills", "highline")>>,
     <<Visit("graniteridge", "pinewood")>>, <<Visit("sandhills", "kenai")>>,
     <<Visit("basalt", "marisol")>>, <<Visit("wexford", "cobaltcoast")>>,
     <<Visit("fairlead", "highline")>>, <<Visit("ironwood", "redcliff")>>,
     <<InTransit("harborpoint", "southpoint")>>,
     <<Visit("clearwater", "pinewood"), Visit("copperline", "pinewood")>>,
     <<Visit("rioseco", "kenai")>> >>

\* A form is named by its part and its place in the part's life.  A release names
\* its predecessor by the record's URI and by its CID, which need not agree.
Form(part, i)     == <<part, i>>
Nowhere           == <<"never published", 0>>
NoPrev            == [uri |-> <<"none", 0>>, cid |-> <<"none", 0>>]
RefTo(form)       == [uri |-> form, cid |-> form]
Borrowing(form)   == [uri |-> Nowhere, cid |-> form]

issueRelease(by, form, prev) == [op |-> "release", by |-> by, form |-> form, prev |-> prev]
issueAttestation(by, form)   == [op |-> "attest", by |-> by, form |-> form, prev |-> NoPrev]

\* Oldest visit first; each links the one before it, and is attested before the next.
publishLineage(part, visits, startRef) ==
  FlattenSeq([i \in DOMAIN visits |->
    <<issueRelease(visits[i].issuer, Form(part, i),
                   IF i = 1 THEN startRef ELSE RefTo(Form(part, i - 1)))>>
    \o (IF visits[i].received
        THEN <<issueAttestation(visits[i].customer, Form(part, i))>> ELSE << >>)])

birthForm    == Form("fuel control unit", 1)
overhaulForm == Form("fuel control unit", 2)
orphanForm   == Form("hydraulic actuator", 1)

\* Everything main() publishes, in order.
Script ==
  <<issueRelease("northwind", birthForm, NoPrev),
    issueRelease("cascadia", overhaulForm, RefTo(birthForm)),
    issueAttestation("exampleair", overhaulForm),
    issueRelease("cascadia", orphanForm, Borrowing(birthForm))>>
  \o [i \in DOMAIN brokerForms |->
        issueRelease("meridian", Form(brokerForms[i], 1), NoPrev)]
  \o publishLineage("deep", deepLineage, NoPrev)
  \o publishLineage("vanished", vanishedLineage, Borrowing(birthForm))
  \o FlattenSeq([i \in DOMAIN routineLineages |->
        publishLineage("routine " \o ToString(i), routineLineages[i], NoPrev)])

Lines == 1 .. Len(Script)

Releases == {i \in Lines : Script[i].op = "release"}

\* One release names another's record.
Continues(i, h) == Script[i].prev.uri = Script[h].form

\* What the script is, whatever the constants: everyone in it is of the cast, it
\* issues no certificate twice, and only what it issues is attested; and a release
\* continues the history of its own part, where nothing else does, or is the one
\* origin of it.
ASSUME ScriptAssumption ==
  /\ Len(Script) \in Nat \ {0} /\ DOMAIN Script = Lines
  /\ \A i \in Lines : Script[i].by \in Range(orgs)
  /\ \A i, j \in Releases : Script[i].form = Script[j].form => i = j
  /\ \A i \in Lines : Script[i].op = "attest" =>
       \E j \in Releases : Script[j].form = Script[i].form
  /\ \A i, h \in Releases : Continues(i, h) =>
       /\ Script[h].form[1] = Script[i].form[1]
       /\ \A j \in Releases : Continues(j, h) => j = i
  /\ \A i, j \in Releases :
       Script[i].form[1] = Script[j].form[1] =>
         i = j \/ \E h \in Releases : Continues(i, h) \/ Continues(j, h)

----------------------------------------------------------------------------
VARIABLES
  accounts,      \* organizations with an account on the PDS
  profiles,      \* those with a station record, keyed 'self'
  releases,      \* release records standing: [by, form, prev, job]
  attestations,  \* attestation records standing: [by, form, job]
  job,           \* number of the deployment
  mode,          \* its environment
  phase,         \* how far main() is
  pos            \* and at which attempt, or line of the script

vars    == <<accounts, profiles, releases, attestations, job, mode, phase, pos>>
records == <<accounts, profiles, releases, attestations>>

Running == {"wait", "provision", "clear", "look", "profiles", "publish"}

At(p) == phase = p

Goto(p) ==
  /\ phase' = p
  /\ pos' = 1

\* The first of the cast that has not been through a loop of main() yet: one job
\* runs at a time, so what it has done so far is what there is.
NextOf(set) ==
  orgs[CHOOSE i \in DOMAIN orgs : orgs[i] \in set /\ \A k \in 1 .. i - 1 : orgs[k] \notin set]

Init ==
  /\ accounts = {} /\ profiles = {} /\ releases = {} /\ attestations = {}
  /\ job = 0 /\ mode = "plain" /\ phase = "none" /\ pos = 1

\* The service is deployed again: once a job ended, however it ended.
Deploy ==
  /\ phase \notin Running
  /\ job < MaxJobs
  /\ job' = job + 1
  /\ mode' \in Modes
  /\ Goto("wait")
  /\ UNCHANGED records

\* A call fails, and the job with it; whether the PDS did what was asked, or not.
Fail ==
  /\ phase \in Running \ {"wait"}
  /\ Goto("failed")
  /\ UNCHANGED <<records, job, mode>>

\* A PDS that is not up is asked again, so many times.
waitForPds ==
  /\ At("wait")
  /\ \/ Goto("provision")
     \/ IF pos < Attempts THEN pos' = pos + 1 /\ UNCHANGED phase ELSE Goto("failed")
  /\ UNCHANGED <<records, job, mode>>

\* Logs in, or creates the account: either way there is one now.
provision ==
  /\ At("provision")
  /\ LET missing == Range(orgs) \ accounts
     IN  IF missing # {}
         THEN accounts' = accounts \cup {NextOf(missing)} /\ UNCHANGED <<phase, pos>>
         ELSE /\ Goto(CASE mode = "reset" -> "clear"
                        [] mode = "plain" -> "look"
                        [] OTHER -> "profiles")
              /\ UNCHANGED accounts
  /\ UNCHANGED <<profiles, releases, attestations, job, mode>>

Of(org, set) == {x \in set : x.by = org}

\* Each organization's releases, then its attestations, then its profile; one
\* record at a time, in the order a listing gives them.
clearRecords ==
  /\ At("clear")
  /\ LET holding == {x.by : x \in releases \cup attestations} \cup profiles
         org     == NextOf(holding)
     IN  \/ /\ holding = {}
            /\ Goto("profiles")
            /\ UNCHANGED <<profiles, releases, attestations>>
         \/ /\ holding # {} /\ UNCHANGED <<phase, pos>>
            /\ \/ /\ \E r \in Of(org, releases) : releases' = releases \ {r}
                  /\ UNCHANGED <<attestations, profiles>>
               \/ /\ Of(org, releases) = {}
                  /\ \E a \in Of(org, attestations) : attestations' = attestations \ {a}
                  /\ UNCHANGED <<releases, profiles>>
               \/ /\ Of(org, releases) = {} /\ Of(org, attestations) = {}
                  /\ profiles' = profiles \ {org}
                  /\ UNCHANGED <<releases, attestations>>
  /\ UNCHANGED <<accounts, job, mode>>

\* Mutant: the first of the cast answers for the rest.
alreadySeededFirst(org) == org = orgs[1] /\ Of(org, releases) # {}

\* Mutant: the other collection is listed.
alreadySeededAttested(org) == Of(org, attestations) # {}

\* listRecords, of releases and of nothing else.
alreadySeeded(org) == Of(org, releases) # {}

\* One organization that holds a release ends the job, with nothing done and no
\* error.
Look ==
  /\ At("look")
  /\ Goto(IF \E o \in Range(orgs) : alreadySeeded(o) THEN "nothing to do" ELSE "profiles")
  /\ UNCHANGED <<records, job, mode>>

\* putRecord under the key 'self': a profile that is there is replaced.
writeStation ==
  /\ At("profiles")
  /\ LET missing == Range(orgs) \ profiles
     IN  IF missing # {}
         THEN profiles' = profiles \cup {NextOf(missing)} /\ UNCHANGED <<phase, pos>>
         ELSE Goto("publish") /\ UNCHANGED profiles
  /\ UNCHANGED <<accounts, releases, attestations, job, mode>>

\* The next createRecord of main().  Every reference it makes is to a record of
\* this job: CIDs differ from job to job, as the nonces do.
Publish ==
  /\ At("publish")
  /\ LET step == Script[pos]
     IN  \/ /\ step.op = "release"
            /\ releases' = releases \cup
                 {[by |-> step.by, form |-> step.form, prev |-> step.prev, job |-> job]}
            /\ UNCHANGED attestations
         \/ /\ step.op = "attest"
            /\ attestations' = attestations \cup
                 {[by |-> step.by, form |-> step.form, job |-> job]}
            /\ UNCHANGED releases
  /\ IF pos < Len(Script) THEN pos' = pos + 1 /\ UNCHANGED phase ELSE Goto("complete")
  /\ UNCHANGED <<accounts, profiles, job, mode>>

Next ==
  \/ Deploy \/ Fail \/ waitForPds \/ provision \/ clearRecords
  \/ Look \/ writeStation \/ Publish

Spec == Init /\ [][Next]_vars

----------------------------------------------------------------------------
(* Properties.                                                             *)

\* However many deployments fail half way, and whether or not they were to clear
\* what is there, no certificate stands twice (alreadySeeded: 'an unrelated commit
\* quietly wrote a second complete set of parts').
SeededOnce == \A r1, r2 \in releases : r1.form = r2.form => r1 = r2

\* What a release's URI leads to.
Before(r) == {p \in releases : p.job = r.job /\ p.form = r.prev.uri}

Whole ==
  /\ accounts = Range(orgs) /\ profiles = Range(orgs)
  /\ {<<r.by, r.form>> : r \in releases} =
       {<<s.by, s.form>> : s \in {x \in Range(Script) : x.op = "release"}}
  /\ \A s \in Range(Script) :
       s.op = "attest" =>
         \E a \in Of(s.by, attestations), r \in releases :
           a.form = s.form /\ r.form = s.form /\ a.job = r.job

\* A job that says it is complete leaves the whole demonstration, whatever earlier
\* jobs left, of what seed jobs publish: every part one history, from its only origin,
\* with no two releases after one (publishLineage).  A second origin the watchdog would
\* list (clonedSerials); two releases after one it would not.
CompleteIsWhole ==
  At("complete") =>
    /\ Whole
    /\ \A r \in releases :
         /\ \A p \in Before(r) : p.form[1] = r.form[1]
         /\ \A q \in releases : Before(r) # {} /\ Before(q) = Before(r) => q = r
         /\ \A q \in releases :
              q.form[1] = r.form[1] /\ Before(q) = {} /\ Before(r) = {} => q = r
=============================================================================
