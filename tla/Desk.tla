-------------------------------- MODULE Desk --------------------------------
(***************************************************************************)
(* The organizations' desk (the writing routes of web/app.ts): a visitor   *)
(* acts as an organization, signs releases, and receives, checks and       *)
(* attests to parts, in several tabs of one browser and beside the         *)
(* generator.  The process boots as web/config.ts, web/mode.ts and         *)
(* web/index.ts have it, and may be restarted: the dock and the requests   *)
(* in flight are lost, the browser is not.                                 *)
(***************************************************************************)
EXTENDS Dock, FiniteSets

CONSTANTS
  Orgs,             \* the roster the writer knows
  Default,          \* the first repair station on it
  Sent,             \* [releases -> Orgs]: who a part is sent to
  Tabs,
  Environments,     \* environments a deployment may be given
  None, Public

CONSTANTS
  MaxCalls,         \* bound: attestations being published at once
  MaxFlips,         \* bound: times the PDS goes down or comes back
  MaxRestarts       \* bound: restarts of the process

ASSUME DeskAssumption ==
  /\ DockCap \in Nat
  /\ Default \in Orgs
  /\ \A u \in DOMAIN Sent : Sent[u] \in Orgs
  /\ None \notin Orgs /\ Public \notin Orgs

Releases == DOMAIN Sent

VARIABLES
  env, pdsUp, proc, flips, restarts,
  cookie,           \* f8130_actor: None, Public, or a handle
  tabs,             \* what each tab shows
  dock, handed,     \* handed: parts handed over so far
  lost,             \* history: those handed over to a process that stopped
  queue,            \* the generator's arrivals yet to be attested
  holds,            \* does the paper of a part verify at present
  calls,            \* POST /attest under way
  said,             \* attestations published: [by, of, how]
  cleared           \* history: parts recipients took off their list

deployment == <<env, pdsUp, proc, flips, restarts>>
vars == <<deployment, cookie, tabs, dock, handed, lost, queue, holds, calls, said,
          cleared>>

----------------------------------------------------------------------------
(* Booting.                                                                *)

loadConfig(e) ==
  CASE e.mode \in {"live", "demo"}                   -> e.mode
    [] e.mode = "unset" /\ e.demoFlag                -> "demo"
    [] e.mode = "unset" /\ ~e.demoFlag /\ e.database -> "live"
    [] e.mode = "unset" /\ ~e.demoFlag /\ ~e.database -> "demo"

pdsReachable(e, up) == e.pds /\ up

\* Mutant: production falls back as a preview does.
resolveModeAlike(e, up) ==
  IF loadConfig(e) = "live" /\ pdsReachable(e, up) THEN "live" ELSE "demo"

\* Live is what was asked for and is there; or what production was asked for.
resolveMode(e, up) ==
  IF loadConfig(e) = "live" /\ (pdsReachable(e, up) \/ e.production) THEN "live" ELSE "demo"

\* A way to write, whether or not the PDS answers at present.
Writes(e, mode) == mode = "demo" \/ (e.pds /\ e.password)

\* The generator runs in a demonstration unless it is switched off, elsewhere if
\* it is switched on.
Generates(e, mode) ==
  Writes(e, mode) /\ e.activity # "0" /\ (mode = "demo" \/ e.activity = "1")

main(e, up) ==
  LET mode == resolveMode(e, up)
  IN  [mode |-> mode, writer |-> Writes(e, mode), activity |-> Generates(e, mode)]

Fresh ==
  /\ dock' = [o \in Orgs |-> << >>]
  /\ lost' = handed
  /\ queue' = {}
  /\ calls' = {}
  /\ cleared' = {}

\* A demonstration's network goes with its process.
Restart ==
  /\ restarts < MaxRestarts
  /\ restarts' = restarts + 1
  /\ proc' = main(env, pdsUp)
  /\ Fresh
  /\ said' = IF proc.mode = "demo" THEN {} ELSE said
  /\ UNCHANGED <<env, pdsUp, flips, cookie, tabs, handed, holds>>

PdsFlips ==
  /\ env.pds
  /\ flips < MaxFlips
  /\ flips' = flips + 1
  /\ pdsUp' = ~pdsUp
  /\ UNCHANGED <<lost, env, proc, restarts, cookie, tabs, dock, handed, queue, holds,
                 calls, said, cleared>>

\* The writer's own network: in the process, or the PDS.
Writable == proc.mode = "demo" \/ pdsUp

----------------------------------------------------------------------------
(* Viewpoints.                                                             *)

Blank == [at |-> "blank"]
Show(t, page) == tabs' = [tabs EXCEPT ![t] = page]

\* No cookie is a first arrival; a name the roster does not have is nobody.
currentActor == CASE cookie = None   -> Default
                  [] cookie = Public -> None
                  [] OTHER           -> cookie

Acting == proc.writer /\ currentActor # None

actAs(who) ==
  /\ proc.writer
  /\ who \in Orgs \cup {Public}
  /\ cookie' = who
  /\ UNCHANGED <<deployment, lost, tabs, dock, handed, queue, holds, calls, said,
                 cleared>>

----------------------------------------------------------------------------
(* Releasing.                                                              *)

\* GET /issue: a draft with the letterhead of the organization asked for, or of
\* the one acting; the cookie follows it.
Draft(t, asked) ==
  /\ proc.writer
  /\ LET handle == IF asked \in Orgs THEN asked ELSE currentActor
     IN  /\ handle # None
         /\ cookie' = IF handle = currentActor THEN cookie ELSE handle
         /\ Show(t, [at |-> "draft", as |-> handle])
  /\ UNCHANGED <<deployment, lost, dock, handed, queue, holds, calls, said, cleared>>

\* A record in the repository of the organization named, of the form as given.
createRelease(handle, form) == [at |-> "receipt", repo |-> handle, letterhead |-> form.as]

\* POST /issue: signed by whoever the cookie names now.  A write that fails gives
\* the draft back.
Sign(t) ==
  /\ Acting
  /\ tabs[t].at = "draft"
  /\ Writable
  /\ Show(t, createRelease(currentActor, tabs[t]))
  /\ UNCHANGED <<deployment, lost, cookie, dock, handed, queue, holds, calls, said,
                 cleared>>

----------------------------------------------------------------------------
(* Receiving.                                                              *)

\* The generator hands a part over, and may attest to it for its recipient later.
HandOverPart(u) ==
  /\ proc.activity
  /\ u \notin handed
  /\ handed' = handed \cup {u}
  /\ dock' = HandOver(dock, Sent[u], u)
  /\ queue' = queue \cup {u}
  /\ UNCHANGED <<deployment, lost, cookie, tabs, holds, calls, said, cleared>>

GeneratorAttests(u) ==
  /\ proc.activity
  /\ Writable
  /\ u \in queue
  /\ queue' = queue \ {u}
  /\ said' = said \cup {[by |-> Sent[u], of |-> u, how |-> "generator"]}
  /\ dock' = Settle(dock, u)
  /\ UNCHANGED <<deployment, lost, cookie, tabs, handed, holds, calls, cleared>>

\* The issuer rewrites or deletes the record of a part, and does not put it back.
Spoil(u) ==
  /\ holds[u]
  /\ holds' = [holds EXCEPT ![u] = FALSE]
  /\ UNCHANGED <<deployment, lost, cookie, tabs, dock, handed, queue, calls, said,
                 cleared>>

\* The acting organization's own arrival, and nobody else's.
OwnArrival(u) == Arrival(dock, currentActor, u)

\* The page of a received part: a button to check it, then what the check allows.
receivedSections(report) ==
  CASE report = "none" -> {"check"}
    [] report = "pass" -> {"attest", "clear"}
    [] report = "fail" -> {"clear"}

\* The page a pasted document gets.
verifyPage(u) == IF holds[u] /\ Acting THEN [at |-> "vouch", of |-> u] ELSE Blank

\* The buttons of the page a tab shows, which nothing redraws.
Offered(page) ==
  CASE page.at = "paper" -> receivedSections(page.report)
    [] page.at = "vouch" -> {"attest"}
    [] OTHER             -> {}

\* GET /inbox/scan
Scan(t, u) ==
  /\ Acting
  /\ OwnArrival(u)
  /\ Show(t, [at |-> "paper", as |-> currentActor, of |-> u, report |-> "none"])
  /\ UNCHANGED <<deployment, lost, cookie, dock, handed, queue, holds, calls, said,
                 cleared>>

\* POST /inbox/check
CheckPart(t) ==
  /\ Acting
  /\ "check" \in Offered(tabs[t])
  /\ LET u == tabs[t].of
     IN  /\ OwnArrival(u)
         /\ Show(t, [at |-> "paper", as |-> currentActor, of |-> u,
                     report |-> IF holds[u] THEN "pass" ELSE "fail"])
  /\ UNCHANGED <<deployment, lost, cookie, dock, handed, queue, holds, calls, said,
                 cleared>>

\* POST /inbox/clear
ClearPart(t) ==
  /\ Acting
  /\ "clear" \in Offered(tabs[t])
  /\ LET u == tabs[t].of
     IN  IF OwnArrival(u)
         THEN /\ dock' = Settle(dock, u)
              /\ cleared' = cleared \cup {<<currentActor, u>>}
         ELSE UNCHANGED <<dock, cleared>>
  /\ Show(t, Blank)
  /\ UNCHANGED <<deployment, lost, cookie, handed, queue, holds, calls, said>>

\* POST /verify: a pasted document that verifies may be vouched for.
Paste(t, u) ==
  /\ u \in handed
  /\ Show(t, verifyPage(u))
  /\ UNCHANGED <<deployment, lost, cookie, dock, handed, queue, holds, calls, said,
                 cleared>>

----------------------------------------------------------------------------
(* POST /attest.                                                           *)

\* how: does the document verify as the button is pressed, of a part of one's own.
Call(u, step) ==
  [id |-> Min((1 .. MaxCalls) \ {c.id : c \in calls}), by |-> currentActor, of |-> u,
   how |-> CASE ~OwnArrival(u) -> "pasted"
             [] OwnArrival(u) /\ holds[u] -> "checked"
             [] OTHER -> "unchecked",
   step |-> step]

\* Mutant: the screen that sent the request is taken at its word.
AttestOnTrust(t) ==
  /\ Acting
  /\ "attest" \in Offered(tabs[t])
  /\ Cardinality(calls) < MaxCalls
  /\ LET u == tabs[t].of
     IN  calls' = calls \cup {Call(u, "write")}
  /\ UNCHANGED <<deployment, lost, cookie, tabs, dock, handed, queue, holds, said,
                 cleared>>

\* The button of a page that was shown some time ago, pressed once or twice: the
\* arrival is looked up first, and a part of one's own is checked again.
Attest(t) ==
  /\ Acting
  /\ "attest" \in Offered(tabs[t])
  /\ Cardinality(calls) < MaxCalls
  /\ LET u == tabs[t].of
     IN  calls' = calls \cup {Call(u, IF OwnArrival(u) THEN "check" ELSE "write")}
  /\ UNCHANGED <<deployment, lost, cookie, tabs, dock, handed, queue, holds, said,
                 cleared>>

\* verifyBundle answers: 409, or on to the write.
AttestCheck(c) ==
  /\ c.step = "check"
  /\ calls' = (calls \ {c}) \cup (IF holds[c.of] THEN {[c EXCEPT !.step = "write"]} ELSE {})
  /\ UNCHANGED <<deployment, lost, cookie, tabs, dock, handed, queue, holds, said,
                 cleared>>

\* Mutant: the crate is taken off the list before the write.
AttestWriteEarly(c) ==
  /\ c.step = "write"
  /\ dock' = Settle(dock, c.of)
  /\ \/ /\ Writable
        /\ said' = said \cup {[by |-> c.by, of |-> c.of, how |-> c.how]}
        /\ calls' = (calls \ {c}) \cup {[c EXCEPT !.step = "answer"]}
     \/ /\ proc.mode = "live"
        /\ calls' = calls \ {c}
        /\ UNCHANGED said
  /\ UNCHANGED <<deployment, lost, cookie, tabs, handed, queue, holds, cleared>>

\* createAttestation writes, or fails.
AttestWrite(c) ==
  /\ c.step = "write"
  /\ \/ /\ Writable
        /\ said' = said \cup {[by |-> c.by, of |-> c.of, how |-> c.how]}
        /\ calls' = (calls \ {c}) \cup {[c EXCEPT !.step = "answer"]}
     \/ /\ proc.mode = "live"
        /\ calls' = calls \ {c}
        /\ UNCHANGED said
  /\ UNCHANGED <<deployment, lost, cookie, tabs, dock, handed, queue, holds, cleared>>

\* The answer arrives, and the part is off every list; or it is lost.
AttestAnswered(c) ==
  /\ c.step = "answer"
  /\ calls' = calls \ {c}
  /\ \/ dock' = Settle(dock, c.of)
     \/ proc.mode = "live" /\ UNCHANGED dock
  /\ UNCHANGED <<deployment, lost, cookie, tabs, handed, queue, holds, said, cleared>>

----------------------------------------------------------------------------
Init ==
  /\ env \in Environments
  /\ pdsUp \in {env.pds, FALSE}
  /\ proc = main(env, pdsUp)
  /\ flips = 0
  /\ restarts = 0
  /\ cookie = None
  /\ tabs = [t \in Tabs |-> Blank]
  /\ dock = [o \in Orgs |-> << >>]
  /\ handed = {} /\ lost = {} /\ queue = {} /\ calls = {} /\ said = {}
  /\ cleared = {}
  /\ holds = [u \in Releases |-> TRUE]

Next ==
  \/ Restart \/ PdsFlips
  \/ \E who \in Orgs \cup {Public} : actAs(who)
  \/ \E t \in Tabs, asked \in Orgs \cup {None} : Draft(t, asked)
  \/ \E u \in Releases : HandOverPart(u) \/ GeneratorAttests(u) \/ Spoil(u)
  \/ \E t \in Tabs, u \in Releases : Scan(t, u) \/ Paste(t, u)
  \/ \E t \in Tabs : Sign(t) \/ CheckPart(t) \/ ClearPart(t) \/ Attest(t)
  \/ \E c \in calls : AttestCheck(c) \/ AttestWrite(c) \/ AttestAnswered(c)

Spec == Init /\ [][Next]_vars

----------------------------------------------------------------------------
(* Properties.                                                             *)

Waits(u) == \E o \in Orgs : Arrival(dock, o, u)

\* A part is off the list of its recipient only if somebody said in public that it
\* was checked, its recipient took it off, or more came than the list keeps: a write
\* that fails (POST /attest) leaves it waiting.
LeavesForCause ==
  \A u \in handed \ lost :
    \/ Waits(u)
    \/ <<Sent[u], u>> \in cleared
    \/ \E s \in said : s.of = u
    \/ Cardinality({w \in handed \ lost : Sent[w] = Sent[u]}) > DockCap

\* An organization that attests to a part on its own list says so of a document
\* that verified when it pressed the button, not when the page was drawn.
CheckedBeforeSaid == \A s \in said : s.how # "unchecked"

\* Production that is asked for a live network never serves an invented one, at
\* whatever moment it is restarted (resolveMode).
ProductionStaysLive ==
  env.production /\ loadConfig(env) = "live" => proc.mode = "live"
=============================================================================
