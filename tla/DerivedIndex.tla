---------------------------- MODULE DerivedIndex ----------------------------
(***************************************************************************)
(* What the ingest service promises the readers of its database            *)
(* (ingest/schema.sql:3-6, ingest/store.go:79-85), with no consumer, no    *)
(* transaction and no connection in sight: the index is a view of what was *)
(* published.  It changes only when one whole commit is observed, or when  *)
(* it is forgotten to be rebuilt, and the position it claims moves with it.*)
(***************************************************************************)
EXTENDS Integers, Sequences

CONSTANTS
  Content,          \* the records that have a row
  Absent            \* in place of a URI: the index holds no row

VARIABLES
  published,        \* the commits, each with what it writes and deletes
  index,            \* content -> the URI it is indexed at, or Absent
  upTo              \* the position the index claims to have reached

vars == <<published, index, upTo>>

Empty == [c \in Content |-> Absent]

Init ==
  /\ published = << >>
  /\ index = Empty
  /\ upTo = -1

Publish ==
  /\ Len(published') = Len(published) + 1
  /\ \A s \in DOMAIN published : published'[s] = published[s]
  /\ UNCHANGED <<index, upTo>>

\* Every write of m is in the index, at a URI m wrote it to; nothing is left
\* at a URI m deleted; what m does not touch is untouched.
Reflects(m) ==
  /\ \A w \in m.writes : <<index'[w[2]], w[2]>> \in m.writes
  /\ \A c \in Content :
       /\ index'[c] \notin m.deletes
       /\ \/ index'[c] = index[c]
          \/ index'[c] = Absent /\ index[c] \in m.deletes
          \/ <<index'[c], c>> \in m.writes

\* Commit s is observed; s = upTo is a redelivery of the last one.  Commits
\* between upTo and s were not believed, or were gone from their server, and
\* leave nothing behind.
Observe(s) ==
  /\ s >= upTo
  /\ upTo' = s
  /\ Reflects(published[s])
  /\ UNCHANGED published

Forget ==
  /\ index' = Empty
  /\ upTo' = -1
  /\ UNCHANGED published

Next ==
  \/ Publish
  \/ \E s \in DOMAIN published : Observe(s)
  \/ Forget

Spec == Init /\ [][Next]_vars
=============================================================================
