-------------------------------- MODULE Dock --------------------------------
(***************************************************************************)
(* The receiving dock (web/dock.ts): per organization, the parts handed to *)
(* it that nobody has dealt with yet, newest first.  A map in the memory   *)
(* of the web process, here a function d from organizations to sequences  *)
(* of releases; every operation is a synchronous call.                     *)
(***************************************************************************)
EXTENDS Integers, Sequences, FiniteSets, SequencesExt

CONSTANT DockCap    \* arrivals kept per organization

\* A list filtered by x => x !== gone.  SelectSeq, in a form that can be reasoned
\* about: the k-th entry is the one with k of those that stay up to it.
Without(list, gone) ==
  LET kept     == {i \in DOMAIN list : list[i] # gone}
      place(i) == Cardinality({h \in kept : h <= i})
  IN  [k \in 1 .. Cardinality(kept) |-> list[CHOOSE i \in kept : place(i) = k]]

\* A release that waits already is not booked in twice; past the cap the
\* oldest arrival is dropped.
HandOver(d, org, release) ==
  IF Contains(d[org], release) THEN d
  ELSE LET list == <<release>> \o d[org]
       IN  [d EXCEPT ![org] = SubSeq(list, 1, IF Len(list) > DockCap THEN DockCap
                                              ELSE Len(list))]

Waiting(d, org) == Len(d[org])

Arrival(d, org, release) == Contains(d[org], release)

\* Settled for every organization, not only for the one that dealt with it.
Settle(d, release) ==
  [org \in DOMAIN d |-> Without(d[org], release)]
=============================================================================
