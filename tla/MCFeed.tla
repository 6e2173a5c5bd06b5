------------------------------- MODULE MCFeed -------------------------------
(* Small instances of Feed for TLC. *)
EXTENDS Feed, TLC

CONSTANTS p1, p2

\* A stream's polls are alike.
Alike == Permutations(Polls)
=============================================================================
