------------------------------- MODULE MCDesk -------------------------------
(* A small instance of Desk for TLC.                                          *)
EXTENDS Desk

MCSent == [u \in {"u"} |-> "a"]

E(mode, database, pds, password, production, activity) ==
  [mode |-> mode, demoFlag |-> FALSE, database |-> database, pds |-> pds,
   password |-> password, production |-> production, activity |-> activity]

\* Production; a preview cloned from it without a PDS; a clone of the repository.
MCEnvironments ==
  { E("live", TRUE, TRUE, TRUE, TRUE, "1"),
    E("live", TRUE, FALSE, TRUE, FALSE, "1"),
    [E("unset", FALSE, FALSE, FALSE, FALSE, "unset") EXCEPT !.demoFlag = TRUE],
    E("unset", TRUE, TRUE, FALSE, TRUE, "0") }
=============================================================================
