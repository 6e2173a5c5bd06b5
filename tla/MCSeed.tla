------------------------------- MODULE MCSeed -------------------------------
(* The whole cast and every scenario, and a handful of deployments, for TLC. *)
EXTENDS Seed
=============================================================================
