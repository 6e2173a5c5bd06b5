------------------------------- MODULE MCReads ------------------------------
(* A small instance of Reads for TLC.                                         *)
EXTENDS Reads
=============================================================================
