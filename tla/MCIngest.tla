------------------------------ MODULE MCIngest ------------------------------
(***************************************************************************)
(* Instances of Ingest for TLC.  Release r1 is A's own; r2 and the profile *)
(* p3, where there are any, are records that do not decode.  An            *)
(* attestation names no author, so any repository can publish a1 or a2.    *)
(***************************************************************************)
EXTENDS Ingest, TLC

CONSTANTS A, r1

MCIssuerDID == [r \in Releases |-> IF r = r1 THEN A ELSE None]

\* Nothing tells one attestation from another where there are no releases.
MCSymmetry == Permutations(Attestations)

=============================================================================
