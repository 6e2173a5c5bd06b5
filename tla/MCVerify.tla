------------------------------ MODULE MCVerify ------------------------------
(* A small instance of Verify for TLC: two organizations, three records, two  *)
(* parts, and a document with a blank public field.                           *)
EXTENDS Verify

MCOwner == <<"A", "B", "A">>
MCHomeHandle == [d \in Dids |-> IF d = "A" THEN "a.example" ELSE "b.example"]
MCDocuments ==
  { [part |-> "p", note |-> "n", secret |-> "s"],
    [part |-> "q", note |-> "n", secret |-> "s"] }
Blank == [part |-> "p", note |-> Null, secret |-> "s"]
MCDocumentsBlank == MCDocuments \cup {Blank}
=============================================================================
