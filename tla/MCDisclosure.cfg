SPECIFICATION Spec
CONSTANTS
  d1 = d1
  d2 = d2
  Docs = {d1, d2}
  FIELDS <- MCFIELDS
  NONCES <- MCNONCES
  NonceOf <- MCNonceOf
  Garbled <- MCGarbled
  Forms <- MCForms
  Retypings <- MCRetypings
  Requests <- MCRequests
  MaxEdits = 1
  MaxAmends = 1
SYMMETRY Interchangeable
INVARIANTS
  VerifiedIsCommitted
  UntouchedVerifies
  WithheldStaysShut
  SameDocument
CHECK_DEADLOCK FALSE
