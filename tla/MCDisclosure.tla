---------------------------- MODULE MCDisclosure ----------------------------
(* A small instance of Disclosure for TLC: one field of each kind but text's   *)
(* twin, five leaves padded to eight.                                          *)
EXTENDS Disclosure, TLC

CONSTANTS d1, d2

Str(body, style) == [type |-> "string", body |-> body, style |-> style]
Num(body, style) == [type |-> "number", body |-> body, style |-> style]

MCFIELDS ==
  << [name |-> "partNumber",  kind |-> "identifier", values |-> {}, public |-> TRUE],
     [name |-> "quantity",    kind |-> "integer",    values |-> {}, public |-> FALSE],
     [name |-> "status",      kind |-> "enum", values |-> {"new", "tested"}, public |-> FALSE],
     [name |-> "remarks",     kind |-> "text",       values |-> {}, public |-> FALSE],
     [name |-> "completedAt", kind |-> "timestamp",  values |-> {}, public |-> TRUE] >>

MCForms ==
  { [partNumber |-> Str("p", {"separators"}), quantity |-> Num("1", {}),
     status |-> Str("new", {}), remarks |-> Str("worn", {"spaces"}),
     completedAt |-> Str("jan", {"zone"})],
    [partNumber |-> Str("p", {"parted"}), completedAt |-> Str("jan", {})],
    [partNumber |-> Str("p", {"lowercase"}), completedAt |-> Str("jan", {"edge", "zone"})],
    [partNumber |-> Str("p", {}), quantity |-> Num("1", {"fraction"})] }

MCRetypings ==
  [partNumber  |-> {Str("p", {"lowercase", "unfolding"}), Str("q", {})},
   quantity    |-> {Null, Str("1", {})},
   status      |-> {Str("scrap", {}), Str("tested", {})},
   remarks     |-> {Str("", {}), Str("worn", {"separators"})},
   completedAt |-> {Str("jan", {"millis"}), Str("jan", {"naive"})}]

\* Fields asked for once, twice, out of order, or not in the table.
MCRequests ==
  { <<"remarks", "quantity">>, <<"completedAt", "status", "completedAt">>, <<"cost">>, << >> }

MCNONCES == {<<d, i>> : d \in Docs, i \in 1 .. 5}
MCNonceOf == [x \in Docs \X DOMAIN FIELDS |-> x]
MCGarbled == << >>

Interchangeable == Permutations(Docs)
=============================================================================
