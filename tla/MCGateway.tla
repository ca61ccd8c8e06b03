----------------------------- MODULE MCGateway -----------------------------
(* Model checking of Gateway and TzBackfill: definitions, payloads, bounds. *)
EXTENDS TzBackfill
CONSTANTS c1, c2, ad1, ad2, m1, m2, a, b, k1, x, y, s1, s2

MCTypeOf == (x :> "integer") @@ (y :> "date")
MCDefinitions ==
  {[type |-> "A", attrs |-> {x}, pk |-> x], [type |-> "A", attrs |-> {x, y}, pk |-> None],
   [type |-> "B", attrs |-> {x}, pk |-> x]}
MCScopes ==
  {[directions |-> {"inbound"}, models |-> {a}], [directions |-> {"inbound", "outbound"}, models |-> {a, b}]}
MCPayloads ==
  {(x :> "integer") @@ (y :> "date"), (x :> "integer") @@ (y :> None), (x :> "number") @@ (y :> "text")}
MCFirst ==
  [name |-> a, definition |-> [type |-> "A", attrs |-> {x}, pk |-> x],
   payload |-> (x :> "integer") @@ (y :> "date")]
MCSymmetry == Permutations(Models) \cup Permutations(Shifters) \cup Permutations(Admins)
=============================================================================
