------------------------ MODULE MCIdempotentRequests ------------------------
(* Instances of IdempotentRequests for TLC. *)
EXTENDS IdempotentRequests, TLC

CONSTANTS rep, adm, s1, p1, v1, k1, k2

On(v, operation, key) == [operation |-> operation, key |-> key, body |-> [visit |-> v]]
AddUnits(key, quantity, product) ==
  [operation |-> "add_line", key |-> key,
   body |-> [visit |-> v1, line |-> [slot |-> s1, quantity |-> quantity, product |-> product]]]
Resolve(key, l) ==
  [operation |-> "resolve", key |-> key, body |-> [visit |-> v1, line |-> l, product |-> p1]]
Move(operation, key, movement) == [operation |-> operation, key |-> key, body |-> movement]

\* One visit that loads two units, one of them identified late, next to an
\* assignment and to a return under the key of the assignment.  Keys are used
\* again by other operations.
ClientCommands ==
  {[operation |-> "create", key |-> v1, caller |-> rep, body |-> None],
   AddUnits(k1, 1, p1), AddUnits(k1, 1, None), AddUnits(k2, 1, None),
   On(v1, "complete", k1), On(v1, "cancel", None),
   Move("assign", k1, InventoryMovement("ASSIGNMENT", p1, 2, None, rep)),
   Move("return", k1, InventoryMovement("RETURN", p1, 1, rep, adm)),
   Move("loss", None, InventoryMovement("LOSS", p1, 1, rep, None))}
  \cup {Resolve(k2, l) : l \in LineIds}

OneUnit == [s \in Slots |-> 1]

Symmetry == Permutations(LineIds)

=============================================================================
