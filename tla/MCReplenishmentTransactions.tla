--------------------- MODULE MCReplenishmentTransactions ---------------------
(* Instances of ReplenishmentTransactions for TLC. *)
EXTENDS ReplenishmentTransactions, RequestSets, TLC

\* Every request ends, in a commit or in a rollback: the locks that statements
\* wait for are released (models.py: unique keys; repositories.py: save), even
\* when two requests insert the same keys in opposite orders.
EveryRequestEnds == \A w \in Workers : pc[w] # "idle" ~> pc[w] = "idle"

\* Sessions, lines and inventory keys are interchangeable.
Symmetry ==
  Permutations(Workers) \cup Permutations(LineIds) \cup Permutations(InventoryKeys)

=============================================================================
