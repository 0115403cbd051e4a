------------------------ MODULE ReplenishmentService ------------------------
(***************************************************************************)
(* What the replenishment and inventory use cases promise: each request is *)
(* one step on the stored rows, as if requests ran one after the other.    *)
(***************************************************************************)
EXTENDS RequestSteps

\* A repeated start, completion, resolution or inventory request finds its
\* work done and answers with it.
Replay ==
  /\ \/ \E v \in VisitKeys : Exists(v)
     \/ \E k \in InventoryKeys : ledger[k] # None
  /\ UNCHANGED store

Next ==
  \/ \E v \in VisitKeys, operator \in Replenishers : Start(v, operator)
  \/ \E v \in VisitKeys, l \in LineIds, line \in LineRequests : AddLine(v, l, line)
  \/ \E v \in VisitKeys : Complete(v)
  \/ \E v \in VisitKeys : Cancel(v)
  \/ \E v \in VisitKeys, l \in LineIds, p \in Products : ResolveLine(v, l, p)
  \/ \E k \in InventoryKeys, movement \in InventoryRequests : RegisterMovement(k, movement)
  \/ Replay

Init == EmptyStore
Spec == Init /\ [][Next]_store

=============================================================================
