----------------------------- MODULE RequestSteps ----------------------------
(***************************************************************************)
(* What each replenishment and inventory request does to the stored rows   *)
(* when it is a single step.  A request the code rejects changes nothing   *)
(* and is no step.                                                         *)
(***************************************************************************)
EXTENDS VisitStore, SequencesExt

Saved(visit) == [visit EXCEPT !.version = @ + 1]
Save(v, visit) == visits' = [visits EXCEPT ![v] = Saved(visit)]

\* Post movements in some order: each is checked against the stock the ones
\* before it leave, one already stored is skipped, and all are stored or none.
After(order, n) ==
  FoldLeft(LAMBDA s, t : Apply(s, t.movement), stock, SubSeq(order, 1, n))

MovementAt(postings, k) == (CHOOSE t \in postings : t.key = k).movement

Post(postings) ==
  \E order \in SetToSeqs({t \in postings : ledger[t.key] = None}) :
    /\ \A i \in DOMAIN order : EnsureCanApply(After(order, i - 1), order[i].movement)
    /\ stock' = After(order, Len(order))
    /\ ledger' = [k \in MovementKeys |->
         IF \E i \in DOMAIN order : order[i].key = k
         THEN MovementAt(postings, k)
         ELSE ledger[k]]

----------------------------------------------------------------------------
Start(v, operator) ==
  /\ ~Exists(v)
  /\ visits' = [visits EXCEPT ![v] = Started(operator)]
  /\ UNCHANGED <<ledger, stock>>

AddLine(v, l, line) ==
  /\ Loadable(v)
  /\ InProgress(visits[v])
  /\ l \notin LinesOf(visits[v])
  /\ WithinCapacity(line)
  /\ Resolved(line) => Covered(stock, visits[v], line, line.product)
  /\ Save(v, WithLine(visits[v], l, line))
  /\ UNCHANGED <<ledger, stock>>

Complete(v) ==
  /\ Loadable(v)
  /\ InProgress(visits[v])
  /\ Post(CompletionPostings(v, visits[v]))
  /\ Save(v, WithStatus(visits[v], "COMPLETED"))

Cancel(v) ==
  /\ Loadable(v)
  /\ InProgress(visits[v])
  /\ Save(v, WithStatus(visits[v], "CANCELLED"))
  /\ UNCHANGED <<ledger, stock>>

\* Before completion the product is only recorded; afterwards the movement
\* the completion left out is posted with it.
ResolveLine(v, l, p) ==
  /\ Loadable(v)
  /\ visits[v].status # "CANCELLED"
  /\ l \in PendingLines(visits[v])
  /\ Save(v, WithProduct(visits[v], l, p))
  /\ IF visits[v].status = "COMPLETED"
     THEN Post({ResolutionPosting(v, WithProduct(visits[v], l, p), l)})
     ELSE UNCHANGED <<ledger, stock>>

RegisterMovement(k, movement) ==
  /\ ledger[k] = None
  /\ Post({At(k, movement)})
  /\ UNCHANGED visits

=============================================================================
