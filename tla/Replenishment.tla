---------------------------- MODULE Replenishment ----------------------------
(***************************************************************************)
(* The replenishment visit of domain/replenishment: an aggregate with a    *)
(* status, a version and lines, its guarded transitions, and the movements *)
(* its lines stand for. Pure: a use case loads a visit, applies one of     *)
(* these operators and saves the result.                                   *)
(***************************************************************************)
EXTENDS InventoryLedger

CONSTANTS
  Capacity,      \* Capacity[s]: units one operation may move in slot s
  LineRequests,  \* the lines clients ask to add
  MaxVersion     \* requests do not load visits past this version (bounds the model)

ASSUME CapacityAssumption == Capacity \in [Slots -> 1..MaxQty]
ASSUME VersionAssumption  == MaxVersion \in Nat \ {0}

Statuses == {"IN_PROGRESS", "COMPLETED", "CANCELLED"}

\* A line without a product is pending product resolution; with one it is
\* resolved. A positive quantity loads the slot, a negative one unloads it.
Quantities == (-MaxQty)..MaxQty \ {0}
Line == [slot : Slots, quantity : Quantities, product : Products \cup {None}]

ASSUME LineRequestsAssumption == LineRequests \subseteq Line

Resolved(line) == line.product # None
IsLoad(line)   == line.quantity > 0
Absolute(line) == IF IsLoad(line) THEN line.quantity ELSE -line.quantity

Visit ==
  [operator : Replenishers, status : Statuses, version : Nat \ {0},
   lines : [LineIds -> Line \cup {None}]]

ASSUME NoneVisitAssumption == None \notin Line /\ None \notin Visit

NoLines == [l \in LineIds |-> None]
LinesOf(visit) == {l \in LineIds : visit.lines[l] # None}
ResolvedLines(visit) == {l \in LinesOf(visit) : Resolved(visit.lines[l])}

\* Mutant of PendingLines: a resolved line can be resolved again.
AnyLines(visit) == LinesOf(visit)
PendingLines(visit)  == LinesOf(visit) \ ResolvedLines(visit)

\* Mutant of InProgress: only completion closes a visit.
NotCompleted(visit) == visit.status # "COMPLETED"
InProgress(visit) == visit.status = "IN_PROGRESS"
Closed(visit)     == visit.status \in {"COMPLETED", "CANCELLED"}

Started(operator) ==
  [operator |-> operator, status |-> "IN_PROGRESS", version |-> 1, lines |-> NoLines]

\* Capacity limits each operation on its own, whatever the slot holds.
WithinCapacity(line) == Absolute(line) <= Capacity[line.slot]

WithLine(visit, l, line)    == [visit EXCEPT !.lines[l] = line]
WithProduct(visit, l, p)    == [visit EXCEPT !.lines[l].product = p]
WithStatus(visit, status)   == [visit EXCEPT !.status = status]

\* Mutant of LineMovement: an unload keeps its negative quantity.
SignedLineMovement(visit, line) ==
  IF IsLoad(line)
  THEN InventoryMovement("REPLENISHMENT", line.product, line.quantity, visit.operator, line.slot)
  ELSE InventoryMovement("SLOT_REMOVAL", line.product, line.quantity, line.slot, visit.operator)

\* The movement of a line: a load takes the product from the visit's operator
\* to the slot, an unload brings it back.
LineMovement(visit, line) ==
  IF IsLoad(line)
  THEN InventoryMovement("REPLENISHMENT", line.product, line.quantity, visit.operator, line.slot)
  ELSE InventoryMovement("SLOT_REMOVAL", line.product, -line.quantity, line.slot, visit.operator)

Posting == [key : MovementKeys, movement : Movement]
ASSUME NonePostingAssumption == None \notin Posting
At(key, movement) == [key |-> key, movement |-> movement]

\* Mutant of CompletionPostings: removals are not posted.
CompletionLoads(v, visit) ==
  {At(LineKey(v, l), LineMovement(visit, visit.lines[l])) :
     l \in {r \in ResolvedLines(visit) : IsLoad(visit.lines[r])}}

\* What completing visit v posts, and what resolving its line l late posts.
CompletionPostings(v, visit) ==
  {At(LineKey(v, l), LineMovement(visit, visit.lines[l])) : l \in ResolvedLines(visit)}
ResolutionPosting(v, visit, l) == At(ResolveKey(v, l), LineMovement(visit, visit.lines[l]))

\* A load must be covered by the stock of the visit's operator.
Covered(stock, visit, line, p) ==
  IsLoad(line) => Absolute(line) <= stock[visit.operator][p]

=============================================================================
