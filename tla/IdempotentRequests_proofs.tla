---------------------- MODULE IdempotentRequests_proofs ----------------------
(***************************************************************************)
(* Theorems about IdempotentRequests, for any commands, keys, operators,   *)
(* visits and movements.                                                   *)
(***************************************************************************)
EXTENDS IdempotentRequests, RequestSteps_proofs

----------------------------------------------------------------------------
(* One answer per request *)

AnswerInv ==
  /\ replies \in [Commands -> SUBSET UNION {replies[c] : c \in Commands}]
  /\ OneAnswerPerRequest

\* What a request does, beside what its handler does with the rows: it replays
\* the record, or it writes the record and gives the same answer.
Replayed(c) ==
  /\ SameRequest(c)
  /\ Tell(c, records[Slot(c)].answer)
  /\ UNCHANGED <<records, forgotten>>

Handled(c) == ~Recorded(c) /\ \E answer : Answered(c, answer)

LEMMA Receiving ==
  ASSUME NEW c \in Commands, Receive(c)
  PROVE  Replayed(c) \/ Handled(c)
BY DEF Receive, ReplayStored, Replayed, Handled, Handles, CreateReplenishment,
       AddReplenishmentLine, CompleteReplenishment, CancelReplenishment,
       ResolveReplenishmentLineProduct, RegisterInventoryMovement, Did, Found

LEMMA ReplayKeepsAnswers ==
  ASSUME AnswerInv, NEW c \in Commands, Replayed(c)
  PROVE  AnswerInv'
<1>1. /\ replies' = [replies EXCEPT ![c] = @ \cup {records[Slot(c)].answer}]
      /\ records' = records /\ forgotten' = forgotten
      /\ SameRequest(c)
  BY DEF Replayed, Tell
<1>2. replies' \in [Commands -> SUBSET UNION {replies'[d] : d \in Commands}]
  BY <1>1 DEF AnswerInv
<1>3. OneAnswerPerRequest'
  BY <1>1 DEF AnswerInv, OneAnswerPerRequest, SameRequest, Recorded
<1>. QED  BY <1>2, <1>3 DEF AnswerInv

LEMMA HandlingKeepsAnswers ==
  ASSUME AnswerInv, NEW c \in Commands, Handled(c)
  PROVE  AnswerInv'
<1>1. PICK answer : Answered(c, answer)
  BY DEF Handled
<1>2. /\ replies' = [replies EXCEPT ![c] = @ \cup {answer}]
      /\ forgotten' = forgotten
      /\ ~Recorded(c)
  BY <1>1 DEF Handled, Answered, Tell
<1>3. replies' \in [Commands -> SUBSET UNION {replies'[d] : d \in Commands}]
  BY <1>2 DEF AnswerInv
<1>4. OneAnswerPerRequest'
  <2> SUFFICES ASSUME NEW d \in Commands, Keyed(d), Slot(d) \notin forgotten, replies'[d] # {}
               PROVE  SameRequest(d)' /\ replies'[d] = {records'[Slot(d)].answer}
    BY <1>2 DEF OneAnswerPerRequest, SameRequest, Recorded, Keyed, Slot
  <2>1. CASE Keyed(c) /\ d = c
    <3>1. replies[c] = {}
      BY <1>2, <2>1 DEF AnswerInv, OneAnswerPerRequest, SameRequest
    <3>2. Slot(c) \in DOMAIN records' /\ records'[Slot(c)] = [body |-> c.body, answer |-> answer]
      BY <1>1, <2>1 DEF Answered, Remember, StoredAt
    <3>3. replies'[c] = {answer}
      BY <1>2, <3>1 DEF AnswerInv
    <3>. QED  BY <2>1, <3>2, <3>3 DEF SameRequest, Recorded, Keyed, Slot
  <2>2. CASE d # c
    <3>1. replies'[d] = replies[d]
      BY <1>2, <2>2 DEF AnswerInv
    <3>2. SameRequest(d) /\ replies[d] = {records[Slot(d)].answer}
      BY <3>1 DEF AnswerInv, OneAnswerPerRequest, SameRequest
    <3>3. Keyed(c) => Slot(d) # Slot(c)
      BY <1>2, <3>2 DEF SameRequest, Recorded, Keyed
    <3>4. Slot(d) \in DOMAIN records' /\ records'[Slot(d)] = records[Slot(d)]
      BY <1>1, <3>2, <3>3 DEF Answered, Remember, StoredAt, SameRequest, Recorded
    <3>. QED  BY <3>1, <3>2, <3>4 DEF SameRequest, Recorded, Keyed, Slot
  <2>3. CASE ~Keyed(c) /\ d = c
    BY <2>3
  <2>. QED  BY <2>1, <2>2, <2>3
<1>. QED  BY <1>3, <1>4 DEF AnswerInv

LEMMA ExpiryKeepsAnswers ==
  ASSUME AnswerInv, NEW c \in Commands, Expire(c)
  PROVE  AnswerInv'
<1>1. /\ records' = [slot \in DOMAIN records \ {Slot(c)} |-> records[slot]]
      /\ forgotten' = forgotten \cup {Slot(c)} /\ replies' = replies
  BY DEF Expire
<1>2. OneAnswerPerRequest'
  <2> SUFFICES ASSUME NEW d \in Commands, Keyed(d), Slot(d) \notin forgotten', replies[d] # {}
               PROVE  SameRequest(d)' /\ replies[d] = {records'[Slot(d)].answer}
    BY <1>1 DEF OneAnswerPerRequest, SameRequest, Recorded, Keyed, Slot
  <2>1. SameRequest(d) /\ replies[d] = {records[Slot(d)].answer} /\ Slot(d) # Slot(c)
    BY <1>1 DEF AnswerInv, OneAnswerPerRequest, SameRequest
  <2>. QED  BY <1>1, <2>1 DEF SameRequest, Recorded, Keyed, Slot
<1>. QED  BY <1>1, <1>2 DEF AnswerInv

\* A request with a key that has been answered keeps its one answer for as long
\* as its record is kept, whatever other requests come between its repetitions.
THEOREM OneAnswerEach == Spec => []OneAnswerPerRequest
<1>1. Init => AnswerInv
  BY DEF Init, AnswerInv, OneAnswerPerRequest
<1>2. AnswerInv /\ [Next]_vars => AnswerInv'
  <2> SUFFICES ASSUME AnswerInv, [Next]_vars PROVE AnswerInv'  OBVIOUS
  <2>1. CASE UNCHANGED <<records, forgotten, replies>>
    BY <2>1 DEF AnswerInv, OneAnswerPerRequest, SameRequest, Recorded
  <2>2. ASSUME NEW c \in Commands, Receive(c) \/ Expire(c) PROVE AnswerInv'
    BY <2>2, Receiving, ReplayKeepsAnswers, HandlingKeepsAnswers, ExpiryKeepsAnswers
  <2>. QED  BY <2>1, <2>2 DEF Next, ChangeAccess, vars
<1>. QED  BY <1>1, <1>2, PTL DEF Spec, AnswerInv

----------------------------------------------------------------------------
(* What a request keeps of the rows *)

\* A visit is there for good and only moves on; a movement stays as it is.
RowsStay ==
  /\ \A v \in VisitKeys : Exists(v) => Exists(v)' /\ MovedOnFrom(visits[v], visits'[v])
  /\ \A k \in MovementKeys : ledger[k] # None => ledger'[k] = ledger[k]

LEMMA MovedOnSelf ==
  ASSUME NEW visit \in Visit
  PROVE  MovedOnFrom(visit, visit)
BY DEF MovedOnFrom, Visit

LEMMA MovedOnAgain ==
  ASSUME NEW row \in Visit, NEW between \in Visit, NEW visit \in Visit,
         MovedOnFrom(row, between), MovedOnFrom(between, visit)
  PROVE  MovedOnFrom(row, visit)
<1>1. visit.operator = row.operator /\ visit.version >= row.version
  BY DEF MovedOnFrom, Visit
<1>2. Closed(row) => visit.status = row.status
  BY DEF MovedOnFrom, Closed
<1>3. ASSUME NEW l \in LinesOf(row)
      PROVE  /\ l \in LinesOf(visit)
             /\ visit.lines[l].quantity = row.lines[l].quantity
             /\ Resolved(row.lines[l]) => visit.lines[l].product = row.lines[l].product
  BY DEF MovedOnFrom, Resolved
<1>. QED  BY <1>1, <1>2, <1>3 DEF MovedOnFrom

LEMMA UnchangedStays ==
  ASSUME StoreTypeOK, UNCHANGED <<visits, ledger>>
  PROVE  RowsStay
<1>1. \A v \in VisitKeys : Exists(v) => visits[v] \in Visit
  BY DEF StoreTypeOK, Exists
<1>. QED  BY <1>1, MovedOnSelf DEF RowsStay, Exists

LEMMA EmptyStoreType == EmptyStore => StoreTypeOK
BY ZeroStockType, ExpectedEmpty DEF EmptyStore, StoreTypeOK

LEMMA StartStays ==
  ASSUME StoreTypeOK, NEW v \in VisitKeys, NEW operator \in Replenishers, Start(v, operator)
  PROVE  StoreTypeOK' /\ RowsStay /\ Exists(v)'
<1>1. Started(operator) \in Visit /\ Started(operator) # None
  BY StartedType, NoneVisitAssumption
<1>2. /\ visits[v] = None /\ visits' = [visits EXCEPT ![v] = Started(operator)]
      /\ ledger' = ledger /\ stock' = stock
  BY DEF Start, Exists
<1> HIDE DEF Started
<1>3. visits'[v] # None /\ \A u \in VisitKeys : u # v => visits'[u] = visits[u]
  BY <1>1, <1>2 DEF StoreTypeOK
<1>4. \A u \in VisitKeys : Exists(u) => u # v /\ visits[u] \in Visit
  BY <1>2 DEF StoreTypeOK, Exists
<1>. QED  BY <1>1, <1>2, <1>3, <1>4, MovedOnSelf DEF StoreTypeOK, RowsStay, Exists

\* Saving a visit that has moved on, and storing no movement but new ones.
LEMMA SaveStays ==
  ASSUME StoreTypeOK, NEW v \in VisitKeys, Exists(v), NEW visit \in Visit, Save(v, visit),
         MovedOnFrom(visits[v], visit), ledger' \in Ledgers, stock' \in Stocks,
         \A k \in MovementKeys : ledger[k] # None => ledger'[k] = ledger[k]
  PROVE  StoreTypeOK' /\ RowsStay /\ Exists(v)' /\ visits'[v] = Saved(visit)
<1>1. /\ Saved(visit) \in Visit /\ Saved(visit).operator = visit.operator
      /\ Saved(visit).version = visit.version + 1
      /\ Saved(visit).status = visit.status /\ Saved(visit).lines = visit.lines
  BY DEF Saved, Visit
<1>2. Saved(visit) # None /\ visits[v] \in Visit
  BY <1>1, NoneVisitAssumption DEF StoreTypeOK, Exists
<1>3. /\ visits' = [visits EXCEPT ![v] = Saved(visit)]
      /\ visits'[v] = Saved(visit) /\ \A u \in VisitKeys : u # v => visits'[u] = visits[u]
  BY DEF Save, StoreTypeOK
<1> HIDE DEF Saved
<1>4. MovedOnFrom(visit, Saved(visit))
  BY <1>1 DEF MovedOnFrom, LinesOf, Visit
<1>5. MovedOnFrom(visits[v], visits'[v])
  BY <1>1, <1>2, <1>3, <1>4, MovedOnAgain
<1>6. \A u \in VisitKeys : Exists(u) => visits[u] \in Visit
  BY DEF StoreTypeOK, Exists
<1>7. StoreTypeOK'
  BY <1>1, <1>3 DEF StoreTypeOK
<1>. QED  BY <1>2, <1>3, <1>5, <1>6, <1>7, MovedOnSelf DEF RowsStay, Exists

LEMMA LoadedVisit ==
  ASSUME StoreTypeOK, NEW v \in VisitKeys, Loadable(v)
  PROVE  Exists(v) /\ visits[v] \in Visit
BY DEF StoreTypeOK, Loadable, Exists

LEMMA AddLineStays ==
  ASSUME StoreTypeOK, NEW v \in VisitKeys, NEW l \in LineIds, NEW line \in Line,
         AddLine(v, l, line)
  PROVE  StoreTypeOK' /\ RowsStay /\ Exists(v)'
<1> DEFINE added == WithLine(visits[v], l, line)
<1>1. Exists(v) /\ visits[v] \in Visit
  BY LoadedVisit DEF AddLine
<1>2. /\ l \notin LinesOf(visits[v]) /\ Save(v, added)
      /\ ledger' = ledger /\ stock' = stock
  BY DEF AddLine
<1>3. added \in Visit
  BY <1>1, WithTypes
<1>4. MovedOnFrom(visits[v], added)
  BY <1>1, <1>2 DEF MovedOnFrom, WithLine, Visit, LinesOf
<1> HIDE DEF added
<1>5. ledger' \in Ledgers /\ stock' \in Stocks
  BY <1>2 DEF StoreTypeOK
<1>. QED  BY <1>1, <1>2, <1>3, <1>4, <1>5, SaveStays

LEMMA StatusStays ==
  ASSUME StoreTypeOK, NEW v \in VisitKeys, NEW status \in Statuses,
         Exists(v), visits[v].status = "IN_PROGRESS",
         Save(v, WithStatus(visits[v], status)), ledger' \in Ledgers, stock' \in Stocks,
         \A k \in MovementKeys : ledger[k] # None => ledger'[k] = ledger[k]
  PROVE  StoreTypeOK' /\ RowsStay /\ Exists(v)' /\ visits'[v].status = status
<1> DEFINE ended == WithStatus(visits[v], status)
<1>1. visits[v] \in Visit
  BY DEF StoreTypeOK, Exists
<1>2. ended \in Visit /\ ended.status = status /\ Saved(ended).status = status
  BY <1>1 DEF WithStatus, Visit, Saved
<1>3. MovedOnFrom(visits[v], ended)
  BY <1>1 DEF MovedOnFrom, WithStatus, Visit, LinesOf, Closed
<1> HIDE DEF ended
<1>. QED  BY <1>2, <1>3, SaveStays DEF ended

LEMMA CompleteStays ==
  ASSUME StoreTypeOK, NEW v \in VisitKeys, Complete(v)
  PROVE  StoreTypeOK' /\ RowsStay /\ Exists(v)' /\ visits'[v].status = "COMPLETED"
<1>1. Exists(v) /\ visits[v] \in Visit /\ visits[v].status = "IN_PROGRESS"
  BY LoadedVisit DEF Complete, InProgress
<1>2. /\ Save(v, WithStatus(visits[v], "COMPLETED"))
      /\ Post(CompletionPostings(v, visits[v]))
  BY DEF Complete
<1>3. /\ ledger' \in Ledgers /\ stock' \in Stocks
      /\ \A k \in MovementKeys : ledger[k] # None => ledger'[k] = ledger[k]
  BY <1>1, <1>2, PostIs, CompletionPostingsType, CompletionKeys
<1>. QED  BY <1>1, <1>2, <1>3, StatusStays DEF Statuses

LEMMA CancelStays ==
  ASSUME StoreTypeOK, NEW v \in VisitKeys, Cancel(v)
  PROVE  StoreTypeOK' /\ RowsStay /\ Exists(v)' /\ visits'[v].status = "CANCELLED"
<1>1. Exists(v) /\ visits[v].status = "IN_PROGRESS"
  BY LoadedVisit DEF Cancel, InProgress
<1>2. /\ Save(v, WithStatus(visits[v], "CANCELLED"))
      /\ ledger' = ledger /\ stock' = stock
  BY DEF Cancel
<1>. QED  BY <1>1, <1>2, StatusStays DEF Statuses, StoreTypeOK

\* The product of line l of visit v is known.
Product(v, l) == l \in LinesOf(visits[v]) /\ Resolved(visits[v].lines[l])

LEMMA ResolveStays ==
  ASSUME StoreTypeOK, NEW v \in VisitKeys, NEW l \in LineIds, NEW p \in Products,
         ResolveLine(v, l, p)
  PROVE  /\ StoreTypeOK' /\ RowsStay
         /\ Exists(v) /\ ~Product(v, l) /\ Exists(v)' /\ Product(v, l)'
<1> DEFINE resolved == WithProduct(visits[v], l, p)
<1>1. Exists(v) /\ visits[v] \in Visit
  BY LoadedVisit DEF ResolveLine
<1>2. l \in PendingLines(visits[v]) /\ Save(v, resolved)
  BY DEF ResolveLine
<1>3. /\ visits[v].lines[l] \in Line /\ visits[v].lines[l] # None
      /\ ~Resolved(visits[v].lines[l]) /\ p # None
  BY <1>1, <1>2, NoneAssumption DEF PendingLines, ResolvedLines, LinesOf, Visit
<1>4. resolved \in Visit
  BY <1>1, <1>3, WithTypes
<1>5. /\ resolved.operator = visits[v].operator /\ resolved.version = visits[v].version
      /\ resolved.status = visits[v].status
      /\ resolved.lines[l] = [visits[v].lines[l] EXCEPT !.product = p]
      /\ \A r \in LineIds : r # l => resolved.lines[r] = visits[v].lines[r]
  BY <1>1 DEF WithProduct, Visit
<1>6. /\ [visits[v].lines[l] EXCEPT !.product = p] \in Line
      /\ [visits[v].lines[l] EXCEPT !.product = p].product = p
      /\ [visits[v].lines[l] EXCEPT !.product = p].quantity = visits[v].lines[l].quantity
  BY <1>3 DEF Line
<1>7. resolved.lines[l] # None /\ Resolved(resolved.lines[l])
  BY <1>3, <1>5, <1>6, NoneVisitAssumption DEF Resolved
<1>8. MovedOnFrom(visits[v], resolved)
  <2>1. ASSUME NEW r \in LinesOf(visits[v])
        PROVE  /\ r \in LinesOf(resolved)
               /\ resolved.lines[r].quantity = visits[v].lines[r].quantity
               /\ Resolved(visits[v].lines[r]) =>
                    resolved.lines[r].product = visits[v].lines[r].product
    <3>1. CASE r = l
      BY <1>3, <1>5, <1>6, <1>7, <2>1, <3>1 DEF LinesOf
    <3>2. CASE r # l
      BY <1>5, <2>1, <3>2 DEF LinesOf
    <3>. QED  BY <3>1, <3>2
  <2>. QED  BY <1>1, <1>5, <2>1 DEF MovedOnFrom, Visit
<1>9. /\ ledger' \in Ledgers /\ stock' \in Stocks
      /\ \A k \in MovementKeys : ledger[k] # None => ledger'[k] = ledger[k]
  <2>1. CASE visits[v].status = "COMPLETED"
    <3> DEFINE posting == ResolutionPosting(v, resolved, l)
    <3>1. posting \in Posting
      BY <1>1, <1>2, ResolutionPostingType
    <3>2. Post({posting})
      BY <2>1 DEF ResolveLine
    <3> HIDE DEF posting
    <3>. QED  BY <3>1, <3>2, PostIs DEF OneKeyEach
  <2>2. CASE visits[v].status # "COMPLETED"
    BY <2>2 DEF ResolveLine, StoreTypeOK
  <2>. QED  BY <2>1, <2>2
<1> HIDE DEF resolved
<1>10. StoreTypeOK' /\ RowsStay /\ Exists(v)' /\ visits'[v] = Saved(resolved)
  BY <1>1, <1>2, <1>4, <1>8, <1>9, SaveStays
<1>11. Saved(resolved).lines = resolved.lines
  BY <1>4 DEF Saved, Visit
<1>. QED  BY <1>1, <1>3, <1>7, <1>10, <1>11 DEF Product, LinesOf

LEMMA RegisterStays ==
  ASSUME StoreTypeOK, NEW k \in InventoryKeys, NEW movement \in Movement,
         RegisterMovement(k, movement)
  PROVE  StoreTypeOK' /\ RowsStay /\ ledger[k] = None /\ ledger'[k] = movement
<1> DEFINE posting == At(k, movement)
<1>1. /\ posting \in Posting /\ posting.key = k /\ posting.movement = movement
      /\ OneKeyEach({posting})
  BY DEF At, Posting, MovementKeys, OneKeyEach
<1>2. ledger[k] = None /\ visits' = visits /\ Post({posting})
  BY DEF RegisterMovement
<1> HIDE DEF posting
<1>3. /\ ledger' \in Ledgers /\ stock' \in Stocks /\ ledger'[k] = movement
      /\ \A key \in MovementKeys : ledger[key] # None => ledger'[key] = ledger[key]
  BY <1>1, <1>2, PostIs
<1>4. \A v \in VisitKeys : Exists(v) => visits[v] \in Visit
  BY DEF StoreTypeOK, Exists
<1>. QED  BY <1>2, <1>3, <1>4, MovedOnSelf DEF StoreTypeOK, RowsStay, Exists

----------------------------------------------------------------------------
(* One effect per request *)

\* The parts a command has.
LEMMA CommandParts ==
  ASSUME NEW c \in Commands
  PROVE  /\ c.operation = "create" => c.key \in VisitKeys \cup {None} /\ c.caller \in Replenishers
         /\ c.operation \in VisitOperations => c.body.visit \in VisitKeys
         /\ c.operation = "add_line" => c.body.line \in Line
         /\ c.operation = "resolve" => c.body.line \in LineIds /\ c.body.product \in Products
         /\ c.operation \in MovementOperations =>
              c.key \in InventoryKeys \cup {None} /\ c.body \in Movement
<1>1. c \in Command
  BY CommandsAssumption
<1>2. \A op \in MovementOperations : RequestedMovements[op] \subseteq Movement
  <2>1. AssignInventory \subseteq Movement /\ ReturnInventory \subseteq Movement
    BY DEF AssignInventory, ReturnInventory, InventoryMovement, Movement, MovementTypes, Locations
  <2>2. AdjustInventory \subseteq Movement /\ RecordLoss \subseteq Movement
    BY DEF AdjustInventory, RecordLoss, InventoryMovement, Movement, MovementTypes, Locations
  <2>. QED  BY <2>1, <2>2 DEF RequestedMovements, MovementOperations
<1>3. CASE c.operation \in MovementOperations
  <2>1. PICK op \in MovementOperations :
          c \in [operation : {op}, key : InventoryKeys \cup {None}, body : RequestedMovements[op]]
    BY <1>1, <1>3 DEF Command, MovementOperations
  <2>. QED  BY <1>2, <1>3, <2>1 DEF MovementOperations, VisitOperations
<1>4. CASE c.operation \notin MovementOperations
  BY <1>1, <1>4 DEF Command, MovementOperations, VisitOperations
<1>. QED  BY <1>3, <1>4

\* What an effect of a command leaves behind, by which a repetition is known.
Lasting(c) ==
  /\ c.operation = "create" => Exists(c.key)
  /\ c.operation = "add_line" => Recorded(c)
  /\ c.operation = "complete" =>
       Exists(c.body.visit) /\ visits[c.body.visit].status = "COMPLETED"
  /\ c.operation = "cancel" =>
       Exists(c.body.visit) /\ visits[c.body.visit].status = "CANCELLED"
  /\ c.operation = "resolve" => Exists(c.body.visit) /\ Product(c.body.visit, c.body.line)
  /\ c.operation \in MovementOperations => ledger[c.key] # None

EffectInv ==
  /\ StoreTypeOK
  /\ effects \in [Commands -> Nat]
  /\ \A c \in Commands : TakesEffectOnce(c) =>
       effects[c] <= 1 /\ (effects[c] > 0 => Lasting(c))

LEMMA LastingStays ==
  ASSUME StoreTypeOK, RowsStay, NEW c \in Commands, TakesEffectOnce(c), Lasting(c),
         c.operation = "add_line" => Recorded(c)'
  PROVE  Lasting(c)'
<1>1. c.operation = "create" \/ c.operation \in MovementOperations => Keyed(c)
  BY DEF TakesEffectOnce, MovementOperations
<1>2. c.operation \in MovementOperations => ledger'[c.key] # None
  BY <1>1, CommandParts DEF Keyed, MovementKeys, Lasting, RowsStay
<1>3. c.operation = "create" => Exists(c.key)'
  BY <1>1, CommandParts DEF Keyed, Lasting, RowsStay
<1> DEFINE v == c.body.visit
<1>4. c.operation \in {"complete", "cancel", "resolve"} =>
        /\ Exists(v) /\ Exists(v)' /\ MovedOnFrom(visits[v], visits'[v])
  BY CommandParts DEF VisitOperations, Lasting, RowsStay
<1>5. c.operation \in {"complete", "cancel"} => visits'[v].status = visits[v].status
  BY <1>4 DEF Lasting, MovedOnFrom, Closed
<1>6. c.operation = "resolve" => Product(v, c.body.line)'
  BY <1>4 DEF Lasting, MovedOnFrom, Product, Resolved, LinesOf
<1>. QED
  BY <1>2, <1>3, <1>4, <1>5, <1>6 DEF Lasting

\* A command that has an effect finds no trace of one before and leaves one.
NewEffect(c) ==
  /\ effects' = [effects EXCEPT ![c] = @ + 1]
  /\ TakesEffectOnce(c) => ~Lasting(c) /\ Lasting(c)'

\* What an answer says is so: the movement is in the ledger, the visit has only
\* moved on.
Holds(operation, a) ==
  IF operation \in MovementOperations
  THEN a \in MovementAnswer /\ ledger[a.id] = a.row
  ELSE a \in VisitAnswer /\ Exists(a.id) /\ MovedOnFrom(a.row, visits[a.id])

Effect(c) ==
  /\ StoreTypeOK' /\ RowsStay
  /\ effects' = effects \/ NewEffect(c)
  /\ ReplayStored(c) \/ \E a : Answered(c, a) /\ Holds(c.operation, a)'

\* What is stored now is so.
LEMMA VisitAnswered ==
  ASSUME StoreTypeOK', NEW c \in Commands, c.operation \notin MovementOperations,
         NEW v \in VisitKeys, Exists(v)', Answered(c, StoredVisit(v)')
  PROVE  \E a : Answered(c, a) /\ Holds(c.operation, a)'
<1>1. PICK a : a = StoredVisit(v)'
  OBVIOUS
<1>2. visits'[v] \in Visit /\ MovedOnFrom(visits'[v], visits'[v])
  BY MovedOnSelf DEF StoreTypeOK, Exists
<1>3. a.id = v /\ a.row = visits'[v] /\ a \in VisitAnswer
  BY <1>1, <1>2 DEF StoredVisit, VisitAnswer
<1>4. Holds(c.operation, a)'
  BY <1>2, <1>3 DEF Holds
<1>. QED  BY <1>1, <1>4

LEMMA MovementAnswered ==
  ASSUME StoreTypeOK', NEW c \in Commands, c.operation \in MovementOperations,
         NEW k \in InventoryKeys, ledger'[k] # None, Answered(c, StoredMovement(k)')
  PROVE  \E a : Answered(c, a) /\ Holds(c.operation, a)'
<1>1. PICK a : a = StoredMovement(k)'
  OBVIOUS
<1>2. ledger'[k] \in Movement
  BY DEF StoreTypeOK, Ledgers, MovementKeys
<1>3. a.id = k /\ a.row = ledger'[k] /\ a \in MovementAnswer
  BY <1>1, <1>2 DEF StoredMovement, MovementAnswer
<1>4. Holds(c.operation, a)'
  BY <1>3 DEF Holds
<1>. QED  BY <1>1, <1>4

\* A command that finds its work done changes no row.
LEMMA FoundStays ==
  ASSUME StoreTypeOK, UNCHANGED <<visits, ledger, stock>>
  PROVE  StoreTypeOK' /\ RowsStay
BY UnchangedStays DEF StoreTypeOK

LEMMA FoundVisit ==
  ASSUME StoreTypeOK, NEW c \in Commands, c.operation \notin MovementOperations,
         NEW v \in VisitKeys, Exists(v), Found(c, StoredVisit(v))
  PROVE  Effect(c)
<1>1. /\ UNCHANGED <<visits, ledger, stock, effects>>
      /\ Answered(c, StoredVisit(v)')
  BY DEF Found, StoredVisit
<1>2. StoreTypeOK' /\ RowsStay /\ Exists(v)'
  BY <1>1, FoundStays DEF Exists
<1>. QED  BY <1>1, <1>2, VisitAnswered DEF Effect

LEMMA CreateEffect ==
  ASSUME StoreTypeOK, NEW c \in Commands, CreateReplenishment(c)
  PROVE  Effect(c)
<1>1. /\ c.operation = "create" /\ c.caller \in Replenishers
      /\ c.operation \notin MovementOperations
  BY CommandParts DEF CreateReplenishment, Handles, MovementOperations
<1>2. PICK v \in RowKeys(c, VisitKeys) :
        \/ Exists(v) /\ Keyed(c) /\ Found(c, StoredVisit(v))
        \/ Start(v, c.caller) /\ Did(c, StoredVisit(v)')
  BY DEF CreateReplenishment
<1>3. v \in VisitKeys /\ (Keyed(c) => v = c.key)
  BY <1>1, CommandParts DEF RowKeys, Keyed
<1>4. CASE Start(v, c.caller) /\ Did(c, StoredVisit(v)')
  <2>1. StoreTypeOK' /\ RowsStay /\ ~Exists(v) /\ Exists(v)'
    BY <1>1, <1>3, <1>4, StartStays DEF Start
  <2>2. TakesEffectOnce(c) => v = c.key
    BY <1>1, <1>3 DEF TakesEffectOnce
  <2>3. effects' = [effects EXCEPT ![c] = @ + 1] /\ Answered(c, StoredVisit(v)')
    BY <1>4 DEF Did
  <2>4. NewEffect(c)
    BY <1>1, <2>1, <2>2, <2>3 DEF NewEffect, Lasting
  <2>. QED  BY <1>1, <1>3, <2>1, <2>3, <2>4, VisitAnswered DEF Effect
<1>. QED  BY <1>1, <1>2, <1>3, <1>4, FoundVisit

LEMMA AddLineEffect ==
  ASSUME StoreTypeOK, NEW c \in Commands, AddReplenishmentLine(c)
  PROVE  Effect(c)
<1>1. /\ c.operation = "add_line" /\ c.operation \notin MovementOperations
      /\ ~Recorded(c)
  BY DEF AddReplenishmentLine, Handles, MovementOperations
<1>2. c.body.visit \in VisitKeys /\ c.body.line \in Line
  BY <1>1, CommandParts DEF VisitOperations
<1>3. StoreTypeOK' /\ RowsStay /\ Exists(c.body.visit)'
  BY <1>2, AddLineStays DEF AddReplenishmentLine
<1>4. /\ effects' = [effects EXCEPT ![c] = @ + 1]
      /\ Answered(c, StoredVisit(c.body.visit)')
  BY DEF AddReplenishmentLine, Did
<1>5. Keyed(c) => Recorded(c)'
  BY <1>4 DEF Answered, Remember, StoredAt, Recorded, Keyed, Slot
<1>6. NewEffect(c)
  BY <1>1, <1>4, <1>5 DEF NewEffect, Lasting, TakesEffectOnce
<1>. QED  BY <1>1, <1>2, <1>3, <1>4, <1>6, VisitAnswered DEF Effect

LEMMA CompleteEffect ==
  ASSUME StoreTypeOK, NEW c \in Commands, CompleteReplenishment(c)
  PROVE  Effect(c)
<1> DEFINE v == c.body.visit
<1>1. /\ c.operation = "complete" /\ c.operation \notin MovementOperations
      /\ v \in VisitKeys
  BY CommandParts DEF CompleteReplenishment, Handles, VisitOperations, MovementOperations
<1>2. CASE Complete(v) /\ Did(c, StoredVisit(v)')
  <2>1. StoreTypeOK' /\ RowsStay /\ Exists(v)' /\ visits'[v].status = "COMPLETED"
    BY <1>1, <1>2, CompleteStays
  <2>2. visits[v].status # "COMPLETED"
    BY <1>2 DEF Complete, InProgress
  <2>3. effects' = [effects EXCEPT ![c] = @ + 1] /\ Answered(c, StoredVisit(v)')
    BY <1>2 DEF Did
  <2>4. NewEffect(c)
    BY <1>1, <2>1, <2>2, <2>3 DEF NewEffect, Lasting
  <2>. QED  BY <1>1, <2>1, <2>3, <2>4, VisitAnswered DEF Effect
<1>. QED  BY <1>1, <1>2, FoundVisit DEF CompleteReplenishment

LEMMA CancelEffect ==
  ASSUME StoreTypeOK, NEW c \in Commands, CancelReplenishment(c)
  PROVE  Effect(c)
<1> DEFINE v == c.body.visit
<1>1. /\ c.operation = "cancel" /\ c.operation \notin MovementOperations
      /\ v \in VisitKeys
  BY CommandParts DEF CancelReplenishment, Handles, VisitOperations, MovementOperations
<1>2. /\ Cancel(v) /\ effects' = [effects EXCEPT ![c] = @ + 1]
      /\ Answered(c, StoredVisit(v)')
  BY DEF CancelReplenishment, Did
<1>3. StoreTypeOK' /\ RowsStay /\ Exists(v)' /\ visits'[v].status = "CANCELLED"
  BY <1>1, <1>2, CancelStays
<1>4. visits[v].status # "CANCELLED"
  BY <1>2 DEF Cancel, InProgress
<1>5. NewEffect(c)
  BY <1>1, <1>2, <1>3, <1>4 DEF NewEffect, Lasting
<1>. QED  BY <1>1, <1>2, <1>3, <1>5, VisitAnswered DEF Effect

LEMMA ResolveEffect ==
  ASSUME StoreTypeOK, NEW c \in Commands, ResolveReplenishmentLineProduct(c)
  PROVE  Effect(c)
<1> DEFINE v == c.body.visit
           l == c.body.line
<1>1. /\ c.operation = "resolve" /\ c.operation \notin MovementOperations
      /\ v \in VisitKeys /\ l \in LineIds /\ c.body.product \in Products
  BY CommandParts DEF ResolveReplenishmentLineProduct, Handles, VisitOperations,
                      MovementOperations
<1>2. CASE ResolveLine(v, l, c.body.product) /\ Did(c, StoredVisit(v)')
  <2>1. StoreTypeOK' /\ RowsStay /\ ~Product(v, l) /\ Exists(v)' /\ Product(v, l)'
    BY <1>1, <1>2, ResolveStays
  <2>2. effects' = [effects EXCEPT ![c] = @ + 1] /\ Answered(c, StoredVisit(v)')
    BY <1>2 DEF Did
  <2>3. NewEffect(c)
    BY <1>1, <2>1, <2>2 DEF NewEffect, Lasting
  <2>. QED  BY <1>1, <2>1, <2>2, <2>3, VisitAnswered DEF Effect
<1>. QED  BY <1>1, <1>2, FoundVisit DEF ResolveReplenishmentLineProduct

LEMMA RegisterEffect ==
  ASSUME StoreTypeOK, NEW c \in Commands, RegisterInventoryMovement(c)
  PROVE  Effect(c)
<1>1. c.operation \in MovementOperations
  BY DEF RegisterInventoryMovement
<1>2. PICK k \in RowKeys(c, InventoryKeys) :
        \/ ledger[k] # None /\ Keyed(c) /\ Found(c, StoredMovement(k))
        \/ RegisterMovement(k, c.body) /\ Did(c, StoredMovement(k)')
  BY DEF RegisterInventoryMovement
<1>3. k \in InventoryKeys /\ c.body \in Movement /\ (Keyed(c) => k = c.key)
  BY <1>1, CommandParts DEF RowKeys, Keyed
<1>4. CASE ledger[k] # None /\ Found(c, StoredMovement(k))
  <2>1. /\ UNCHANGED <<visits, ledger, stock, effects>>
        /\ Answered(c, StoredMovement(k)')
    BY <1>4 DEF Found, StoredMovement
  <2>2. StoreTypeOK' /\ RowsStay
    BY <2>1, FoundStays
  <2>. QED  BY <1>1, <1>3, <1>4, <2>1, <2>2, MovementAnswered DEF Effect
<1>5. CASE RegisterMovement(k, c.body) /\ Did(c, StoredMovement(k)')
  <2>1. StoreTypeOK' /\ RowsStay /\ ledger[k] = None /\ ledger'[k] # None
    BY <1>3, <1>5, RegisterStays, NoneMovementAssumption
  <2>2. TakesEffectOnce(c) => k = c.key
    BY <1>1, <1>3 DEF TakesEffectOnce, MovementOperations
  <2>3. effects' = [effects EXCEPT ![c] = @ + 1] /\ Answered(c, StoredMovement(k)')
    BY <1>5 DEF Did
  <2>4. NewEffect(c)
    BY <1>1, <2>1, <2>2, <2>3 DEF NewEffect, Lasting, MovementOperations
  <2>. QED  BY <1>1, <1>3, <2>1, <2>3, <2>4, MovementAnswered DEF Effect
<1>. QED  BY <1>2, <1>4, <1>5

LEMMA ReceiveEffect ==
  ASSUME StoreTypeOK, NEW c \in Commands, Receive(c)
  PROVE  Effect(c)
<1>1. CASE ReplayStored(c)
  <2>1. StoreTypeOK' /\ RowsStay /\ effects' = effects
    BY <1>1, FoundStays DEF ReplayStored
  <2>. QED  BY <1>1, <2>1 DEF Effect
<1>. QED
  BY <1>1, CreateEffect, AddLineEffect, CompleteEffect, CancelEffect, ResolveEffect,
     RegisterEffect DEF Receive

\* Receiving a request leaves every record as it is, or adds one.
LEMMA RecordsStay ==
  ASSUME NEW c \in Commands, Receive(c)
  PROVE  /\ forgotten' = forgotten
         /\ \A d \in Commands : Recorded(d) => Recorded(d)'
<1>1. CASE Replayed(c)
  BY <1>1 DEF Replayed, Recorded
<1>2. CASE Handled(c)
  <2>1. PICK answer : Answered(c, answer)
    BY <1>2 DEF Handled
  <2>. QED  BY <2>1 DEF Answered, Remember, StoredAt, Recorded, Keyed, Slot
<1>. QED  BY <1>1, <1>2, Receiving

LEMMA EffectInvariance == Spec => []EffectInv
<1>1. Init => EffectInv
  BY EmptyStoreType DEF Init, EffectInv
<1>2. EffectInv /\ [Next]_vars => EffectInv'
  <2> SUFFICES ASSUME EffectInv, [Next]_vars PROVE EffectInv'  OBVIOUS
  <2>1. ASSUME NEW c \in Commands, Receive(c) PROVE EffectInv'
    <3>1. Effect(c) /\ forgotten' = forgotten
      BY <2>1, ReceiveEffect, RecordsStay DEF EffectInv
    <3>2. effects' \in [Commands -> Nat]
      BY <3>1 DEF EffectInv, Effect, NewEffect
    <3>3. ASSUME NEW d \in Commands, TakesEffectOnce(d)
          PROVE  effects'[d] <= 1 /\ (effects'[d] > 0 => Lasting(d)')
      <4>1. CASE effects'[d] = effects[d]
        <5>1. effects[d] > 0 => Lasting(d)'
          <6> SUFFICES ASSUME effects[d] > 0 PROVE Lasting(d)'  OBVIOUS
          <6>1. Lasting(d)
            BY <3>3 DEF EffectInv
          <6>2. d.operation = "add_line" => Recorded(d)'
            BY <2>1, <6>1, RecordsStay DEF Lasting
          <6>. QED  BY <3>1, <3>3, <6>1, <6>2, LastingStays DEF Effect, EffectInv
        <5>. QED  BY <3>3, <4>1, <5>1 DEF EffectInv
      <4>2. CASE effects'[d] # effects[d]
        <5>1. d = c /\ NewEffect(c) /\ effects'[c] = effects[c] + 1
          BY <3>1, <4>2 DEF Effect, NewEffect, EffectInv
        <5>. QED  BY <3>3, <5>1 DEF EffectInv, NewEffect
      <4>. QED  BY <4>1, <4>2
    <3>4. \A d \in Commands : TakesEffectOnce(d)' => TakesEffectOnce(d)
      BY <3>1 DEF TakesEffectOnce, Keyed, Slot
    <3>. QED  BY <3>1, <3>2, <3>3, <3>4 DEF EffectInv, Effect
  <2>2. ASSUME NEW c \in Commands, Expire(c) PROVE EffectInv'
    <3>1. /\ UNCHANGED <<visits, ledger, effects>>
          /\ forgotten' = forgotten \cup {Slot(c)}
          /\ records' = [slot \in DOMAIN records \ {Slot(c)} |-> records[slot]]
      BY <2>2 DEF Expire
    <3>2. ASSUME NEW d \in Commands, TakesEffectOnce(d)'
          PROVE  TakesEffectOnce(d) /\ (Lasting(d) => Lasting(d)')
      <4>1. TakesEffectOnce(d) /\ (d.operation = "add_line" => Keyed(d) /\ Slot(d) # Slot(c))
        BY <3>1, <3>2 DEF TakesEffectOnce, Keyed, Slot
      <4>. QED  BY <3>1, <4>1 DEF Lasting, Recorded, Keyed, Slot, Exists, Product
    <3>3. StoreTypeOK'
      BY <2>2 DEF Expire, EffectInv, StoreTypeOK
    <3>. QED  BY <3>1, <3>2, <3>3 DEF EffectInv
  <2>3. CASE UNCHANGED <<visits, ledger, stock, records, forgotten, effects>>
    BY <2>3 DEF EffectInv, StoreTypeOK, TakesEffectOnce, Lasting, Recorded, Exists, Product
  <2>. QED  BY <2>1, <2>2, <2>3 DEF Next, ChangeAccess, vars
<1>. QED  BY <1>1, <1>2, PTL DEF Spec

\* No command changes the rows twice, for any commands that share keys, visits
\* and lines, and though any of the records expire.
THEOREM EffectsHappenOnce == Spec => []AtMostOneEffect
<1>1. EffectInv => AtMostOneEffect
  BY DEF EffectInv, AtMostOneEffect
<1>. QED  BY <1>1, EffectInvariance, PTL

----------------------------------------------------------------------------
(* What clients have been told stays so *)

\* Every answer, given or stored, is of the kind of its operation and holds.
TruthInv ==
  /\ RequestsTypeOK
  /\ \A c \in Commands : \A a \in replies[c] : Holds(c.operation, a)
  /\ \A slot \in DOMAIN records : Holds(slot[1], records[slot].answer)

LEMMA HoldsStays ==
  ASSUME StoreTypeOK, StoreTypeOK', RowsStay, NEW operation, NEW a, Holds(operation, a)
  PROVE  Holds(operation, a)'
<1>1. CASE operation \in MovementOperations
  <2>1. a \in MovementAnswer /\ ledger[a.id] = a.row
    BY <1>1 DEF Holds
  <2>2. a.id \in MovementKeys /\ ledger[a.id] # None
    BY <2>1, NoneMovementAssumption DEF MovementAnswer, MovementKeys
  <2>. QED  BY <1>1, <2>1, <2>2 DEF RowsStay, Holds
<1>2. CASE operation \notin MovementOperations
  <2>1. a \in VisitAnswer /\ Exists(a.id) /\ MovedOnFrom(a.row, visits[a.id])
    BY <1>2 DEF Holds
  <2>2. a.id \in VisitKeys /\ a.row \in Visit
    BY <2>1 DEF VisitAnswer
  <2>3. Exists(a.id)' /\ MovedOnFrom(visits[a.id], visits'[a.id])
    BY <2>1, <2>2 DEF RowsStay
  <2>4. visits[a.id] \in Visit /\ visits'[a.id] \in Visit
    BY <2>1, <2>2, <2>3 DEF StoreTypeOK, Exists
  <2>5. MovedOnFrom(a.row, visits'[a.id])
    BY <2>1, <2>2, <2>3, <2>4, MovedOnAgain
  <2>. QED  BY <1>2, <2>1, <2>3, <2>5 DEF Holds
<1>. QED  BY <1>1, <1>2

\* The slot of a command.
LEMMA SlotType ==
  ASSUME NEW c \in Commands, Keyed(c)
  PROVE  Slot(c) \in Operations \X Keys /\ Slot(c)[1] = c.operation
<1>1. c \in Command /\ c.operation \in Operations
  <2>1. c \in Command
    BY CommandsAssumption
  <2>. QED  BY <2>1 DEF Command, Operations, VisitOperations
<1>2. c.key \in Keys
  <2>1. CASE c.operation \in MovementOperations
    BY <2>1, CommandParts DEF Keyed, Keys
  <2>2. CASE c.operation \notin MovementOperations
    BY <1>1, <2>2 DEF Command, Keyed, Keys, OptionalKeys
  <2>. QED  BY <2>1, <2>2
<1>. QED  BY <1>1, <1>2 DEF Slot

LEMMA AnsweredTruth ==
  ASSUME TruthInv, StoreTypeOK', RowsStay, effects' \in [Commands -> Nat],
         NEW c \in Commands, NEW a, Answered(c, a), Holds(c.operation, a)'
  PROVE  TruthInv'
<1>1. /\ replies' = [replies EXCEPT ![c] = @ \cup {a}]
      /\ records' = IF Keyed(c) THEN StoredAt({Slot(c)}, c, a) ELSE records
      /\ forgotten' = forgotten /\ admitted' = admitted
  BY DEF Answered, Tell, Remember
<1>2. StoreTypeOK
  BY DEF TruthInv, RequestsTypeOK
<1>3. a \in Answer
  BY DEF Holds, Answer
<1>4. ASSUME NEW slot \in DOMAIN records'
      PROVE  /\ slot \in Operations \X Keys /\ records'[slot] \in Record
             /\ \/ slot \in DOMAIN records /\ records'[slot] = records[slot]
                \/ slot[1] = c.operation /\ records'[slot].answer = a
  <2>1. CASE Keyed(c) /\ slot = Slot(c)
    <3>1. records'[slot] = [body |-> c.body, answer |-> a]
      BY <1>1, <2>1 DEF StoredAt
    <3>. QED  BY <1>3, <2>1, <3>1, SlotType DEF Record
  <2>2. CASE ~(Keyed(c) /\ slot = Slot(c))
    <3>1. slot \in DOMAIN records /\ records'[slot] = records[slot]
      BY <1>1, <1>4, <2>2 DEF StoredAt
    <3>. QED  BY <3>1 DEF TruthInv, RequestsTypeOK
  <2>. QED  BY <2>1, <2>2
<1>5. records' \in [DOMAIN records' -> Record]
  <2>1. records' = [slot \in DOMAIN records' |-> records'[slot]]
    BY <1>1 DEF StoredAt, TruthInv, RequestsTypeOK
  <2>. QED  BY <1>4, <2>1
<1>6. RequestsTypeOK'
  BY <1>1, <1>3, <1>4, <1>5 DEF TruthInv, RequestsTypeOK
<1>7. ASSUME NEW d \in Commands, NEW b \in replies'[d]
      PROVE  Holds(d.operation, b)'
  <2>1. CASE b \in replies[d]
    BY <1>2, <2>1, HoldsStays DEF TruthInv
  <2>2. CASE b \notin replies[d]
    BY <1>1, <1>7, <2>2 DEF TruthInv, RequestsTypeOK
  <2>. QED  BY <2>1, <2>2
<1>8. ASSUME NEW slot \in DOMAIN records'
      PROVE  Holds(slot[1], records[slot].answer)'
  <2>1. PICK b : b = records'[slot].answer
    OBVIOUS
  <2>2. Holds(slot[1], b)'
    <3>1. CASE slot \in DOMAIN records /\ records'[slot] = records[slot]
      BY <1>2, <2>1, <3>1, HoldsStays DEF TruthInv
    <3>2. CASE slot[1] = c.operation /\ records'[slot].answer = a
      BY <2>1, <3>2
    <3>. QED  BY <1>4, <3>1, <3>2
  <2>. QED  BY <2>1, <2>2 DEF Holds
<1>. QED  BY <1>6, <1>7, <1>8 DEF TruthInv

LEMMA ReplayTruth ==
  ASSUME TruthInv, NEW c \in Commands, ReplayStored(c)
  PROVE  TruthInv'
<1> DEFINE a == records[Slot(c)].answer
<1>1. /\ replies' = [replies EXCEPT ![c] = @ \cup {a}]
      /\ Slot(c) \in DOMAIN records /\ Keyed(c)
      /\ UNCHANGED <<visits, ledger, stock, records, forgotten, admitted, effects>>
  BY DEF ReplayStored, Tell, SameRequest, Recorded
<1>2. Holds(c.operation, a) /\ a \in Answer
  BY <1>1, SlotType DEF TruthInv, RequestsTypeOK, Record
<1> HIDE DEF a
<1>3. RequestsTypeOK'
  BY <1>1, <1>2 DEF TruthInv, RequestsTypeOK, StoreTypeOK
<1>4. \A operation, b : Holds(operation, b)' <=> Holds(operation, b)
  BY <1>1 DEF Holds, Exists
<1>5. \A d \in Commands : \A b \in replies'[d] : Holds(d.operation, b)
  BY <1>1, <1>2 DEF TruthInv, RequestsTypeOK
<1>6. \A slot \in DOMAIN records : Holds(slot[1], records[slot].answer)
  BY DEF TruthInv
<1>. QED  BY <1>1, <1>3, <1>4, <1>5, <1>6 DEF TruthInv

LEMMA OtherTruth ==
  ASSUME TruthInv,
         \/ \E c \in Commands : Expire(c)
         \/ \E operator \in Replenishers : ChangeAccess(operator)
         \/ UNCHANGED vars
  PROVE  TruthInv'
<1>1. /\ UNCHANGED <<visits, ledger, stock, replies, effects>>
      /\ DOMAIN records' \subseteq DOMAIN records
      /\ \A slot \in DOMAIN records' : records'[slot] = records[slot]
      /\ records' = [slot \in DOMAIN records' |-> records'[slot]]
  BY DEF Expire, ChangeAccess, vars, TruthInv, RequestsTypeOK
<1>2. forgotten' \subseteq Operations \X Keys /\ admitted' \subseteq Replenishers
  <2>1. CASE \E c \in Commands : Expire(c)
    BY <2>1, SlotType DEF Expire, Recorded, TruthInv, RequestsTypeOK
  <2>2. CASE \E operator \in Replenishers : ChangeAccess(operator)
    BY <2>2 DEF ChangeAccess, TruthInv, RequestsTypeOK
  <2>. QED  BY <2>1, <2>2 DEF vars, TruthInv, RequestsTypeOK
<1>3. RequestsTypeOK'
  BY <1>1, <1>2 DEF TruthInv, RequestsTypeOK, StoreTypeOK
<1>4. \A operation, b : Holds(operation, b)' <=> Holds(operation, b)
  BY <1>1 DEF Holds, Exists
<1>5. \A d \in Commands : \A b \in replies'[d] : Holds(d.operation, b)
  BY <1>1 DEF TruthInv
<1>6. \A slot \in DOMAIN records' : Holds(slot[1], records'[slot].answer)
  BY <1>1 DEF TruthInv
<1>. QED  BY <1>3, <1>4, <1>5, <1>6 DEF TruthInv

LEMMA TruthInvariance == Spec => []TruthInv
<1>1. Init => TruthInv
  BY EmptyStoreType DEF Init, TruthInv, RequestsTypeOK
<1>2. TruthInv /\ [Next]_vars => TruthInv'
  <2> SUFFICES ASSUME TruthInv, [Next]_vars PROVE TruthInv'  OBVIOUS
  <2>1. ASSUME NEW c \in Commands, Receive(c) PROVE TruthInv'
    <3>1. Effect(c)
      BY <2>1, ReceiveEffect DEF TruthInv, RequestsTypeOK
    <3>2. effects' \in [Commands -> Nat]
      BY <3>1 DEF Effect, NewEffect, TruthInv, RequestsTypeOK
    <3>. QED  BY <3>1, <3>2, ReplayTruth, AnsweredTruth DEF Effect
  <2>. QED  BY <2>1, OtherTruth DEF Next
<1>. QED  BY <1>1, <1>2, PTL DEF Spec

\* Rows, records and answers are well formed, whatever arrives and in whatever
\* order.
THEOREM RequestsWellTyped == Spec => []RequestsTypeOK
BY TruthInvariance, PTL DEF TruthInv

\* Whatever a client has ever been told is so from then on: the movement is in
\* the ledger, the visit is there and has only moved on since, also when the
\* answer is given again from a record.
THEOREM AnswersStayTrue == Spec => []AnswersHold
<1>1. TruthInv => AnswersHold
  BY DEF TruthInv, AnswersHold, Holds
<1>. QED  BY <1>1, TruthInvariance, PTL

----------------------------------------------------------------------------
(* The promise: RequestOutcomes *)

LEMMA SendersFinite ==
  ASSUME NEW r
  PROVE  IsFiniteSet(Senders(r)) /\ Senders(r) \subseteq Commands
BY CommandsAssumption, FS_Subset DEF Senders

LEMMA InAllIsTotal ==
  ASSUME NEW count, NEW S
  PROVE  InAll(count, S) = Total(count, S)
BY DEF InAll, Total

LEMMA EffectsAre ==
  ASSUME NEW r \in Requests
  PROVE  EffectsOfRequests[r] = Total(effects, Senders(r))
BY InAllIsTotal DEF EffectsOfRequests

LEMMA InitPromise == Init => Promise!Init
<1> SUFFICES ASSUME Init PROVE Promise!Init
  OBVIOUS
<1>1. Outcome = [r \in Requests |-> None]
  BY DEF Init, Outcome
<1>2. ASSUME NEW r \in Requests PROVE EffectsOfRequests[r] = 0
  <2>1. \A c \in Senders(r) : effects[c] = 0
    BY SendersFinite DEF Init
  <2>2. Total(effects, Senders(r)) = Total(effects, {})
    BY <2>1, SendersFinite, TotalZeros
  <2>. QED  BY <2>2, EffectsAre, TotalEmpty
<1>3. EffectsOfRequests = [r \in Requests |-> 0]
  BY <1>2 DEF EffectsOfRequests
<1>. QED  BY <1>1, <1>3 DEF Promise!Init

\* The effect of a command is one of the request it is of, if it is of one.
LEMMA EffectCounted ==
  ASSUME effects \in [Commands -> Nat], NEW c \in Commands, NEW n \in {0, 1},
         effects' = [effects EXCEPT ![c] = @ + n], NEW r \in Requests
  PROVE  EffectsOfRequests'[r] =
           IF Keyed(c) /\ r = Request(c) THEN EffectsOfRequests[r] + n ELSE EffectsOfRequests[r]
<1> DEFINE S == Senders(r)
<1>1. IsFiniteSet(S) /\ S \subseteq Commands
  BY SendersFinite
<1>2. /\ EffectsOfRequests[r] = Total(effects, S)
      /\ EffectsOfRequests'[r] = Total(effects', S)
  <2>1. EffectsOfRequests'[r] = Total(effects', S)
    BY InAllIsTotal DEF EffectsOfRequests
  <2>. QED  BY <2>1, EffectsAre
<1>3. c \in S <=> Keyed(c) /\ r = Request(c)
  BY DEF Senders
<1> HIDE DEF S
<1>4. CASE c \in S
  <2> DEFINE rest == S \ {c}
  <2>1. IsFiniteSet(rest) /\ \A d \in rest : effects'[d] = effects[d]
    BY <1>1, FS_Subset
  <2>2. \A d \in S : effects[d] \in Int /\ effects'[d] \in Int
    BY <1>1
  <2>3. /\ Total(effects, S) = effects[c] + Total(effects, rest)
        /\ Total(effects', S) = effects'[c] + Total(effects', rest)
    BY <1>1, <1>4, <2>2, TotalOff
  <2>4. Total(effects', rest) = Total(effects, rest) /\ Total(effects, rest) \in Int
    <3> HIDE DEF rest
    <3>1. \A d \in rest : effects[d] \in Int
      BY <2>2 DEF rest
    <3>. QED  BY <2>1, <3>1, TotalSame, TotalType
  <2>5. effects'[c] = effects[c] + n /\ effects[c] \in Int
    OBVIOUS
  <2> HIDE DEF rest
  <2>. QED  BY <1>2, <1>3, <1>4, <2>3, <2>4, <2>5
<1>5. CASE c \notin S
  <2>1. \A d \in S : effects'[d] = effects[d]
    BY <1>1, <1>5
  <2>2. Total(effects', S) = Total(effects, S)
    BY <1>1, <2>1, TotalSame
  <2>. QED  BY <1>2, <1>3, <1>5, <2>2
<1>. QED  BY <1>4, <1>5

\* A request that is handled is decided, with its effect or without.
LEMMA HandledPromise ==
  ASSUME TruthInv, NEW c \in Commands, ~Recorded(c), NEW a \in Answer, Answered(c, a),
         NEW n \in {0, 1}, effects' = [effects EXCEPT ![c] = @ + n]
  PROVE  Promise!Next \/ UNCHANGED <<Outcome, EffectsOfRequests>>
<1>1. effects \in [Commands -> Nat]
  BY DEF TruthInv, RequestsTypeOK
<1>2. records' = IF Keyed(c) THEN StoredAt({Slot(c)}, c, a) ELSE records
  BY DEF Answered, Remember
<1>3. CASE ~Keyed(c)
  <2>1. Outcome' = Outcome
    BY <1>2, <1>3 DEF Outcome
  <2>2. \A r \in Requests : EffectsOfRequests'[r] = EffectsOfRequests[r]
    BY <1>1, <1>3, EffectCounted
  <2>3. EffectsOfRequests' = EffectsOfRequests
    BY <2>2 DEF EffectsOfRequests
  <2>. QED  BY <2>1, <2>3
<1>4. CASE Keyed(c)
  <2> DEFINE r == Request(c)
  <2>1. r \in Requests /\ r.slot = Slot(c) /\ r.body = c.body
    BY <1>4 DEF Request, Requests
  <2>2. Slot(c) \notin DOMAIN records
    BY <1>4 DEF Recorded
  <2>3. /\ DOMAIN records' = DOMAIN records \cup {Slot(c)}
        /\ records'[Slot(c)] = [body |-> c.body, answer |-> a]
        /\ \A slot \in DOMAIN records : records'[slot] = records[slot]
    BY <1>2, <1>4, <2>2 DEF StoredAt
  <2>4. Outcome[r] = None /\ Outcome'[r] = a
    BY <2>1, <2>2, <2>3 DEF Outcome
  <2>5. ASSUME NEW q \in Requests, q # r
        PROVE  Outcome'[q] = Outcome[q]
    <3>1. q.slot = Slot(c) => q.body # c.body
      BY <2>5 DEF Requests, Request
    <3>. QED  BY <2>2, <2>3, <3>1 DEF Outcome
  <2>6. Outcome' = [Outcome EXCEPT ![r] = Outcome'[r]]
    <3> HIDE DEF r
    <3>1. DOMAIN Outcome = Requests /\ Outcome' = [q \in Requests |-> Outcome'[q]]
      BY DEF Outcome
    <3>2. Outcome = [q \in Requests |-> Outcome[q]]
      BY DEF Outcome
    <3>. QED  BY <2>1, <2>5, <3>1, <3>2
  <2>7. EffectsOfRequests' = [EffectsOfRequests EXCEPT ![r] = @ + n]
    <3>1. \A q \in Requests : EffectsOfRequests'[q] =
            IF q = r THEN EffectsOfRequests[q] + n ELSE EffectsOfRequests[q]
      BY <1>1, <1>4, EffectCounted
    <3> HIDE DEF r
    <3>2. /\ EffectsOfRequests = [q \in Requests |-> EffectsOfRequests[q]]
          /\ EffectsOfRequests' = [q \in Requests |-> EffectsOfRequests'[q]]
      BY DEF EffectsOfRequests
    <3>. QED  BY <2>1, <3>1, <3>2
  <2> HIDE DEF r
  <2>8. Promise!Decide(r)
    BY <2>4, <2>6, <2>7 DEF Promise!Decide
  <2>. QED  BY <2>1, <2>8 DEF Promise!Next
<1>. QED  BY <1>3, <1>4

\* When a record expires, the request it was stored for is forgotten.
LEMMA ExpiryPromise ==
  ASSUME TruthInv, NEW c \in Commands, Expire(c)
  PROVE  Promise!Next \/ UNCHANGED <<Outcome, EffectsOfRequests>>
<1>1. /\ Slot(c) \in DOMAIN records /\ effects' = effects
      /\ records' = [slot \in DOMAIN records \ {Slot(c)} |-> records[slot]]
  BY DEF Expire, Recorded
<1>2. EffectsOfRequests' = EffectsOfRequests
  BY <1>1 DEF EffectsOfRequests
<1> DEFINE r == [slot |-> Slot(c), body |-> records[Slot(c)].body]
<1>3. ASSUME NEW q \in Requests
      PROVE  /\ q # r => Outcome'[q] = Outcome[q]
             /\ q = r => Outcome'[q] = None /\ Outcome[q] # None
  <2>1. q = [slot |-> q.slot, body |-> q.body]
    BY DEF Requests, Request
  <2>2. CASE q.slot # Slot(c)
    BY <1>1, <2>2 DEF Outcome
  <2>3. CASE q.slot = Slot(c) /\ q.body # records[Slot(c)].body
    BY <1>1, <2>3 DEF Outcome
  <2>4. CASE q.slot = Slot(c) /\ q.body = records[Slot(c)].body
    <3>1. q = r
      BY <2>1, <2>4
    <3>2. records[Slot(c)].answer \in Answer
      BY <1>1 DEF TruthInv, RequestsTypeOK, Record
    <3>. QED  BY <1>1, <2>4, <3>1, <3>2, NoneAnswerAssumption DEF Outcome
  <2>. QED  BY <2>1, <2>2, <2>3, <2>4
<1>4. /\ Outcome = [q \in Requests |-> Outcome[q]]
      /\ Outcome' = [q \in Requests |-> Outcome'[q]]
  BY DEF Outcome
<1> HIDE DEF r
<1>5. CASE r \in Requests
  <2>1. Outcome' = [Outcome EXCEPT ![r] = None]
    BY <1>3, <1>4, <1>5
  <2>2. Promise!Forget(r)
    BY <1>2, <1>3, <1>5, <2>1 DEF Promise!Forget
  <2>. QED  BY <1>5, <2>2 DEF Promise!Next
<1>6. CASE r \notin Requests
  <2>1. \A q \in Requests : Outcome'[q] = Outcome[q]
    BY <1>3, <1>6
  <2>. QED  BY <1>2, <1>4, <2>1
<1>. QED  BY <1>5, <1>6

LEMMA NextPromise ==
  ASSUME TruthInv, [Next]_vars
  PROVE  [Promise!Next]_<<Outcome, EffectsOfRequests>>
<1>1. ASSUME NEW c \in Commands, Receive(c)
      PROVE  Promise!Next \/ UNCHANGED <<Outcome, EffectsOfRequests>>
  <2>1. Effect(c)
    BY <1>1, ReceiveEffect DEF TruthInv, RequestsTypeOK
  <2>2. CASE Replayed(c) /\ effects' = effects
    BY <2>2 DEF Replayed, Outcome, EffectsOfRequests
  <2>3. CASE ReplayStored(c)
    BY <2>2, <2>3 DEF ReplayStored, Replayed
  <2>4. CASE ~ReplayStored(c)
    <3>1. PICK a : Answered(c, a) /\ Holds(c.operation, a)'
      BY <2>1, <2>4 DEF Effect
    <3>2. a \in Answer
      BY <3>1 DEF Holds, Answer
    <3>3. ~Recorded(c)
      BY <1>1, <2>4 DEF Receive, Handles, CreateReplenishment, AddReplenishmentLine,
         CompleteReplenishment, CancelReplenishment, ResolveReplenishmentLineProduct,
         RegisterInventoryMovement
    <3>4. effects \in [Commands -> Nat]
      BY DEF TruthInv, RequestsTypeOK
    <3>5. \/ effects' = [effects EXCEPT ![c] = @ + 0]
          \/ effects' = [effects EXCEPT ![c] = @ + 1]
      BY <2>1, <3>4 DEF Effect, NewEffect
    <3>. QED  BY <3>1, <3>2, <3>3, <3>5, HandledPromise
  <2>. QED  BY <2>3, <2>4
<1>2. CASE UNCHANGED <<records, effects>>
  BY <1>2 DEF Outcome, EffectsOfRequests
<1>. QED  BY <1>1, <1>2, ExpiryPromise DEF Next, ChangeAccess, vars

\* The API keeps the promise RequestOutcomes makes to clients that repeat their
\* requests, for any requests, also ones that share keys or their senders.
THEOREM PromiseKept == Spec => ImplementsOutcomes
<1>1. TruthInv /\ [Next]_vars => [Promise!Next]_<<Outcome, EffectsOfRequests>>
  BY NextPromise
<1>. QED  BY <1>1, InitPromise, TruthInvariance, PTL DEF Spec, ImplementsOutcomes, Promise!Spec

=============================================================================
