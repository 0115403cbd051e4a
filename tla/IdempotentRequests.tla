-------------------------- MODULE IdempotentRequests --------------------------
(***************************************************************************)
(* The mutating requests of the HTTP API as clients use them: a command    *)
(* may arrive at any time, any number of times and in any order, because   *)
(* requests and answers get lost and are sent again.                       *)
(*                                                                         *)
(* run_mutating runs a handler in one unit of work, behind the platform's  *)
(* store of answers: one record per operation and key, written in the same *)
(* transaction as the handler's rows.  Behind it the use cases recognise   *)
(* repeated work on their own: by the key of a visit or a movement, which  *)
(* is unique per tenant and not per operation, or by the state of a visit. *)
(*                                                                         *)
(* One process serves the requests one after the other.  A command that is *)
(* refused rolls back, leaves no record and is no step.                    *)
(***************************************************************************)
EXTENDS RequestSteps

CONSTANTS
  Commands,     \* the commands clients send
  MaxExpired    \* bound: records that may expire

ASSUME ExpiredAssumption == MaxExpired \in Nat

VARIABLES
  records,     \* records[<<op, k>>]: the stored answer of operation op under key k
  forgotten,   \* the <<op, k>> whose record has expired
  admitted,    \* the operators that may now work on the machine (MachineAccess)
  replies,     \* replies[c]: every answer command c has been given
  effects      \* effects[c]: how often handling c changed the stored rows

http == <<records, forgotten, admitted, replies, effects>>
vars == <<visits, ledger, stock, records, forgotten, admitted, replies, effects>>

----------------------------------------------------------------------------
(* Commands.  The body is what the request hash covers: for a new visit it *)
(* is the machine and the place, the same in every command here, while the *)
(* caller is known from the session.                                       *)

Keys == VisitKeys \cup InventoryKeys
OptionalKeys == Keys \cup {None}

VisitOperations == {"add_line", "complete", "cancel", "resolve"}
MovementOperations == {"assign", "return", "adjust", "loss"}
Operations == {"create"} \cup VisitOperations \cup MovementOperations

RequestedMovements ==
  [operation \in MovementOperations |->
    CASE operation = "assign" -> AssignInventory
      [] operation = "return" -> ReturnInventory
      [] operation = "adjust" -> AdjustInventory
      [] operation = "loss"   -> RecordLoss]

Command ==
  [operation : {"create"}, key : VisitKeys \cup {None}, caller : Replenishers, body : {None}]
    \cup [operation : {"add_line"}, key : OptionalKeys, body : [visit : VisitKeys, line : Line]]
    \cup [operation : {"complete", "cancel"}, key : OptionalKeys, body : [visit : VisitKeys]]
    \cup [operation : {"resolve"}, key : OptionalKeys,
          body : [visit : VisitKeys, line : LineIds, product : Products]]
    \cup UNION {[operation : {op}, key : InventoryKeys \cup {None}, body : RequestedMovements[op]] :
                  op \in MovementOperations}

\* Keys, bodies and callers are of bounded size.
ASSUME CommandsAssumption == Commands \subseteq Command /\ IsFiniteSet(Commands)

Keyed(c) == c.key # None
Slot(c)  == <<c.operation, c.key>>
HeaderKeys == {c.key : c \in Commands}

\* The keys a command's row may be stored under: the one it brings, or one no
\* client knows (a start without a key gets one made from its request's id).
RowKeys(c, keys) == IF Keyed(c) THEN {c.key} ELSE keys \ HeaderKeys

\* An answer names the row it is about and what was stored of it.
VisitAnswer    == [id : VisitKeys, row : Visit]
MovementAnswer == [id : InventoryKeys, row : Movement]
Answer == VisitAnswer \cup MovementAnswer
Record == [body : {c.body : c \in Commands}, answer : Answer]

ASSUME NoneAnswerAssumption == None \notin Answer

RequestsTypeOK ==
  /\ StoreTypeOK
  /\ DOMAIN records \subseteq Operations \X Keys
  /\ records \in [DOMAIN records -> Record]
  /\ forgotten \subseteq Operations \X Keys
  /\ admitted \subseteq Replenishers
  /\ replies \in [Commands -> SUBSET Answer]
  /\ effects \in [Commands -> Nat]

Init ==
  /\ EmptyStore
  /\ records = <<>>
  /\ forgotten = {}
  /\ admitted = {}
  /\ replies = [c \in Commands |-> {}]
  /\ effects = [c \in Commands |-> 0]

----------------------------------------------------------------------------
(* run_mutating and the store of answers *)

\* Mutant of Recorded: the answer of a request is not stored with it.
NeverRecorded(c) == FALSE
Recorded(c) == Keyed(c) /\ Slot(c) \in DOMAIN records

\* Mutant of SameRequest: the hash of the request is not compared.
SameKey(c) == Recorded(c)
SameRequest(c) == Recorded(c) /\ records[Slot(c)].body = c.body

Tell(c, answer) == replies' = [replies EXCEPT ![c] = @ \cup {answer}]

\* The stored answer is given again; the handler does not run.  Another body
\* under the key is refused.
ReplayStored(c) ==
  /\ SameRequest(c)
  /\ Tell(c, records[Slot(c)].answer)
  /\ UNCHANGED <<visits, ledger, stock, records, forgotten, admitted, effects>>

StoredAt(slots, c, answer) ==
  [slot \in DOMAIN records \cup slots |->
    IF slot \in slots THEN [body |-> c.body, answer |-> answer] ELSE records[slot]]

\* Mutants of Remember: one record per key, whatever the operation; a record
\* that holds the answer alone.
RememberForAll(c, answer) ==
  records' = IF Keyed(c) THEN StoredAt(Operations \X {c.key}, c, answer) ELSE records

RememberAnswer(c, answer) ==
  records' = IF Keyed(c) THEN StoredAt({Slot(c)}, [c EXCEPT !.body = answer], answer) ELSE records

Remember(c, answer) ==
  records' = IF Keyed(c) THEN StoredAt({Slot(c)}, c, answer) ELSE records

\* The handler has run: its rows, the record of its answer and the answer.
Answered(c, answer) ==
  /\ Remember(c, answer)
  /\ Tell(c, answer)
  /\ UNCHANGED <<forgotten, admitted>>

Did(c, answer)   == Answered(c, answer) /\ effects' = [effects EXCEPT ![c] = @ + 1]
Found(c, answer) == Answered(c, answer) /\ UNCHANGED <<visits, ledger, stock, effects>>

StoredVisit(v)    == [id |-> v, row |-> visits[v]]
StoredMovement(k) == [id |-> k, row |-> ledger[k]]

----------------------------------------------------------------------------
(* Handlers *)

Handles(c, operation) == c.operation = operation /\ ~Recorded(c)

\* Access is checked before the key is looked up, and whatever is stored under
\* the key is the answer.
CreateReplenishment(c) ==
  /\ Handles(c, "create")
  /\ c.caller \in admitted
  /\ \E v \in RowKeys(c, VisitKeys) :
       \/ Exists(v) /\ Keyed(c) /\ Found(c, StoredVisit(v))
       \/ Start(v, c.caller) /\ Did(c, StoredVisit(v)')

AddReplenishmentLine(c) ==
  /\ Handles(c, "add_line")
  /\ \E l \in LineIds : AddLine(c.body.visit, l, c.body.line)
  /\ Did(c, StoredVisit(c.body.visit)')

CompleteReplenishment(c) ==
  /\ Handles(c, "complete")
  /\ LET v == c.body.visit
     IN  \/ /\ Exists(v) /\ visits[v].status = "COMPLETED"
            /\ Found(c, StoredVisit(v))
         \/ Complete(v) /\ Did(c, StoredVisit(v)')

CancelReplenishment(c) ==
  /\ Handles(c, "cancel")
  /\ Cancel(c.body.visit)
  /\ Did(c, StoredVisit(c.body.visit)')

\* A line that has the product already is answered whatever became of the visit.
ResolveReplenishmentLineProduct(c) ==
  /\ Handles(c, "resolve")
  /\ LET v == c.body.visit
     IN  \/ /\ Exists(v)
            /\ c.body.line \in LinesOf(visits[v])
            /\ visits[v].lines[c.body.line].product = c.body.product
            /\ Found(c, StoredVisit(v))
         \/ /\ ResolveLine(v, c.body.line, c.body.product)
            /\ Did(c, StoredVisit(v)')

\* The movement stored under the key is the answer, whichever operation it is of.
RegisterInventoryMovement(c) ==
  /\ c.operation \in MovementOperations /\ ~Recorded(c)
  /\ \E k \in RowKeys(c, InventoryKeys) :
       \/ ledger[k] # None /\ Keyed(c) /\ Found(c, StoredMovement(k))
       \/ RegisterMovement(k, c.body) /\ Did(c, StoredMovement(k)')

Receive(c) ==
  \/ ReplayStored(c)
  \/ CreateReplenishment(c) \/ AddReplenishmentLine(c) \/ CompleteReplenishment(c)
  \/ CancelReplenishment(c) \/ ResolveReplenishmentLineProduct(c)
  \/ RegisterInventoryMovement(c)

----------------------------------------------------------------------------
(* Around the requests *)

\* Records expire.
Expire(c) ==
  /\ Recorded(c)
  /\ Cardinality(forgotten \cup {Slot(c)}) <= MaxExpired
  /\ records' = [slot \in DOMAIN records \ {Slot(c)} |-> records[slot]]
  /\ forgotten' = forgotten \cup {Slot(c)}
  /\ UNCHANGED <<visits, ledger, stock, admitted, replies, effects>>

\* Assignments begin and end.
ChangeAccess(operator) ==
  /\ admitted' = IF operator \in admitted THEN admitted \ {operator} ELSE admitted \cup {operator}
  /\ UNCHANGED <<visits, ledger, stock, records, forgotten, replies, effects>>

Next ==
  \/ \E c \in Commands : Receive(c) \/ Expire(c)
  \/ \E operator \in Replenishers : ChangeAccess(operator)

Spec == Init /\ [][Next]_vars

----------------------------------------------------------------------------
(* Properties *)

\* A command with a key, and a change of status or of a line's product with or
\* without one, changes the rows at most once, however often it arrives and
\* though its record expires: the domain keys and the state of the visit stand
\* behind the records (docs/api/MOBILE_API_CONTRACT.md, section 9, rules 1 and
\* 4).  Only a line has nothing behind its record.
TakesEffectOnce(c) ==
  \/ c.operation \in {"complete", "cancel", "resolve"}
  \/ Keyed(c) /\ (c.operation # "add_line" \/ Slot(c) \notin forgotten)

AtMostOneEffect == \A c \in Commands : TakesEffectOnce(c) => effects[c] <= 1

\* As long as its record is kept, a command has one answer, and repeating it is
\* answered from the record: though the operator has lost access, the visit has
\* moved on or the stock is gone by then (run_mutating).
OneAnswerPerRequest ==
  \A c \in Commands : Keyed(c) /\ Slot(c) \notin forgotten /\ replies[c] # {} =>
    /\ Recorded(c)
    /\ records[Slot(c)].body = c.body
    /\ replies[c] = {records[Slot(c)].answer}

\* A visit that was once stored as row is still what it was, or has moved on
\* from there: no line is gone and a status that closed it is final.
MovedOnFrom(row, visit) ==
  /\ visit.operator = row.operator
  /\ visit.version >= row.version
  /\ Closed(row) => visit.status = row.status
  /\ \A l \in LinesOf(row) :
       /\ l \in LinesOf(visit)
       /\ visit.lines[l].quantity = row.lines[l].quantity
       /\ Resolved(row.lines[l]) => visit.lines[l].product = row.lines[l].product

\* Whatever a client has ever been told is so: the movement is in the ledger,
\* the visit is there and has only moved on since.
AnswersHold ==
  \A c \in Commands : \A a \in replies[c] :
    IF c.operation \in MovementOperations
    THEN ledger[a.id] = a.row
    ELSE Exists(a.id) /\ MovedOnFrom(a.row, visits[a.id])

\* Nothing is done twice under the cover of one key: a movement request that
\* is answered has been answered with the movement it asked for; another
\* payload under a key in use is refused.
KeyReuseIsRefused ==
  \A c \in Commands : \A a \in replies[c] :
    c.operation \in MovementOperations => a.row = c.body

----------------------------------------------------------------------------
(* What clients are promised *)

\* Commands that share their slot and body are one request, whoever sends them:
\* the caller is not part of the key or of the hash.
Request(c) == [slot |-> Slot(c), body |-> c.body]
Senders(r) == {c \in Commands : Keyed(c) /\ Request(c) = r}
Requests == {Request(c) : c \in {d \in Commands : Keyed(d)}}

\* The outcome of a request is the record that answers it.
Outcome ==
  [r \in Requests |->
    IF r.slot \in DOMAIN records /\ records[r.slot].body = r.body
    THEN records[r.slot].answer ELSE None]

InAll(count, commands) == MapThenSumSet(LAMBDA c : count[c], commands)
EffectsOfRequests == [r \in Requests |-> InAll(effects, Senders(r))]

Promise ==
  INSTANCE RequestOutcomes WITH
    Outcomes <- Answer, outcome <- Outcome, effects <- EffectsOfRequests

\* The API keeps the promise: a request is decided once, with its effect, and
\* again only after its record has expired (wiring.py, run_mutating).
ImplementsOutcomes == Promise!Spec

=============================================================================
