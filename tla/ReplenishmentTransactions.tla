---------------------- MODULE ReplenishmentTransactions ----------------------
(***************************************************************************)
(* The same use cases statement by statement.  Each mutating request runs  *)
(* in one database transaction of one session (transactional_uow): it      *)
(* reads, writes rows only it can see, and commits or rolls back.          *)
(*                                                                         *)
(* The database is PostgreSQL at its default READ COMMITTED: a statement   *)
(* sees the rows committed when it runs and the transaction's own; writing *)
(* a row or a unique key another open transaction has written waits until  *)
(* that transaction ends.                                                  *)
(*                                                                         *)
(* With one session this is the program as its Dockerfile starts it: one   *)
(* process whose handlers run a transaction without yielding.  With more,  *)
(* it is several such processes on one database.                           *)
(***************************************************************************)
EXTENDS VisitStore

CONSTANT Workers    \* database sessions serving requests

VARIABLES
  pc,   \* pc[w]: the statement session w is about to execute
  tx    \* tx[w]: what the open transaction of w has read and written

vars == <<visits, ledger, stock, pc, tx>>

Places == {"idle", "read", "insert", "check", "merge", "flush", "commit"}
Operations == {"none", "start", "add_line", "complete", "cancel", "resolve", "register"}

(* visit   the key of the visit the request is about                       *)
(* local   the aggregate in memory, as loaded and then as modified         *)
(* base    the visit row as last read back before it is overwritten        *)
(* todo    movements still to record                                       *)
(* next    the movement checked and about to be inserted                   *)
(* writes  movements inserted, not yet committed                           *)
(* delta   what they change in the stock this transaction reads            *)
Transaction ==
  [op : Operations, visit : VisitKeys \cup {None},
   local : Visit \cup {None}, base : Visit \cup {None},
   todo : SUBSET Posting, next : Posting \cup {None},
   writes : SUBSET Posting, delta : Stocks]

NoTransaction ==
  [op |-> "none", visit |-> None, local |-> None, base |-> None,
   todo |-> {}, next |-> None, writes |-> {}, delta |-> ZeroStock]

TypeOK ==
  /\ StoreTypeOK
  /\ pc \in [Workers -> Places]
  /\ tx \in [Workers -> Transaction]

\* What an open transaction holds at each place of its request.
OnVisit(w)   == tx[w].op \in {"add_line", "complete", "cancel", "resolve"}
WellFormed ==
  \A w \in Workers :
    /\ pc[w] = "idle" => tx[w] = NoTransaction
    /\ pc[w] # "idle" => tx[w].op # "none"
    /\ pc[w] \in {"check", "merge"} => OnVisit(w)
    /\ pc[w] = "flush" => OnVisit(w) \/ tx[w].op = "start"
    /\ pc[w] = "insert" => tx[w].next # None /\ tx[w].next \in tx[w].todo
    /\ OnVisit(w) \/ tx[w].op = "start" => tx[w].visit # None /\ tx[w].local # None
    /\ OnVisit(w) => Exists(tx[w].visit)
    /\ OnVisit(w) /\ pc[w] \in {"flush", "commit"} => tx[w].base # None

Init ==
  /\ EmptyStore
  /\ pc = [w \in Workers |-> "idle"]
  /\ tx = [w \in Workers |-> NoTransaction]

Goto(w, place) == pc' = [pc EXCEPT ![w] = place]

\* Mutant of Rollback: the connection goes back with its transaction open.
Abandon(w) ==
  /\ Goto(w, "idle")
  /\ UNCHANGED <<visits, ledger, stock, tx>>

Rollback(w) ==
  /\ Goto(w, "idle")
  /\ tx' = [tx EXCEPT ![w] = NoTransaction]
  /\ UNCHANGED store

VisibleStock(w) == Merged(stock, tx[w].delta)

----------------------------------------------------------------------------
(* The start of a request: it loads, decides, and is about to write.  A    *)
(* request rejected here has written nothing and is no step.               *)

Begin(w, op, v, local, todo, place) ==
  /\ pc[w] = "idle"
  /\ Goto(w, place)
  /\ tx' = [tx EXCEPT ![w] = [NoTransaction EXCEPT
              !.op = op, !.visit = v, !.local = local, !.todo = todo]]
  /\ UNCHANGED store

\* A new line gets a fresh uuid.
FreshLine(v, l) ==
  /\ l \notin LinesOf(visits[v])
  /\ PostedKeys(v, l) = {}
  /\ \A u \in Workers : tx[u].visit = v => tx[u].local.lines[l] = None

BeginStart(w, v, operator) ==
  /\ ~Exists(v)
  /\ Begin(w, "start", v, Started(operator), {}, "flush")

BeginAddLine(w, v, l, line) ==
  /\ Loadable(v)
  /\ FreshLine(v, l)
  /\ InProgress(visits[v])
  /\ WithinCapacity(line)
  /\ Resolved(line) => Covered(stock, visits[v], line, line.product)
  /\ Begin(w, "add_line", v, WithLine(visits[v], l, line), {}, "check")

\* Completing looks at the status for COMPLETED only: the movements of a
\* cancelled visit are recorded first and rolled back afterwards.
BeginComplete(w, v) ==
  /\ Loadable(v)
  /\ visits[v].status # "COMPLETED"
  /\ Begin(w, "complete", v, visits[v], CompletionPostings(v, visits[v]), "read")

BeginCancel(w, v) ==
  /\ Loadable(v)
  /\ InProgress(visits[v])
  /\ Begin(w, "cancel", v, WithStatus(visits[v], "CANCELLED"), {}, "check")

\* Mutant of BeginResolve: the movement does not wait for completion.
BeginResolveAtOnce(w, v, l, p) ==
  /\ Loadable(v)
  /\ visits[v].status # "CANCELLED"
  /\ l \in PendingLines(visits[v])
  /\ LET resolved == WithProduct(visits[v], l, p)
     IN  Begin(w, "resolve", v, resolved, {ResolutionPosting(v, resolved, l)}, "read")

BeginResolve(w, v, l, p) ==
  /\ Loadable(v)
  /\ visits[v].status # "CANCELLED"
  /\ l \in PendingLines(visits[v])
  /\ LET resolved == WithProduct(visits[v], l, p)
         deferred == visits[v].status = "COMPLETED"
         todo     == IF deferred /\ PostedKeys(v, l) = {}
                     THEN {ResolutionPosting(v, resolved, l)} ELSE {}
     IN  /\ deferred => Covered(stock, visits[v], visits[v].lines[l], p)
         /\ Begin(w, "resolve", v, resolved, todo, "read")

BeginRegister(w, k, movement) ==
  /\ ledger[k] = None
  /\ Begin(w, "register", None, None, {At(k, movement)}, "read")

\* A repeated request finds its work done and answers with it.
Replay(w) ==
  /\ pc[w] = "idle"
  /\ \/ \E v \in VisitKeys : Exists(v)
     \/ \E k \in InventoryKeys : ledger[k] # None
  /\ UNCHANGED vars

----------------------------------------------------------------------------
(* Recording movements: look the key up, sum the movements of the source,  *)
(* check, insert.  Nothing keeps the sum from changing before the insert.  *)

SkipRecorded(w) ==
  /\ pc[w] = "read"
  /\ \E t \in tx[w].todo :
       /\ ledger[t.key] # None
       /\ tx' = [tx EXCEPT ![w].todo = @ \ {t}]
  /\ UNCHANGED <<visits, ledger, stock, pc>>

CheckStock(w) ==
  /\ pc[w] = "read"
  /\ \E t \in tx[w].todo :
       /\ ledger[t.key] = None
       /\ EnsureCanApply(VisibleStock(w), t.movement)
       /\ tx' = [tx EXCEPT ![w].next = t]
  /\ Goto(w, "insert")
  /\ UNCHANGED store

\* Mutant of RejectStock: a movement without stock is left out.
SkipUncovered(w) ==
  /\ pc[w] = "read"
  /\ \E t \in tx[w].todo :
       /\ ledger[t.key] = None /\ ~EnsureCanApply(VisibleStock(w), t.movement)
       /\ tx' = [tx EXCEPT ![w].todo = @ \ {t}]
  /\ UNCHANGED <<visits, ledger, stock, pc>>

RejectStock(w) ==
  /\ pc[w] = "read"
  /\ \E t \in tx[w].todo :
       ledger[t.key] = None /\ ~EnsureCanApply(VisibleStock(w), t.movement)
  /\ Rollback(w)

\* The unique index makes an insert wait for another one under the same key.
KeyHeldBy(w, u) == \E t \in tx[u].writes : t.key = tx[w].next.key
KeyFree(w) == \A u \in Workers \ {w} : ~KeyHeldBy(w, u)

\* Mutant of InsertMovement: no unique index on the key.
InsertAnyMovement(w) ==
  /\ pc[w] = "insert"
  /\ LET open == tx[w]
         t    == open.next
     IN  tx' = [tx EXCEPT ![w] = [open EXCEPT
           !.todo = @ \ {t}, !.next = None, !.writes = @ \cup {t},
           !.delta = Apply(@, t.movement)]]
  /\ Goto(w, "read")
  /\ UNCHANGED store

InsertMovement(w) ==
  /\ pc[w] = "insert"
  /\ KeyFree(w)
  /\ ledger[tx[w].next.key] = None
  /\ LET open == tx[w]
         t    == open.next
     IN  tx' = [tx EXCEPT ![w] = [open EXCEPT
           !.todo = @ \ {t}, !.next = None, !.writes = @ \cup {t},
           !.delta = Apply(@, t.movement)]]
  /\ Goto(w, "read")
  /\ UNCHANGED store

DuplicateMovement(w) ==
  /\ pc[w] = "insert"
  /\ KeyFree(w)
  /\ ledger[tx[w].next.key] # None
  /\ Rollback(w)

\* All movements are recorded.  The entity's own transition comes only now.
FinishRegister(w) ==
  /\ pc[w] = "read" /\ tx[w].todo = {} /\ tx[w].op = "register"
  /\ Goto(w, "commit")
  /\ UNCHANGED <<visits, ledger, stock, tx>>

FinishResolve(w) ==
  /\ pc[w] = "read" /\ tx[w].todo = {} /\ tx[w].op = "resolve"
  /\ Goto(w, "check")
  /\ UNCHANGED <<visits, ledger, stock, tx>>

FinishComplete(w) ==
  /\ pc[w] = "read" /\ tx[w].todo = {} /\ tx[w].op = "complete"
  /\ InProgress(tx[w].local)
  /\ Goto(w, "check")
  /\ tx' = [tx EXCEPT ![w].local = WithStatus(@, "COMPLETED")]
  /\ UNCHANGED store

RejectComplete(w) ==
  /\ pc[w] = "read" /\ tx[w].todo = {} /\ tx[w].op = "complete"
  /\ ~InProgress(tx[w].local)
  /\ Rollback(w)

----------------------------------------------------------------------------
(* Saving the visit: read its version, delete its lines, read it back and  *)
(* overwrite what differs, flush the row.                                  *)

CheckVersion(w) ==
  /\ pc[w] = "check"
  /\ visits[tx[w].visit].version = tx[w].local.version
  /\ Goto(w, "merge")
  /\ UNCHANGED <<visits, ledger, stock, tx>>

StaleVersion(w) ==
  /\ pc[w] = "check"
  /\ visits[tx[w].visit].version # tx[w].local.version
  /\ Rollback(w)

\* Deleting the lines waits for another transaction that has deleted them.
LinesHeldBy(w, u) ==
  /\ pc[u] \in {"flush", "commit"}
  /\ tx[u].op # "start"
  /\ tx[u].visit = tx[w].visit
  /\ LinesOf(tx[u].base) \cap LinesOf(visits[tx[w].visit]) # {}

Merge(w) ==
  /\ pc[w] = "merge"
  /\ \A u \in Workers \ {w} : ~LinesHeldBy(w, u)
  /\ tx' = [tx EXCEPT ![w].base = visits[tx[w].visit]]
  /\ Goto(w, "flush")
  /\ UNCHANGED store

\* Writing the row waits for another transaction that has written it.
RowHeldBy(w, u) == pc[u] = "commit" /\ tx[u].visit = tx[w].visit
RowFree(w) == \A u \in Workers \ {w} : ~RowHeldBy(w, u)

Flush(w) ==
  /\ pc[w] = "flush"
  /\ RowFree(w)
  /\ tx[w].op = "start" => ~Exists(tx[w].visit)
  /\ Goto(w, "commit")
  /\ UNCHANGED <<visits, ledger, stock, tx>>

DuplicateVisit(w) ==
  /\ pc[w] = "flush"
  /\ RowFree(w)
  /\ tx[w].op = "start" /\ Exists(tx[w].visit)
  /\ Rollback(w)

----------------------------------------------------------------------------
(* Commit: the transaction's rows become visible at once.                  *)

\* merge() writes a column only where the aggregate differs from the row read
\* back; another column keeps what is stored.
Column(mine, base, stored) == IF mine # base THEN mine ELSE stored

\* Mutant of WrittenVisit: the version is not counted up.
WrittenInPlace(local, base, stored) ==
  [stored EXCEPT
     !.status = Column(local.status, base.status, @),
     !.lines  = [l \in LineIds |->
                   Column(local.lines[l], base.lines[l], stored.lines[l])]]

WrittenVisit(local, base, stored) ==
  [stored EXCEPT
     !.status  = Column(local.status, base.status, @),
     !.version = Column(local.version + 1, base.version, @),
     !.lines   = [l \in LineIds |->
                    Column(local.lines[l], base.lines[l], stored.lines[l])]]

CommittedVisits(w) ==
  LET v == tx[w].visit
  IN  CASE tx[w].op = "register" -> visits
        [] tx[w].op = "start"    -> [visits EXCEPT ![v] = tx[w].local]
        [] OTHER -> [visits EXCEPT ![v] = WrittenVisit(tx[w].local, tx[w].base, @)]

CommittedLedger(w) ==
  [k \in MovementKeys |->
    IF \E t \in tx[w].writes : t.key = k
    THEN (CHOOSE t \in tx[w].writes : t.key = k).movement
    ELSE ledger[k]]

Commit(w) ==
  /\ pc[w] = "commit"
  /\ visits' = CommittedVisits(w)
  /\ ledger' = CommittedLedger(w)
  /\ stock' = VisibleStock(w)
  /\ Goto(w, "idle")
  /\ tx' = [tx EXCEPT ![w] = NoTransaction]

\* A crash of the process or a lost connection ends the transaction.
Crash(w) == pc[w] # "idle" /\ Rollback(w)

\* PostgreSQL ends a transaction it finds in a cycle of waiting ones.
WaitsFor(w, u) ==
  \/ pc[w] = "insert" /\ KeyHeldBy(w, u)
  \/ pc[w] = "merge" /\ LinesHeldBy(w, u)
  \/ pc[w] = "flush" /\ RowHeldBy(w, u)

Deadlocked(w) ==
  \E cycle \in SUBSET Workers :
    /\ w \in cycle
    /\ \A u \in cycle : /\ \E x \in cycle \ {u} : WaitsFor(u, x)
                        /\ \E x \in cycle \ {u} : WaitsFor(x, u)

DeadlockVictim(w) == Deadlocked(w) /\ Rollback(w)

----------------------------------------------------------------------------
BeginRequest(w) ==
  \/ \E v \in VisitKeys, operator \in Replenishers : BeginStart(w, v, operator)
  \/ \E v \in VisitKeys, l \in LineIds, line \in LineRequests : BeginAddLine(w, v, l, line)
  \/ \E v \in VisitKeys : BeginComplete(w, v)
  \/ \E v \in VisitKeys : BeginCancel(w, v)
  \/ \E v \in VisitKeys, l \in LineIds, p \in Products : BeginResolve(w, v, l, p)
  \/ \E k \in InventoryKeys, movement \in InventoryRequests : BeginRegister(w, k, movement)
  \/ Replay(w)

\* Steps that may have to wait for a lock.
LockStep(w) ==
  InsertMovement(w) \/ DuplicateMovement(w) \/ Merge(w) \/ Flush(w) \/ DuplicateVisit(w)

Step(w) ==
  \/ SkipRecorded(w) \/ CheckStock(w) \/ RejectStock(w)
  \/ FinishRegister(w) \/ FinishResolve(w) \/ FinishComplete(w) \/ RejectComplete(w)
  \/ CheckVersion(w) \/ StaleVersion(w)
  \/ Commit(w) \/ DeadlockVictim(w)

Next == \E w \in Workers : BeginRequest(w) \/ LockStep(w) \/ Step(w) \/ Crash(w)

Spec == Init /\ [][Next]_vars

\* A handler that is running goes on; a lock is granted in the order it was
\* asked for, so a waiting statement is not overtaken for ever.
Fairness == \A w \in Workers : WF_vars(Step(w)) /\ SF_vars(LockStep(w))
FairSpec == Spec /\ Fairness

----------------------------------------------------------------------------
(* The service it implements *)

\* The rows are the service's rows; the sessions are hidden.
Service ==
  INSTANCE ReplenishmentService WITH visits <- visits, ledger <- ledger, stock <- stock

\* Served by one session, the statements of each request implement the service
\* in which a request is a single step (complete.py, resolve_line_product.py,
\* register_movement.py inside one transactional_uow): no request takes effect
\* in part, and none has an effect the service would refuse.
ImplementsService == Service!Spec

=============================================================================
