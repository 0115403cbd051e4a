----------------------------- MODULE MachineAccess -----------------------------
(***************************************************************************)
(* Who may start a visit on which machine, and when: operators, machines,  *)
(* the assignments between them, the use cases that administer them and    *)
(* the gate a visit passes.                                                *)
(*                                                                         *)
(* Every request runs in one transaction of one session, read committed.   *)
(* Operators and machines carry no version that a save checks: the save    *)
(* reads the row back and overwrites every column that differs.  With one  *)
(* session requests follow each other; with more their statements mix.     *)
(***************************************************************************)
EXTENDS Operators, Machines, FiniteSets

CONSTANTS
  Sessions,
  MaxVisits,        \* bound: visits that may start
  MaxAssignments    \* bound: assignments that may be stored

ASSUME AccessAssumption == MaxVisits \in Nat /\ MaxAssignments \in Nat /\ None \notin Times

VARIABLES
  now,
  operators,    \* operators[o]: the row of operator o, or None
  machines,     \* machines[m]: machine m with its slots, or None
  assignments,  \* assignments[o][m][f]: the assignment of o to m valid from f, or None
  visits,       \* the visits started
  pc,           \* pc[w]: the statement session w is about to execute
  tx            \* tx[w]: what its open transaction has read and will write

rows == <<operators, machines, assignments, visits>>
vars == <<now, operators, machines, assignments, visits, pc, tx>>

Assignment == [until : Times \cup {None}, status : {"ACTIVE", "REVOKED"}]
Started == [operator : OperatorIds, machine : MachineIds, at : Times]

Places == {"idle", "refresh", "flush", "gate", "commit"}

\* A request that edits an operator or a machine, or starts a visit.  local is
\* the entity as loaded and modified, base the row read back to be overwritten.
Edit(kind, ids, row) == [kind : {kind}, id : ids, local : row, base : row \cup {None}]
Transaction ==
  Edit("operator", OperatorIds, OperatorRow) \cup Edit("machine", MachineIds, MachineRow)
    \cup [kind : {"start"}, visit : Started, local : OperatorRow]

\* None is no row, no slot and no transaction.
ASSUME NoneAssumption == None \notin OperatorRow \cup MachineRow \cup Slot \cup Transaction

AccessTypeOK ==
  /\ now \in Times
  /\ operators \in [OperatorIds -> OperatorRow \cup {None}]
  /\ machines \in [MachineIds -> MachineRow \cup {None}]
  /\ assignments \in [OperatorIds -> [MachineIds -> [Times -> Assignment \cup {None}]]]
  /\ visits \subseteq Started
  /\ pc \in [Sessions -> Places]
  /\ tx \in [Sessions -> Transaction \cup {None}]
  /\ \A w \in Sessions : pc[w] = "idle" <=> tx[w] = None

Init ==
  /\ now = 0
  /\ operators = [o \in OperatorIds |-> None]
  /\ machines = [m \in MachineIds |-> None]
  /\ assignments = [o \in OperatorIds |-> [m \in MachineIds |-> [f \in Times |-> None]]]
  /\ visits = {}
  /\ pc = [w \in Sessions |-> "idle"]
  /\ tx = [w \in Sessions |-> None]

Tick == now < MaxTime /\ now' = now + 1 /\ UNCHANGED <<rows, pc, tx>>

Goto(w, place) == pc' = [pc EXCEPT ![w] = place]
Begin(w, request, place) ==
  /\ pc[w] = "idle"
  /\ Goto(w, place)
  /\ tx' = [tx EXCEPT ![w] = request]
  /\ UNCHANGED <<now, rows>>

Rollback(w) ==
  /\ Goto(w, "idle")
  /\ tx' = [tx EXCEPT ![w] = None]
  /\ UNCHANGED <<now, rows>>

----------------------------------------------------------------------------
(* Requests of one insert or one update of a row nobody else writes.       *)

Administrator == \E a \in OperatorIds : operators[a] # None /\ CanManageMachines(operators[a])

\* A second provisioning of the same principal answers with the first one.
ProvisionOperator(w, o, role) ==
  /\ pc[w] = "idle"
  /\ operators[o] = None
  /\ operators' = [operators EXCEPT ![o] = Provisioned(role, now)]
  /\ UNCHANGED <<now, machines, assignments, visits, pc, tx>>

CreateMachine(w, m, details) ==
  /\ pc[w] = "idle"
  /\ Administrator
  /\ machines[m] = None
  /\ machines' = [machines EXCEPT ![m] = Created(details)]
  /\ UNCHANGED <<now, operators, assignments, visits, pc, tx>>

Stored ==
  {k \in OperatorIds \X MachineIds \X Times : assignments[k[1]][k[2]][k[3]] # None}

\* The replenisher is not looked up.  Two assignments of a replenisher to a
\* machine differ in the time they start.
AssignMachine(w, o, m, from, until) ==
  /\ pc[w] = "idle"
  /\ Administrator
  /\ machines[m] # None
  /\ until # None => from < until
  /\ assignments[o][m][from] = None
  /\ Cardinality(Stored) < MaxAssignments
  /\ assignments' = [assignments EXCEPT ![o][m][from] = [until |-> until, status |-> "ACTIVE"]]
  /\ UNCHANGED <<now, operators, machines, visits, pc, tx>>

\* The times from which an assignment of o to m that is not revoked holds.
ActiveFrom(o, m) ==
  {f \in Times : assignments[o][m][f] # None /\ assignments[o][m][f].status = "ACTIVE"}

\* The assignment the repository finds: of the active ones, the last to start,
\* whether or not it has started.
FoundFrom(o, m) == {f \in ActiveFrom(o, m) : \A g \in ActiveFrom(o, m) : g <= f}

RevokeAssignment(w, o, m) ==
  /\ pc[w] = "idle"
  /\ \E f \in FoundFrom(o, m) :
       assignments' = [assignments EXCEPT ![o][m][f].status = "REVOKED"]
  /\ UNCHANGED <<now, operators, machines, visits, pc, tx>>

----------------------------------------------------------------------------
(* Requests that load an entity, change it and save it.                    *)

EditOperator(w, o, new) ==
  Begin(w, [kind |-> "operator", id |-> o, local |-> new, base |-> None], "refresh")

ActivateOperator(w, o) ==
  operators[o] # None /\ CanActivate(operators[o]) /\ EditOperator(w, o, Activated(operators[o]))
SuspendOperator(w, o) ==
  operators[o] # None /\ CanSuspend(operators[o]) /\ EditOperator(w, o, Suspended(operators[o]))
DisableOperator(w, o) ==
  operators[o] # None /\ CanDisable(operators[o]) /\ EditOperator(w, o, Disabled(operators[o]))
AssignOperatorRole(w, o, role) ==
  /\ operators[o] # None
  /\ CanAssignRole(operators[o])
  /\ EditOperator(w, o, WithRole(operators[o], role))

EditMachine(w, m, new) ==
  Begin(w, [kind |-> "machine", id |-> m, local |-> new, base |-> None], "refresh")

Managed(m) == Administrator /\ machines[m] # None

MoveMachine(w, m, status) ==
  Managed(m) /\ CanMove(machines[m], status) /\ EditMachine(w, m, Moved(machines[m], status))
ActivateMachine(w, m)         == MoveMachine(w, m, "ACTIVE")
DeactivateMachine(w, m)       == MoveMachine(w, m, "INACTIVE")
PutMachineInMaintenance(w, m) == MoveMachine(w, m, "MAINTENANCE")

UpdateMachine(w, m, details) ==
  Managed(m) /\ EditMachine(w, m, WithDetails(machines[m], details))

\* A new slot gets a fresh uuid.
FreshSlot(m, s) ==
  \A u \in Sessions : tx[u] # None /\ tx[u].kind = "machine" => tx[u].local.slots[s] = None

AddMachineSlot(w, m, s, slot) ==
  /\ Managed(m)
  /\ FreshSlot(m, s)
  /\ CanAddSlot(machines[m], s, slot)
  /\ EditMachine(w, m, WithSlot(machines[m], s, slot))

EditSlot(w, m, s, new) == Managed(m) /\ s \in SlotsOf(machines[m]) /\ EditMachine(w, m, new)

SetSlotStatus(w, m, s, status) == EditSlot(w, m, s, WithSlotStatus(machines[m], s, status))
ChangeSlotCapacity(w, m, s, capacity) == EditSlot(w, m, s, WithCapacity(machines[m], s, capacity))
SetPreferredProduct(w, m, s, product) == EditSlot(w, m, s, WithPreferred(machines[m], s, product))
SetSlotSellingPrice(w, m, s, price) == EditSlot(w, m, s, WithPrice(machines[m], s, price))

----------------------------------------------------------------------------
(* Saving.  The row is read back, after a machine's slots have been        *)
(* deleted; it is flushed and committed with the columns that differ.      *)

Editing(w, kind, id) == tx[w] # None /\ tx[w].kind = kind /\ tx[w].id = id
SameRow(w, u) == tx[u] # None /\ tx[u].kind = tx[w].kind /\ tx[u].kind # "start" /\ tx[u].id = tx[w].id

RefreshOperator(w, o) ==
  /\ pc[w] = "refresh" /\ Editing(w, "operator", o)
  /\ tx' = [tx EXCEPT ![w].base = operators[o]]
  /\ Goto(w, "flush")
  /\ UNCHANGED <<now, rows>>

\* Deleting the slots waits for another transaction that has deleted them.
SlotsHeldBy(m, u) ==
  /\ pc[u] \in {"flush", "commit"} /\ Editing(u, "machine", m)
  /\ SlotsOf(tx[u].base) \cap SlotsOf(machines[m]) # {}

RefreshMachine(w, m) ==
  /\ pc[w] = "refresh" /\ Editing(w, "machine", m)
  /\ \A u \in Sessions \ {w} : ~SlotsHeldBy(m, u)
  /\ tx' = [tx EXCEPT ![w].base = machines[m]]
  /\ Goto(w, "flush")
  /\ UNCHANGED <<now, rows>>

\* Mutant of NumberTaken: slots have no unique index on machine and number.
NumberNeverTaken(w) == FALSE

\* A slot stored since this session deleted the ones it knew has the number of
\* a slot this session inserts: uq_machine_slots_number.
NumberTaken(w) ==
  /\ tx[w].kind = "machine"
  /\ LET stored == machines[tx[w].id]
     IN  \E s \in SlotsOf(stored) \ SlotsOf(tx[w].base) :
           \E t \in SlotsOf(tx[w].local) \ {s} :
             stored.slots[s].number = tx[w].local.slots[t].number

\* Writing the row waits for another transaction that has written it.
RowFree(w) == \A u \in Sessions \ {w} : ~(pc[u] = "commit" /\ SameRow(w, u))

Flush(w) ==
  /\ pc[w] = "flush"
  /\ RowFree(w)
  /\ ~NumberTaken(w)
  /\ Goto(w, "commit")
  /\ UNCHANGED <<now, rows, tx>>

DuplicateNumber(w) ==
  /\ pc[w] = "flush"
  /\ RowFree(w)
  /\ NumberTaken(w)
  /\ Rollback(w)

\* merge() writes a column only where the entity differs from the row read back.
Written(mine, base, stored) == IF mine # base THEN mine ELSE stored
WrittenOperator(local, base, stored) ==
  [c \in {"status", "role", "from"} |-> Written(local[c], base[c], stored[c])]
WrittenMachine(local, base, stored) ==
  [status  |-> Written(local.status, base.status, stored.status),
   details |-> Written(local.details, base.details, stored.details),
   slots   |-> [s \in SlotIds |-> Written(local.slots[s], base.slots[s], stored.slots[s])]]

\* Mutant of Finish: the session goes back with what it had loaded.
FinishDirty(w) == Goto(w, "idle") /\ UNCHANGED tx

Finish(w) == Goto(w, "idle") /\ tx' = [tx EXCEPT ![w] = None]

CommitOperator(w, o) ==
  /\ pc[w] = "commit" /\ Editing(w, "operator", o)
  /\ operators' = [operators EXCEPT ![o] = WrittenOperator(tx[w].local, tx[w].base, @)]
  /\ Finish(w)
  /\ UNCHANGED <<now, machines, assignments, visits>>

CommitMachine(w, m) ==
  /\ pc[w] = "commit" /\ Editing(w, "machine", m)
  /\ machines' = [machines EXCEPT ![m] = WrittenMachine(tx[w].local, tx[w].base, @)]
  /\ Finish(w)
  /\ UNCHANGED <<now, operators, assignments, visits>>

----------------------------------------------------------------------------
(* Starting a visit.  The operator is loaded and checked before the        *)
(* request's transaction; machine and assignment are read in it.  The time *)
(* of the visit is the client's, or now.                                   *)

BeginStart(w, visit) ==
  /\ Cardinality(visits) < MaxVisits
  /\ operators[visit.operator] # None
  /\ CanReplenish(operators[visit.operator], now)
  /\ Begin(w, [kind |-> "start", visit |-> visit, local |-> operators[visit.operator]], "gate")

\* Mutant of InPeriod: the end belongs to the period.
InClosedPeriod(from, until, t) == from <= t /\ (until # None => t <= until)

\* Periods are half open.
InPeriod(from, until, t) == from <= t /\ (until # None => t < until)

EffectiveAt(o, m, f, t) == f \in ActiveFrom(o, m) /\ InPeriod(f, assignments[o][m][f].until, t)

IsAssigned(o, m, t) == \E f \in FoundFrom(o, m) : EffectiveAt(o, m, f, t)

CanOperate(operator, visit) ==
  /\ machines[visit.machine] # None
  /\ machines[visit.machine].status = "ACTIVE"
  /\ CanReplenish(operator, visit.at)
  /\ IsAssigned(visit.operator, visit.machine, visit.at)

EnsureCanOperate(w) ==
  /\ pc[w] = "gate"
  /\ CanOperate(tx[w].local, tx[w].visit)
  /\ Goto(w, "commit")
  /\ UNCHANGED <<now, rows, tx>>

DenyAccess(w) ==
  /\ pc[w] = "gate"
  /\ ~CanOperate(tx[w].local, tx[w].visit)
  /\ Rollback(w)

CommitStart(w) ==
  /\ pc[w] = "commit" /\ tx[w].kind = "start"
  /\ visits' = visits \cup {tx[w].visit}
  /\ Finish(w)
  /\ UNCHANGED <<now, operators, machines, assignments>>

Crash(w) == pc[w] # "idle" /\ Rollback(w)

----------------------------------------------------------------------------
Administer(w) ==
  \/ \E o \in OperatorIds, role \in Roles : ProvisionOperator(w, o, role)
  \/ \E m \in MachineIds, d \in Details : CreateMachine(w, m, d)
  \/ \E o \in OperatorIds, m \in MachineIds, f \in Times, t \in Times \cup {None} :
       AssignMachine(w, o, m, f, t)
  \/ \E o \in OperatorIds, m \in MachineIds : RevokeAssignment(w, o, m)
  \/ \E o \in OperatorIds : ActivateOperator(w, o)
  \/ \E o \in OperatorIds : SuspendOperator(w, o)
  \/ \E o \in OperatorIds : DisableOperator(w, o)
  \/ \E o \in OperatorIds, role \in Roles : AssignOperatorRole(w, o, role)

Configure(w, m) ==
  \/ ActivateMachine(w, m) \/ DeactivateMachine(w, m) \/ PutMachineInMaintenance(w, m)
  \/ \E d \in Details : UpdateMachine(w, m, d)
  \/ \E s \in SlotIds, n \in SlotNumbers, c \in Capacities,
        p \in Preferences \cup {None}, price \in Prices \cup {None} :
       AddMachineSlot(w, m, s, NewSlot(n, c, p, price))
  \/ \E s \in SlotIds, status \in SlotStatuses : SetSlotStatus(w, m, s, status)
  \/ \E s \in SlotIds, c \in Capacities : ChangeSlotCapacity(w, m, s, c)
  \/ \E s \in SlotIds, p \in Preferences \cup {None} : SetPreferredProduct(w, m, s, p)
  \/ \E s \in SlotIds, price \in Prices : SetSlotSellingPrice(w, m, s, price)

Save(w) ==
  \/ \E o \in OperatorIds : RefreshOperator(w, o) \/ CommitOperator(w, o)
  \/ \E m \in MachineIds : RefreshMachine(w, m) \/ CommitMachine(w, m)
  \/ Flush(w) \/ DuplicateNumber(w)

Start(w) ==
  \/ \E visit \in Started : BeginStart(w, visit)
  \/ EnsureCanOperate(w) \/ DenyAccess(w) \/ CommitStart(w)

Next ==
  \/ Tick
  \/ \E w \in Sessions :
       \/ Administer(w) \/ Save(w) \/ Start(w) \/ Crash(w)
       \/ pc[w] = "idle" /\ \E m \in MachineIds : Configure(w, m)

Spec == Init /\ [][Next]_vars

----------------------------------------------------------------------------
(* Properties *)

\* A visit starts only while its machine is active and its operator an active
\* replenisher, at a time of the operator's period and of an assignment of that
\* operator to that machine (docs/architecture/MACHINE_ACCESS.md, rules 2 to 5).
VisitsStartWithAccess ==
  [][\A visit \in visits' \ visits :
       /\ machines[visit.machine] # None /\ machines[visit.machine].status = "ACTIVE"
       /\ operators[visit.operator].status = "ACTIVE"
       /\ operators[visit.operator].role = "OPERATOR"
       /\ operators[visit.operator].from <= visit.at
       /\ \E f \in Times :
            LET a == assignments[visit.operator][visit.machine][f]
            IN  /\ a # None /\ a.status = "ACTIVE" /\ f <= visit.at
                /\ a.until = None \/ visit.at < a.until
    ]_visits

\* A disabled operator stays disabled, with the role it had, whatever requests
\* about it are still under way (Operator.activate, suspend, assign_role).
DisabledIsFinal ==
  [][\A o \in OperatorIds :
       operators[o] # None /\ operators[o].status = "DISABLED" => operators'[o] = operators[o]
    ]_operators

\* The status of a machine changes along the transitions the entity allows,
\* from what is stored and not from what a request once read.
StatusMovesAsAllowed ==
  [][\A m \in MachineIds : machines[m] # None /\ machines'[m].status # machines[m].status =>
       <<machines[m].status, machines'[m].status>> \in AllowedTransitions
    ]_machines

\* A slot keeps its identity and its number for good (MachineSlot): deleting
\* and reinserting the slots on every save loses none.
SlotsAreKept ==
  [][\A m \in MachineIds : machines[m] # None =>
       \A s \in SlotsOf(machines[m]) :
         /\ s \in SlotsOf(machines'[m])
         /\ machines'[m].slots[s].number = machines[m].slots[s].number
    ]_machines

\* The parts of a machine a save can change one by one.
ChangedParts(old, new) ==
  {<<c>> : c \in {c \in {"status", "details"} : old[c] # new[c]}}
    \cup {<<"slot", s>> : s \in {s \in SlotIds :
            /\ old.slots[s] # new.slots[s]
            /\ old.slots[s] = None \/ new.slots[s] = None}}
    \cup UNION {{<<"slot", s, c>> : c \in {c \in DOMAIN old.slots[s] :
                    old.slots[s][c] # new.slots[s][c]}} :
                 s \in SlotsOf(old) \cap SlotsOf(new)}

\* A save changes the one thing its request is about and puts nothing else
\* back to an earlier value, though it writes the whole machine.
OneChangePerSave ==
  [][\A m \in MachineIds : machines[m] # None =>
       \A p, q \in ChangedParts(machines[m], machines'[m]) : p = q
    ]_machines

\* No two slots of a machine have the same number, even when several sessions
\* add slots at once (uq_machine_slots_number).
SlotNumbersAreUnique ==
  \A m \in MachineIds : machines[m] # None =>
    \A s, t \in SlotsOf(machines[m]) :
      machines[m].slots[s].number = machines[m].slots[t].number => s = t

\* A replenisher whose assignment to a machine is active and effective is
\* never refused for want of one.
EffectiveAssignmentAdmits ==
  \A o \in OperatorIds, m \in MachineIds, t \in Times :
    (\E f \in Times : EffectiveAt(o, m, f, t)) => IsAssigned(o, m, t)

=============================================================================
