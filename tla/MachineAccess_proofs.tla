-------------------------- MODULE MachineAccess_proofs --------------------------
(***************************************************************************)
(* Theorems about MachineAccess, for every value of its constants and any  *)
(* number of sessions unless a theorem says otherwise.                     *)
(***************************************************************************)
EXTENDS MachineAccess, TLAPS

----------------------------------------------------------------------------
(* What the operations on operators and machines return *)

LEMMA OperatorTypes ==
  ASSUME NEW row \in OperatorRow
  PROVE  /\ Activated(row) \in OperatorRow
         /\ Suspended(row) \in OperatorRow
         /\ Disabled(row) \in OperatorRow
         /\ row.status = "DISABLED" => Disabled(row) = row
         /\ \A role \in Roles : WithRole(row, role) \in OperatorRow
BY DEF OperatorRow, OperatorStatuses, Roles, Activated, Suspended, Disabled, WithRole

\* The same slots under the same numbers.
SameSlots(old, new) ==
  \A s \in SlotIds :
    /\ new.slots[s] = None <=> old.slots[s] = None
    /\ old.slots[s] # None => new.slots[s].number = old.slots[s].number

\* The parts that differ, one by one.
LEMMA PartsThatDiffer ==
  ASSUME NEW old \in MachineRow, NEW new \in MachineRow, NEW p \in ChangedParts(old, new)
  PROVE  \/ p = <<"status">> /\ new.status # old.status
         \/ p = <<"details">> /\ new.details # old.details
         \/ \E s \in SlotIds :
              /\ p = <<"slot", s>> /\ new.slots[s] # old.slots[s]
              /\ s \notin SlotsOf(old) \cap SlotsOf(new)
         \/ \E s \in SlotsOf(old) \cap SlotsOf(new) : \E c \in DOMAIN old.slots[s] :
              p = <<"slot", s, c>> /\ new.slots[s][c] # old.slots[s][c]
BY DEF ChangedParts, SlotsOf

\* Two parts never differ.
OneChange(old, new) == \A p, q \in ChangedParts(old, new) : p = q

LEMMA OneChangeOutside ==
  ASSUME NEW old \in MachineRow, NEW new \in MachineRow, new.slots = old.slots,
         new.status = old.status \/ new.details = old.details
  PROVE  OneChange(old, new)
BY PartsThatDiffer DEF OneChange

\* The same machine but for one slot.
OtherSlotsStay(old, new, s) ==
  /\ new.status = old.status /\ new.details = old.details
  /\ \A t \in SlotIds \ {s} : new.slots[t] = old.slots[t]

\* The same slot but for one field.
OtherFieldsStay(a, b, c) == \A d \in DOMAIN a \ {c} : b[d] = a[d]

LEMMA OneSlotAdded ==
  ASSUME NEW old \in MachineRow, NEW new \in MachineRow, NEW s \in SlotIds,
         OtherSlotsStay(old, new, s), s \notin SlotsOf(old)
  PROVE  OneChange(old, new)
<1>1. \A p \in ChangedParts(old, new) : p = <<"slot", s>>
  BY PartsThatDiffer DEF SlotsOf, OtherSlotsStay
<1>. QED  BY <1>1 DEF OneChange

LEMMA OneFieldChanged ==
  ASSUME NEW old \in MachineRow, NEW new \in MachineRow, NEW s \in SlotIds,
         OtherSlotsStay(old, new, s), s \in SlotsOf(old), s \in SlotsOf(new),
         NEW c, OtherFieldsStay(old.slots[s], new.slots[s], c)
  PROVE  OneChange(old, new)
<1>1. \A p \in ChangedParts(old, new) : p = <<"slot", s, c>>
  BY PartsThatDiffer DEF SlotsOf, OtherSlotsStay, OtherFieldsStay
<1>. QED  BY <1>1 DEF OneChange

\* What a request makes of the machine it has loaded: a status the transitions
\* allow, the slots there were under their numbers, and one change.
OneEdit(old, new) ==
  /\ new.status # old.status => <<old.status, new.status>> \in AllowedTransitions
  /\ \A s \in SlotsOf(old) : s \in SlotsOf(new) /\ new.slots[s].number = old.slots[s].number
  /\ OneChange(old, new)

LEMMA NoEdit ==
  ASSUME NEW row \in MachineRow
  PROVE  OneEdit(row, row)
BY OneChangeOutside DEF OneEdit

LEMMA MachineTypes ==
  ASSUME NEW row \in MachineRow
  PROVE  /\ \A status \in MachineStatuses :
              /\ Moved(row, status) \in MachineRow /\ SameSlots(row, Moved(row, status))
              /\ CanMove(row, status) => OneEdit(row, Moved(row, status))
         /\ \A details \in Details :
              /\ WithDetails(row, details) \in MachineRow /\ SameSlots(row, WithDetails(row, details))
              /\ OneEdit(row, WithDetails(row, details))
<1>1. ASSUME NEW status \in MachineStatuses
      PROVE  /\ Moved(row, status) \in MachineRow
             /\ Moved(row, status).status = status
             /\ Moved(row, status).details = row.details
             /\ Moved(row, status).slots = row.slots
  BY DEF MachineRow, Moved
<1>2. ASSUME NEW details \in Details
      PROVE  /\ WithDetails(row, details) \in MachineRow
             /\ WithDetails(row, details).status = row.status
             /\ WithDetails(row, details).slots = row.slots
  BY DEF MachineRow, WithDetails
<1>. QED  BY <1>1, <1>2, OneChangeOutside DEF CanMove, OneEdit, SameSlots, SlotsOf

\* Replacing a slot by one with its number.
LEMMA ReplacedSlot ==
  ASSUME NEW row \in MachineRow, NEW s \in SlotsOf(row), NEW slot \in Slot,
         slot.number = row.slots[s].number,
         NEW c, OtherFieldsStay(row.slots[s], slot, c),
         NEW new, new = [row EXCEPT !.slots = [row.slots EXCEPT ![s] = slot]]
  PROVE  new \in MachineRow /\ SameSlots(row, new) /\ OneEdit(row, new)
<1>1. s \in SlotIds /\ slot # None  BY NoneAssumption DEF SlotsOf
<1>2. row.slots \in [SlotIds -> Slot \cup {None}]  BY DEF MachineRow
<1>3. new \in MachineRow /\ new.slots = [row.slots EXCEPT ![s] = slot]
  BY <1>1, <1>2 DEF MachineRow
<1>4. new.status = row.status /\ new.details = row.details
  BY DEF MachineRow
<1>5. SameSlots(row, new)
  BY <1>1, <1>2, <1>3 DEF SameSlots, SlotsOf
<1>6. OneChange(row, new)
  <2>1. new.slots[s] = slot /\ s \in SlotsOf(new)
    BY <1>1, <1>2, <1>3 DEF SlotsOf
  <2>2. OtherSlotsStay(row, new, s)
    BY <1>2, <1>3, <1>4 DEF OtherSlotsStay
  <2>3. OtherFieldsStay(row.slots[s], new.slots[s], c)
    BY <2>1
  <2>. QED  BY <1>1, <1>3, <2>1, <2>2, <2>3, OneFieldChanged
<1>. QED  BY <1>3, <1>4, <1>5, <1>6 DEF OneEdit, SameSlots, SlotsOf

\* A machine with a slot of it edited.
Reslotted(old, new) == new \in MachineRow /\ SameSlots(old, new) /\ OneEdit(old, new)

LEMMA SlotTypes ==
  ASSUME NEW row \in MachineRow, NEW s \in SlotsOf(row)
  PROVE  /\ \A x \in SlotStatuses : Reslotted(row, WithSlotStatus(row, s, x))
         /\ \A x \in Capacities : Reslotted(row, WithCapacity(row, s, x))
         /\ \A x \in Preferences \cup {None} : Reslotted(row, WithPreferred(row, s, x))
         /\ \A x \in Prices : Reslotted(row, WithPrice(row, s, x))
<1> DEFINE slot == row.slots[s]
           Put(new) == [row EXCEPT !.slots = [row.slots EXCEPT ![s] = new]]
<1>0. row.slots \in [SlotIds -> Slot \cup {None}] /\ s \in SlotIds /\ slot \in Slot
  BY DEF MachineRow, SlotsOf
<1>1. ASSUME NEW new \in Slot, new.number = slot.number,
             NEW c, OtherFieldsStay(slot, new, c)
      PROVE  Reslotted(row, Put(new))
  BY <1>1, ReplacedSlot DEF Reslotted
<1>2. ASSUME NEW x \in SlotStatuses
      PROVE  Reslotted(row, WithSlotStatus(row, s, x))
  <2> DEFINE new == [slot EXCEPT !.status = x]
  <2>1. WithSlotStatus(row, s, x) = Put(new)  BY DEF WithSlotStatus
  <2>2. new \in Slot /\ new.number = slot.number
    BY <1>0 DEF Slot
  <2>3. OtherFieldsStay(slot, new, "status")
    BY DEF OtherFieldsStay
  <2>. HIDE DEF new, slot, Put
  <2>. QED  BY <1>1, <2>1, <2>2, <2>3
<1>3. ASSUME NEW x \in Capacities
      PROVE  Reslotted(row, WithCapacity(row, s, x))
  <2> DEFINE new == [slot EXCEPT !.capacity = x]
  <2>1. WithCapacity(row, s, x) = Put(new)  BY DEF WithCapacity
  <2>2. new \in Slot /\ new.number = slot.number
    BY <1>0 DEF Slot
  <2>3. OtherFieldsStay(slot, new, "capacity")
    BY DEF OtherFieldsStay
  <2>. HIDE DEF new, slot, Put
  <2>. QED  BY <1>1, <2>1, <2>2, <2>3
<1>4. ASSUME NEW x \in Preferences \cup {None}
      PROVE  Reslotted(row, WithPreferred(row, s, x))
  <2> DEFINE new == [slot EXCEPT !.preferred = x]
  <2>1. WithPreferred(row, s, x) = Put(new)  BY DEF WithPreferred
  <2>2. new \in Slot /\ new.number = slot.number
    BY <1>0 DEF Slot
  <2>3. OtherFieldsStay(slot, new, "preferred")
    BY DEF OtherFieldsStay
  <2>. HIDE DEF new, slot, Put
  <2>. QED  BY <1>1, <2>1, <2>2, <2>3
<1>5. ASSUME NEW x \in Prices
      PROVE  Reslotted(row, WithPrice(row, s, x))
  <2> DEFINE new == [slot EXCEPT !.price = x]
  <2>1. WithPrice(row, s, x) = Put(new)  BY DEF WithPrice
  <2>2. new \in Slot /\ new.number = slot.number
    BY <1>0 DEF Slot
  <2>3. OtherFieldsStay(slot, new, "price")
    BY DEF OtherFieldsStay
  <2>. HIDE DEF new, slot, Put
  <2>. QED  BY <1>1, <2>1, <2>2, <2>3
<1>. QED  BY <1>2, <1>3, <1>4, <1>5

LEMMA AddedSlot ==
  ASSUME NEW row \in MachineRow, NEW s \in SlotIds, NEW slot \in Slot
  PROVE  /\ WithSlot(row, s, slot) \in MachineRow
         /\ WithSlot(row, s, slot).slots[s] = slot /\ slot # None
         /\ \A t \in SlotIds \ {s} : WithSlot(row, s, slot).slots[t] = row.slots[t]
         /\ s \notin SlotsOf(row) => OneEdit(row, WithSlot(row, s, slot))
<1> DEFINE new == WithSlot(row, s, slot)
<1>1. /\ new \in MachineRow
      /\ new.slots[s] = slot /\ slot # None
      /\ \A t \in SlotIds \ {s} : new.slots[t] = row.slots[t]
      /\ new.status = row.status /\ new.details = row.details
  BY NoneAssumption DEF MachineRow, WithSlot
<1>. HIDE DEF new
<1>2. s \notin SlotsOf(row) => OneEdit(row, new)
  BY <1>1, OneSlotAdded DEF OneEdit, OtherSlotsStay, SlotsOf
<1>. QED  BY <1>1, <1>2 DEF new

LEMMA NewSlotType ==
  ASSUME NEW n \in SlotNumbers, NEW c \in Capacities, NEW p \in Preferences \cup {None},
         NEW price \in Prices \cup {None}
  PROVE  NewSlot(n, c, p, price) \in Slot
BY DEF NewSlot, Slot, SlotStatuses

LEMMA WrittenTypes ==
  /\ \A local, base, stored \in OperatorRow : WrittenOperator(local, base, stored) \in OperatorRow
  /\ \A local, base, stored \in MachineRow : WrittenMachine(local, base, stored) \in MachineRow
<1>1. ASSUME NEW local \in OperatorRow, NEW base \in OperatorRow, NEW stored \in OperatorRow
      PROVE  WrittenOperator(local, base, stored) \in OperatorRow
  <2>1. \A c \in {"status", "role", "from"} : Written(local[c], base[c], stored[c]) \in {local[c], stored[c]}
    BY DEF Written
  <2>2. WrittenOperator(local, base, stored) =
          [status |-> Written(local.status, base.status, stored.status),
           role   |-> Written(local.role, base.role, stored.role),
           from   |-> Written(local.from, base.from, stored.from)]
    BY DEF WrittenOperator
  <2>. QED  BY <2>2 DEF OperatorRow, Written
<1>2. ASSUME NEW local \in MachineRow, NEW base \in MachineRow, NEW stored \in MachineRow
      PROVE  WrittenMachine(local, base, stored) \in MachineRow
  BY DEF WrittenMachine, MachineRow, Written
<1>. QED  BY <1>1, <1>2

----------------------------------------------------------------------------
(* The state is well typed, and transactions hold what their place needs *)

\* What the transaction of a session at a place holds; rows it edits exist.
Fits(place, t) ==
  /\ place = "idle" <=> t = None
  /\ t # None =>
       /\ place = "gate" => t.kind = "start"
       /\ place \in {"refresh", "flush"} => t.kind # "start"
       /\ place \in {"flush", "commit"} /\ t.kind # "start" => t.base # None
       /\ t.kind = "operator" => operators[t.id] # None
       /\ t.kind = "machine" => machines[t.id] # None

TypeInv == AccessTypeOK /\ \A w \in Sessions : Fits(pc[w], tx[w])

RowsTypeOK ==
  /\ now \in Times
  /\ operators \in [OperatorIds -> OperatorRow \cup {None}]
  /\ machines \in [MachineIds -> MachineRow \cup {None}]
  /\ assignments \in [OperatorIds -> [MachineIds -> [Times -> Assignment \cup {None}]]]
  /\ visits \subseteq Started

\* The kinds of transactions.
LEMMA Kinds ==
  ASSUME NEW t \in Transaction
  PROVE  /\ t # None
         /\ t.kind \in {"operator", "machine", "start"}
         /\ t.kind = "operator" => t \in Edit("operator", OperatorIds, OperatorRow)
         /\ t.kind = "machine" => t \in Edit("machine", MachineIds, MachineRow)
         /\ t.kind = "start" => t.visit \in Started /\ t.local \in OperatorRow
BY NoneAssumption DEF Transaction, Edit

LEMMA InitType == Init => TypeInv
<1> SUFFICES ASSUME Init PROVE TypeInv
  OBVIOUS
<1>. QED
  BY TimeAssumption DEF Init, TypeInv, AccessTypeOK, Fits, Times, Places

\* A step that moves one session on and leaves the rows alone.
LEMMA SessionType ==
  ASSUME TypeInv, NEW w \in Sessions, NEW place \in Places, NEW t \in Transaction \cup {None},
         pc' = [pc EXCEPT ![w] = place], tx' = [tx EXCEPT ![w] = t], UNCHANGED <<now, rows>>,
         Fits(place, t)
  PROVE  TypeInv'
<1>1. /\ pc' \in [Sessions -> Places] /\ tx' \in [Sessions -> Transaction \cup {None}]
      /\ \A u \in Sessions : pc'[u] = (IF u = w THEN place ELSE pc[u])
      /\ \A u \in Sessions : tx'[u] = (IF u = w THEN t ELSE tx[u])
  BY DEF TypeInv, AccessTypeOK
<1>2. \A u \in Sessions : Fits(pc'[u], tx'[u])
  BY <1>1 DEF TypeInv
<1>3. \A u \in Sessions : Fits(pc[u], tx[u])'
  BY <1>2 DEF Fits, rows
<1>. QED
  BY <1>1, <1>2, <1>3 DEF TypeInv, AccessTypeOK, rows, Fits

\* A step that writes rows and removes none.
LEMMA RowsType ==
  ASSUME TypeInv, RowsTypeOK',
         \A o \in OperatorIds : operators[o] # None => operators'[o] # None,
         \A m \in MachineIds : machines[m] # None => machines'[m] # None,
         UNCHANGED <<pc, tx>> \/ \E w \in Sessions : Finish(w)
  PROVE  TypeInv'
<1>1. /\ pc' \in [Sessions -> Places] /\ tx' \in [Sessions -> Transaction \cup {None}]
      /\ \A u \in Sessions : \/ pc'[u] = pc[u] /\ tx'[u] = tx[u]
                             \/ pc'[u] = "idle" /\ tx'[u] = None
  BY DEF TypeInv, AccessTypeOK, Finish, Goto, Places
<1>2. ASSUME NEW u \in Sessions PROVE Fits(pc[u], tx[u])'
  <2>1. CASE pc'[u] = "idle" /\ tx'[u] = None
    BY <2>1 DEF Fits
  <2>2. CASE pc'[u] = pc[u] /\ tx'[u] = tx[u]
    <3>1. Fits(pc[u], tx[u])  BY DEF TypeInv
    <3>2. CASE tx[u] = None  BY <2>2, <3>1, <3>2 DEF Fits
    <3>3. CASE tx[u] # None
      <4>1. /\ tx[u].kind = "operator" => tx[u].id \in OperatorIds
            /\ tx[u].kind = "machine" => tx[u].id \in MachineIds
        BY <3>3, Kinds DEF TypeInv, AccessTypeOK, Edit
      <4>. QED  BY <2>2, <3>1, <3>3, <4>1 DEF Fits
    <3>. QED  BY <3>2, <3>3
  <2>. QED  BY <1>1, <2>1, <2>2
<1>. QED
  BY <1>1, <1>2 DEF TypeInv, AccessTypeOK, RowsTypeOK, Fits

----------------------------------------------------------------------------
(* The kinds of steps *)

\* Rows are inserted or an assignment revoked by a session that holds no
\* transaction, or time passes; no row of an operator or a machine changes.
InsertsRows ==
  /\ RowsTypeOK'
  /\ \A o \in OperatorIds : operators[o] # None => operators'[o] = operators[o]
  /\ \A m \in MachineIds : machines[m] # None => machines'[m] = machines[m]
  /\ \A m \in MachineIds : machines[m] = None /\ machines'[m] # None => SlotsOf(machines'[m]) = {}
  /\ UNCHANGED <<visits, pc, tx>>
  /\ UNCHANGED assignments \/ \E w \in Sessions : pc[w] = "idle"

BeginsOperator(w, o, new) ==
  /\ EditOperator(w, o, new)
  /\ operators[o] # None
  /\ operators[o].status = "DISABLED" => new = operators[o]

\* The edited machine has its slots, and a fresh one under a new number.
Extends(m, s, new) ==
  /\ FreshSlot(m, s)
  /\ s \notin SlotsOf(machines[m])
  /\ new.slots[s] # None
  /\ new.slots[s].number \notin NumbersOf(machines[m])
  /\ \A t \in SlotIds \ {s} : new.slots[t] = machines[m].slots[t]

BeginsMachine(w, m, new) ==
  /\ EditMachine(w, m, new)
  /\ machines[m] # None
  /\ OneEdit(machines[m], new)
  /\ SameSlots(machines[m], new) \/ \E s \in SlotIds : Extends(m, s, new)

LEMMA InsertKinds ==
  ASSUME TypeInv, NEW w \in Sessions
  PROVE  /\ \A o \in OperatorIds, role \in Roles : ProvisionOperator(w, o, role) => InsertsRows
         /\ \A m \in MachineIds, d \in Details : CreateMachine(w, m, d) => InsertsRows
         /\ \A o \in OperatorIds, m \in MachineIds, f \in Times, t \in Times \cup {None} :
              AssignMachine(w, o, m, f, t) => InsertsRows
         /\ \A o \in OperatorIds, m \in MachineIds : RevokeAssignment(w, o, m) => InsertsRows
<1>. RowsTypeOK  BY DEF TypeInv, AccessTypeOK, RowsTypeOK
<1>1. ASSUME NEW o \in OperatorIds, NEW role \in Roles, ProvisionOperator(w, o, role)
      PROVE  InsertsRows
  <2>1. Provisioned(role, now) \in OperatorRow
    BY DEF Provisioned, OperatorRow, OperatorStatuses, RowsTypeOK
  <2>. QED  BY <1>1, <2>1 DEF ProvisionOperator, InsertsRows, RowsTypeOK
<1>2. ASSUME NEW m \in MachineIds, NEW d \in Details, CreateMachine(w, m, d)
      PROVE  InsertsRows
  <2>1. Created(d) \in MachineRow /\ SlotsOf(Created(d)) = {}
    BY DEF Created, MachineRow, MachineStatuses, SlotsOf
  <2>. QED  BY <1>2, <2>1 DEF CreateMachine, InsertsRows, RowsTypeOK
<1>3. ASSUME NEW o \in OperatorIds, NEW m \in MachineIds, NEW f \in Times,
             NEW t \in Times \cup {None}, AssignMachine(w, o, m, f, t)
      PROVE  InsertsRows
  <2>1. [until |-> t, status |-> "ACTIVE"] \in Assignment  BY DEF Assignment
  <2> DEFINE a == [until |-> t, status |-> "ACTIVE"]
             of == assignments[o]
             on == of[m]
  <2>2. assignments' = [assignments EXCEPT ![o] = [of EXCEPT ![m] = [on EXCEPT ![f] = a]]]
    BY <1>3 DEF AssignMachine
  <2>3. of \in [MachineIds -> [Times -> Assignment \cup {None}]] /\ on \in [Times -> Assignment \cup {None}]
    BY DEF RowsTypeOK
  <2>4. UNCHANGED <<now, operators, machines, visits, pc, tx>> /\ pc[w] = "idle"
    BY <1>3 DEF AssignMachine
  <2>. HIDE DEF a, of, on
  <2>5. [on EXCEPT ![f] = a] \in [Times -> Assignment \cup {None}]
    BY <2>1, <2>3 DEF a
  <2>6. [of EXCEPT ![m] = [on EXCEPT ![f] = a]] \in [MachineIds -> [Times -> Assignment \cup {None}]]
    BY <2>3, <2>5
  <2>. QED  BY <2>2, <2>4, <2>6 DEF InsertsRows, RowsTypeOK
<1>4. ASSUME NEW o \in OperatorIds, NEW m \in MachineIds, RevokeAssignment(w, o, m)
      PROVE  InsertsRows
  <2>1. PICK f \in FoundFrom(o, m) :
          assignments' = [assignments EXCEPT ![o][m][f].status = "REVOKED"]
    BY <1>4 DEF RevokeAssignment
  <2>2. f \in Times /\ assignments[o][m][f] # None  BY DEF FoundFrom, ActiveFrom
  <2> DEFINE of == assignments[o]
             on == of[m]
             a == [on[f] EXCEPT !.status = "REVOKED"]
  <2>3. assignments' = [assignments EXCEPT ![o] = [of EXCEPT ![m] = [on EXCEPT ![f] = a]]]
    BY <2>1
  <2>4. of \in [MachineIds -> [Times -> Assignment \cup {None}]] /\ on \in [Times -> Assignment \cup {None}]
    BY DEF RowsTypeOK
  <2>5. on[f] \in Assignment  BY <2>2, <2>4
  <2>6. a \in Assignment  BY <2>5 DEF Assignment
  <2>7. UNCHANGED <<now, operators, machines, visits, pc, tx>> /\ pc[w] = "idle"
    BY <1>4 DEF RevokeAssignment
  <2>. HIDE DEF a, of, on
  <2>8. [on EXCEPT ![f] = a] \in [Times -> Assignment \cup {None}]
    BY <2>4, <2>6
  <2>9. [of EXCEPT ![m] = [on EXCEPT ![f] = a]] \in [MachineIds -> [Times -> Assignment \cup {None}]]
    BY <2>4, <2>8
  <2>. QED  BY <2>3, <2>7, <2>9 DEF InsertsRows, RowsTypeOK
<1>. QED  BY <1>1, <1>2, <1>3, <1>4

LEMMA IdleKinds ==
  ASSUME TypeInv, Tick \/ UNCHANGED vars
  PROVE  InsertsRows
<1>. RowsTypeOK  BY DEF TypeInv, AccessTypeOK, RowsTypeOK
<1>1. CASE Tick
  <2>1. now' \in Times  BY <1>1, TimeAssumption DEF Tick, Times, RowsTypeOK
  <2>. QED  BY <1>1, <2>1 DEF Tick, rows, InsertsRows, RowsTypeOK
<1>2. CASE UNCHANGED vars
  BY <1>2 DEF vars, InsertsRows, RowsTypeOK
<1>. QED  BY <1>1, <1>2

LEMMA OperatorKinds ==
  ASSUME TypeInv, NEW w \in Sessions, NEW o \in OperatorIds,
         \/ ActivateOperator(w, o) \/ SuspendOperator(w, o) \/ DisableOperator(w, o)
         \/ \E role \in Roles : AssignOperatorRole(w, o, role)
  PROVE  \E new \in OperatorRow : BeginsOperator(w, o, new)
<1>1. operators[o] \in OperatorRow
  BY DEF TypeInv, AccessTypeOK, ActivateOperator, SuspendOperator, DisableOperator, AssignOperatorRole
<1>2. CASE ActivateOperator(w, o)
  BY <1>1, <1>2, OperatorTypes DEF ActivateOperator, CanActivate, BeginsOperator
<1>3. CASE SuspendOperator(w, o)
  BY <1>1, <1>3, OperatorTypes DEF SuspendOperator, CanSuspend, BeginsOperator
<1>4. CASE DisableOperator(w, o)
  BY <1>1, <1>4, OperatorTypes DEF DisableOperator, BeginsOperator
<1>5. ASSUME NEW role \in Roles, AssignOperatorRole(w, o, role)
      PROVE  \E new \in OperatorRow : BeginsOperator(w, o, new)
  BY <1>1, <1>5, OperatorTypes DEF AssignOperatorRole, CanAssignRole, BeginsOperator
<1>. QED  BY <1>2, <1>3, <1>4, <1>5

LEMMA MachineKinds ==
  ASSUME TypeInv, NEW w \in Sessions, NEW m \in MachineIds, Configure(w, m)
  PROVE  \E new \in MachineRow : BeginsMachine(w, m, new)
<1> DEFINE row == machines[m]
           Goal == \E new \in MachineRow : BeginsMachine(w, m, new)
<1>. SUFFICES Goal
  OBVIOUS
<1>0. Managed(m) => row \in MachineRow
  BY DEF Managed, TypeInv, AccessTypeOK
<1>1. ASSUME NEW status \in MachineStatuses, MoveMachine(w, m, status) PROVE Goal
  <2>1. Managed(m)  BY <1>1 DEF MoveMachine
  <2>. QED  BY <1>0, <1>1, <2>1, MachineTypes DEF MoveMachine, BeginsMachine, Managed
<1>2. ASSUME NEW d \in Details, UpdateMachine(w, m, d) PROVE Goal
  <2>1. Managed(m)  BY <1>2 DEF UpdateMachine
  <2>. QED  BY <1>0, <1>2, <2>1, MachineTypes DEF UpdateMachine, BeginsMachine, Managed
<1>3. ASSUME NEW s \in SlotIds, NEW n \in SlotNumbers, NEW c \in Capacities,
             NEW p \in Preferences \cup {None}, NEW price \in Prices \cup {None},
             AddMachineSlot(w, m, s, NewSlot(n, c, p, price))
      PROVE  Goal
  <2> DEFINE slot == NewSlot(n, c, p, price)
             new == WithSlot(row, s, slot)
  <2>1. Managed(m) /\ FreshSlot(m, s) /\ CanAddSlot(row, s, slot) /\ EditMachine(w, m, new)
    BY <1>3 DEF AddMachineSlot
  <2>2. slot \in Slot  BY NewSlotType
  <2>. HIDE DEF slot
  <2>3. /\ new \in MachineRow /\ new.slots[s] = slot /\ slot # None
        /\ \A t \in SlotIds \ {s} : new.slots[t] = row.slots[t]
        /\ OneEdit(row, new)
    BY <1>0, <2>1, <2>2, AddedSlot DEF CanAddSlot
  <2>. HIDE DEF new
  <2>4. Extends(m, s, new)
    BY <2>1, <2>3 DEF Extends, CanAddSlot
  <2>. QED  BY <2>1, <2>3, <2>4 DEF BeginsMachine, Managed
<1>4. ASSUME NEW s \in SlotIds, NEW new, EditSlot(w, m, s, new),
             row \in MachineRow /\ s \in SlotsOf(row) => Reslotted(row, new)
      PROVE  Goal
  BY <1>0, <1>4 DEF EditSlot, BeginsMachine, Managed, Reslotted
<1>5. ASSUME NEW s \in SlotIds, NEW x \in SlotStatuses, SetSlotStatus(w, m, s, x) PROVE Goal
  BY <1>4, <1>5, SlotTypes DEF SetSlotStatus
<1>6. ASSUME NEW s \in SlotIds, NEW x \in Capacities, ChangeSlotCapacity(w, m, s, x) PROVE Goal
  BY <1>4, <1>6, SlotTypes DEF ChangeSlotCapacity
<1>7. ASSUME NEW s \in SlotIds, NEW x \in Preferences \cup {None}, SetPreferredProduct(w, m, s, x)
      PROVE  Goal
  BY <1>4, <1>7, SlotTypes DEF SetPreferredProduct
<1>8. ASSUME NEW s \in SlotIds, NEW x \in Prices, SetSlotSellingPrice(w, m, s, x) PROVE Goal
  BY <1>4, <1>8, SlotTypes DEF SetSlotSellingPrice
<1>9. CASE ActivateMachine(w, m) \/ DeactivateMachine(w, m) \/ PutMachineInMaintenance(w, m)
  BY <1>1, <1>9 DEF ActivateMachine, DeactivateMachine, PutMachineInMaintenance, MachineStatuses
<1>. HIDE DEF Goal
<1>. QED
  BY <1>2, <1>3, <1>5, <1>6, <1>7, <1>8, <1>9 DEF Configure

\* Whatever a session does that inserts no row.
SessionStep(w) ==
  \/ \E o \in OperatorIds, new \in OperatorRow : BeginsOperator(w, o, new)
  \/ \E m \in MachineIds, new \in MachineRow : BeginsMachine(w, m, new)
  \/ \E visit \in Started : BeginStart(w, visit)
  \/ \E o \in OperatorIds : RefreshOperator(w, o)
  \/ \E m \in MachineIds : RefreshMachine(w, m)
  \/ Flush(w)
  \/ EnsureCanOperate(w)
  \/ Rollback(w)
  \/ \E o \in OperatorIds : CommitOperator(w, o)
  \/ \E m \in MachineIds : CommitMachine(w, m)
  \/ CommitStart(w)

LEMMA KindsOfSteps ==
  ASSUME TypeInv, [Next]_vars
  PROVE  InsertsRows \/ \E w \in Sessions : SessionStep(w)
<1>1. CASE Tick \/ UNCHANGED vars
  BY <1>1, IdleKinds
<1>2. ASSUME NEW w \in Sessions, Administer(w)
      PROVE  InsertsRows \/ SessionStep(w)
  BY <1>2, InsertKinds, OperatorKinds DEF Administer, SessionStep
<1>3. ASSUME NEW w \in Sessions, NEW m \in MachineIds, Configure(w, m)
      PROVE  SessionStep(w)
  BY <1>3, MachineKinds DEF SessionStep
<1>4. ASSUME NEW w \in Sessions, Save(w) \/ Start(w) \/ Crash(w)
      PROVE  SessionStep(w)
  BY <1>4 DEF Save, Start, Crash, DuplicateNumber, DenyAccess, SessionStep
<1>. QED  BY <1>1, <1>2, <1>3, <1>4 DEF Next

LEMMA SessionStepType ==
  ASSUME TypeInv, NEW w \in Sessions, SessionStep(w)
  PROVE  TypeInv'
<1>. /\ pc \in [Sessions -> Places] /\ tx \in [Sessions -> Transaction \cup {None}]
     /\ Fits(pc[w], tx[w]) /\ RowsTypeOK
  BY DEF TypeInv, AccessTypeOK, RowsTypeOK
<1>1. ASSUME NEW o \in OperatorIds, NEW new \in OperatorRow, BeginsOperator(w, o, new)
      PROVE  TypeInv'
  <2> DEFINE t == [kind |-> "operator", id |-> o, local |-> new, base |-> None]
  <2>1. t \in Transaction  BY DEF Transaction, Edit
  <2>2. Fits("refresh", t)  BY <1>1, <2>1, Kinds DEF BeginsOperator, Fits
  <2>3. Begin(w, t, "refresh")  BY <1>1 DEF BeginsOperator, EditOperator
  <2>. HIDE DEF t
  <2>. QED  BY <2>1, <2>2, <2>3, SessionType DEF Begin, Goto, Places
<1>2. ASSUME NEW m \in MachineIds, NEW new \in MachineRow, BeginsMachine(w, m, new)
      PROVE  TypeInv'
  <2> DEFINE t == [kind |-> "machine", id |-> m, local |-> new, base |-> None]
  <2>1. t \in Transaction  BY DEF Transaction, Edit
  <2>2. Fits("refresh", t)  BY <1>2, <2>1, Kinds DEF BeginsMachine, Fits
  <2>3. Begin(w, t, "refresh")  BY <1>2 DEF BeginsMachine, EditMachine
  <2>. HIDE DEF t
  <2>. QED  BY <2>1, <2>2, <2>3, SessionType DEF Begin, Goto, Places
<1>3. ASSUME NEW visit \in Started, BeginStart(w, visit)
      PROVE  TypeInv'
  <2> DEFINE t == [kind |-> "start", visit |-> visit, local |-> operators[visit.operator]]
  <2>1. operators[visit.operator] \in OperatorRow
    BY <1>3 DEF BeginStart, Started, RowsTypeOK
  <2>2. t \in Transaction  BY <2>1 DEF Transaction
  <2>3. Fits("gate", t)  BY <2>2, Kinds DEF Fits
  <2>4. Begin(w, t, "gate")  BY <1>3 DEF BeginStart
  <2>. HIDE DEF t
  <2>. QED  BY <2>2, <2>3, <2>4, SessionType DEF Begin, Goto, Places
<1>4. ASSUME NEW o \in OperatorIds, RefreshOperator(w, o)
      PROVE  TypeInv'
  <2> DEFINE t == [tx[w] EXCEPT !.base = operators[o]]
  <2>1. tx[w] \in Edit("operator", OperatorIds, OperatorRow) /\ tx[w].id = o
    BY <1>4, Kinds DEF RefreshOperator, Editing
  <2>2. operators[o] # None /\ operators[o] \in OperatorRow
    BY <2>1, Kinds DEF Fits, RowsTypeOK, Edit, Transaction
  <2>3. t \in Edit("operator", OperatorIds, OperatorRow) /\ t.base = operators[o] /\ t.id = o
    BY <2>1, <2>2 DEF Edit
  <2>4. tx' = [tx EXCEPT ![w] = t] /\ pc' = [pc EXCEPT ![w] = "flush"] /\ UNCHANGED <<now, rows>>
    BY <1>4 DEF RefreshOperator, Goto
  <2>. HIDE DEF t
  <2>5. t \in Transaction /\ t.kind = "operator"  BY <2>3 DEF Transaction, Edit
  <2>6. Fits("flush", t)  BY <2>2, <2>3, <2>5, Kinds DEF Fits
  <2>. QED  BY <2>4, <2>5, <2>6, SessionType DEF Places
<1>5. ASSUME NEW m \in MachineIds, RefreshMachine(w, m)
      PROVE  TypeInv'
  <2> DEFINE t == [tx[w] EXCEPT !.base = machines[m]]
  <2>1. tx[w] \in Edit("machine", MachineIds, MachineRow) /\ tx[w].id = m
    BY <1>5, Kinds DEF RefreshMachine, Editing
  <2>2. machines[m] # None /\ machines[m] \in MachineRow
    BY <2>1, Kinds DEF Fits, RowsTypeOK, Edit, Transaction
  <2>3. t \in Edit("machine", MachineIds, MachineRow) /\ t.base = machines[m] /\ t.id = m
    BY <2>1, <2>2 DEF Edit
  <2>4. tx' = [tx EXCEPT ![w] = t] /\ pc' = [pc EXCEPT ![w] = "flush"] /\ UNCHANGED <<now, rows>>
    BY <1>5 DEF RefreshMachine, Goto
  <2>. HIDE DEF t
  <2>5. t \in Transaction /\ t.kind = "machine"  BY <2>3 DEF Transaction, Edit
  <2>6. Fits("flush", t)  BY <2>2, <2>3, <2>5, Kinds DEF Fits
  <2>. QED  BY <2>4, <2>5, <2>6, SessionType DEF Places
<1>6. CASE Flush(w) \/ EnsureCanOperate(w)
  <2>1. /\ pc[w] \in {"flush", "gate"} /\ pc' = [pc EXCEPT ![w] = "commit"]
        /\ tx' = [tx EXCEPT ![w] = tx[w]] /\ UNCHANGED <<now, rows>>
    BY <1>6 DEF Flush, EnsureCanOperate, Goto
  <2>2. Fits("commit", tx[w])  BY <2>1 DEF Fits
  <2>. QED  BY <2>1, <2>2, SessionType DEF Places
<1>7. CASE Rollback(w)
  <2>1. Fits("idle", None)  BY DEF Fits
  <2>. QED  BY <1>7, <2>1, SessionType DEF Rollback, Goto, Places
<1>8. ASSUME NEW o \in OperatorIds, CommitOperator(w, o)
      PROVE  TypeInv'
  <2>1. /\ tx[w] \in Edit("operator", OperatorIds, OperatorRow) /\ tx[w].id = o
        /\ tx[w].kind = "operator" /\ pc[w] = "commit"
    BY <1>8, Kinds DEF CommitOperator, Editing
  <2>2. tx[w].local \in OperatorRow /\ tx[w].base \in OperatorRow /\ operators[o] \in OperatorRow
    BY <2>1, Kinds DEF Fits, RowsTypeOK, Edit, Transaction
  <2>3. WrittenOperator(tx[w].local, tx[w].base, operators[o]) \in OperatorRow
    BY <2>2, WrittenTypes
  <2>. QED  BY <1>8, <2>3, RowsType, NoneAssumption DEF CommitOperator, RowsTypeOK
<1>9. ASSUME NEW m \in MachineIds, CommitMachine(w, m)
      PROVE  TypeInv'
  <2>1. /\ tx[w] \in Edit("machine", MachineIds, MachineRow) /\ tx[w].id = m
        /\ tx[w].kind = "machine" /\ pc[w] = "commit"
    BY <1>9, Kinds DEF CommitMachine, Editing
  <2>2. tx[w].local \in MachineRow /\ tx[w].base \in MachineRow /\ machines[m] \in MachineRow
    BY <2>1, Kinds DEF Fits, RowsTypeOK, Edit, Transaction
  <2>3. WrittenMachine(tx[w].local, tx[w].base, machines[m]) \in MachineRow
    BY <2>2, WrittenTypes
  <2>. QED  BY <1>9, <2>3, RowsType, NoneAssumption DEF CommitMachine, RowsTypeOK
<1>10. CASE CommitStart(w)
  <2>1. tx[w] \in Transaction /\ tx[w].visit \in Started
    BY <1>10, Kinds DEF CommitStart, Fits
  <2>. QED  BY <1>10, <2>1, RowsType DEF CommitStart, RowsTypeOK
<1>. QED
  BY <1>1, <1>2, <1>3, <1>4, <1>5, <1>6, <1>7, <1>8, <1>9, <1>10 DEF SessionStep

LEMMA TypeInvariance == Spec => []TypeInv
<1>1. ASSUME TypeInv, [Next]_vars PROVE TypeInv'
  <2>1. CASE InsertsRows
    BY <1>1, <2>1, RowsType DEF InsertsRows, TypeInv
  <2>. QED  BY <1>1, <2>1, KindsOfSteps, SessionStepType
<1>. QED  BY <1>1, InitType, PTL DEF Spec

\* The rows, the clock and the open transactions keep their types, however many
\* sessions administer operators and machines.
THEOREM AccessTypeCorrectness == Spec => []AccessTypeOK
<1>1. TypeInv => AccessTypeOK  BY DEF TypeInv
<1>. QED  BY <1>1, TypeInvariance, PTL

----------------------------------------------------------------------------
(* Slot numbers, for any number of sessions.  A save may drop a slot that   *)
(* another session has added since and write over what it did not read, so *)
(* the argument follows the copies: all copies of a slot have one number,  *)
(* no copy of a machine has two slots of one number, and what a flush has  *)
(* checked against the stored slots stays true until its commit.           *)

Edits(w, m) == tx[w] # None /\ tx[w].kind = "machine" /\ tx[w].id = m

UniqueNumbers(row) ==
  \A s, t \in SlotsOf(row) : row.slots[s].number = row.slots[t].number => s = t

Agree(a, b) == \A s \in SlotsOf(a) \cap SlotsOf(b) : a.slots[s].number = b.slots[s].number

CopiesAgree ==
  \A m \in MachineIds, w \in Sessions : Edits(w, m) =>
    /\ UniqueNumbers(tx[w].local)
    /\ Agree(tx[w].local, machines[m])
    /\ \A u \in Sessions : Edits(u, m) => Agree(tx[w].local, tx[u].local)

OneWriter ==
  \A m \in MachineIds, w, u \in Sessions :
    /\ Edits(w, m) /\ pc[w] = "commit"
    /\ Edits(u, m) /\ pc[u] = "commit"
    => w = u

FlushedStaysFree ==
  \A m \in MachineIds, w \in Sessions : Edits(w, m) /\ pc[w] = "commit" => ~NumberTaken(w)

SlotsInv == SlotNumbersAreUnique /\ CopiesAgree /\ OneWriter /\ FlushedStaysFree

LEMMA InitSlots == Init => SlotsInv
BY DEF Init, SlotsInv, SlotNumbersAreUnique, CopiesAgree, OneWriter, FlushedStaysFree, Edits

\* What an open edit of a machine is made of.
LEMMA EditTypes ==
  ASSUME TypeInv, NEW w \in Sessions, NEW m \in MachineIds, Edits(w, m)
  PROVE  /\ tx[w].local \in MachineRow
         /\ machines[m] \in MachineRow
         /\ pc[w] \in {"refresh", "flush", "commit"}
         /\ pc[w] # "refresh" => tx[w].base \in MachineRow
<1>1. tx[w] \in Edit("machine", MachineIds, MachineRow) /\ Fits(pc[w], tx[w]) /\ pc[w] \in Places
  BY Kinds DEF TypeInv, AccessTypeOK, Edits
<1>2. machines[m] # None  BY <1>1 DEF Edits, Fits
<1>. QED
  BY <1>1, <1>2 DEF Edits, Fits, Places, Edit, TypeInv, AccessTypeOK

LEMMA SameNumberTaken ==
  ASSUME NEW w, UNCHANGED machines, tx'[w].kind = tx[w].kind, tx'[w].id = tx[w].id,
         tx'[w].local = tx[w].local, tx'[w].base = tx[w].base
  PROVE  NumberTaken(w)' <=> NumberTaken(w)
BY DEF NumberTaken

\* Nothing about slots changes when machines stay, and every session keeps the
\* machine it edits and is at its commit only if it was, or edits nothing.
LEMMA QuietSlots ==
  ASSUME TypeInv, SlotsInv, UNCHANGED machines,
         \A u \in Sessions, m \in MachineIds : Edits(u, m)' =>
            /\ Edits(u, m) /\ tx'[u].local = tx[u].local
            /\ pc'[u] = "commit" => pc[u] = "commit" /\ tx'[u].base = tx[u].base
  PROVE  SlotsInv'
<1>1. SlotNumbersAreUnique'  BY DEF SlotsInv, SlotNumbersAreUnique
<1>2. CopiesAgree'
  BY DEF SlotsInv, CopiesAgree
<1>3. OneWriter'  BY DEF SlotsInv, OneWriter
<1>4. ASSUME NEW m \in MachineIds, NEW w \in Sessions, Edits(w, m)', pc'[w] = "commit"
      PROVE  ~NumberTaken(w)'
  <2>1. Edits(w, m) /\ pc[w] = "commit" /\ ~NumberTaken(w)
    BY <1>4 DEF SlotsInv, FlushedStaysFree
  <2>2. /\ tx'[w].kind = tx[w].kind /\ tx'[w].id = tx[w].id
        /\ tx'[w].local = tx[w].local /\ tx'[w].base = tx[w].base
    BY <1>4, <2>1 DEF Edits
  <2>. QED  BY <2>1, <2>2, SameNumberTaken
<1>5. FlushedStaysFree'  BY <1>4 DEF FlushedStaysFree
<1>. QED  BY <1>1, <1>2, <1>3, <1>5 DEF SlotsInv

LEMMA SameAgree ==
  ASSUME NEW old, NEW new, SameSlots(old, new)
  PROVE  /\ UniqueNumbers(old) => UniqueNumbers(new)
         /\ \A row : Agree(row, old) => Agree(row, new)
         /\ \A row : Agree(old, row) => Agree(new, row)
BY DEF SameSlots, UniqueNumbers, Agree, SlotsOf

\* A request that begins with a copy of the stored machine, perhaps with one
\* fresh slot more.
LEMMA BeginSlots ==
  ASSUME TypeInv, SlotsInv, NEW w \in Sessions, NEW m \in MachineIds, NEW new \in MachineRow,
         BeginsMachine(w, m, new)
  PROVE  SlotsInv'
<1> DEFINE t == [kind |-> "machine", id |-> m, local |-> new, base |-> None]
<1>1. /\ pc[w] = "idle" /\ pc' = [pc EXCEPT ![w] = "refresh"] /\ tx' = [tx EXCEPT ![w] = t]
      /\ UNCHANGED machines /\ machines[m] # None
  BY DEF BeginsMachine, EditMachine, Begin, Goto, rows
<1>2. /\ pc'[w] = "refresh" /\ tx'[w] = t
      /\ \A u \in Sessions \ {w} : pc'[u] = pc[u] /\ tx'[u] = tx[u]
  BY <1>1 DEF TypeInv, AccessTypeOK
<1>3. t.local = new /\ t.id = m /\ t.kind = "machine"
  OBVIOUS
<1>. HIDE DEF t
<1>4. \A u \in Sessions, n \in MachineIds : Edits(u, n)' =>
         \/ u = w /\ n = m /\ tx'[u].local = new
         \/ u # w /\ Edits(u, n) /\ tx'[u].local = tx[u].local
  BY <1>2, <1>3 DEF Edits
<1>5. machines[m] \in MachineRow /\ UniqueNumbers(machines[m])
  BY <1>1 DEF TypeInv, AccessTypeOK, SlotsInv, SlotNumbersAreUnique, UniqueNumbers
<1>6. /\ UniqueNumbers(new) /\ Agree(new, machines[m]) /\ Agree(new, new)
      /\ \A u \in Sessions : Edits(u, m) => Agree(new, tx[u].local) /\ Agree(tx[u].local, new)
  <2>1. Agree(machines[m], machines[m])  BY DEF Agree
  <2>2. \A u \in Sessions : Edits(u, m) =>
           Agree(tx[u].local, machines[m]) /\ Agree(machines[m], tx[u].local)
    BY DEF SlotsInv, CopiesAgree, Agree
  <2>3. CASE SameSlots(machines[m], new)
    BY <1>5, <2>1, <2>2, <2>3, SameAgree DEF Agree
  <2>4. ASSUME NEW s \in SlotIds, Extends(m, s, new)
        PROVE  /\ UniqueNumbers(new) /\ Agree(new, machines[m])
               /\ \A u \in Sessions : Edits(u, m) => Agree(new, tx[u].local)
    <3>1. SlotsOf(new) = SlotsOf(machines[m]) \cup {s}
      BY <2>4 DEF Extends, SlotsOf
    <3>2. \A r \in SlotsOf(machines[m]) :
            /\ new.slots[r] = machines[m].slots[r]
            /\ new.slots[s].number # machines[m].slots[r].number
      BY <2>4 DEF Extends, SlotsOf, NumbersOf
    <3>3. UniqueNumbers(new)
      BY <1>5, <3>1, <3>2 DEF UniqueNumbers
    <3>4. Agree(new, machines[m])
      BY <2>4, <3>1, <3>2 DEF Agree, Extends
    <3>5. ASSUME NEW u \in Sessions, Edits(u, m) PROVE Agree(new, tx[u].local)
      <4>1. s \notin SlotsOf(tx[u].local)
        BY <2>4, <3>5 DEF Extends, FreshSlot, Edits, SlotsOf
      <4>. QED  BY <2>2, <3>1, <3>2, <3>5, <4>1 DEF Agree
    <3>. QED  BY <3>3, <3>4, <3>5
  <2>5. Agree(new, new)  BY DEF Agree
  <2>. QED  BY <2>3, <2>4, <2>5 DEF BeginsMachine, Agree
<1>7. SlotNumbersAreUnique'  BY <1>1 DEF SlotsInv, SlotNumbersAreUnique
<1>8. CopiesAgree'
  BY <1>1, <1>4, <1>6 DEF SlotsInv, CopiesAgree
<1>9. OneWriter'
  BY <1>2, <1>4 DEF SlotsInv, OneWriter
<1>10. FlushedStaysFree'
  <2>1. \A u \in Sessions \ {w}, n \in MachineIds :
          Edits(u, n) /\ pc[u] = "commit" => NumberTaken(u)' = NumberTaken(u)
    BY <1>1, <1>2 DEF NumberTaken
  <2>. QED  BY <1>2, <1>4, <2>1 DEF SlotsInv, FlushedStaysFree
<1>. QED  BY <1>7, <1>8, <1>9, <1>10 DEF SlotsInv

\* A flush waits while another session is at the commit of the same machine,
\* and has compared the new slots with the stored ones.
LEMMA FlushSlots ==
  ASSUME TypeInv, SlotsInv, NEW w \in Sessions, Flush(w)
  PROVE  SlotsInv'
<1>1. /\ pc' = [pc EXCEPT ![w] = "commit"] /\ UNCHANGED <<machines, tx>>
      /\ RowFree(w) /\ ~NumberTaken(w)
  BY DEF Flush, Goto, rows
<1>2. \A u \in Sessions, m \in MachineIds : Edits(u, m)' <=> Edits(u, m)
  BY <1>1 DEF Edits
<1>3. SlotNumbersAreUnique'  BY <1>1 DEF SlotsInv, SlotNumbersAreUnique
<1>4. CopiesAgree'  BY <1>1, <1>2 DEF SlotsInv, CopiesAgree
<1>5. \A u \in Sessions : pc'[u] = "commit" <=> u = w \/ pc[u] = "commit"
  BY <1>1 DEF TypeInv, AccessTypeOK
<1>6. OneWriter'
  <2>1. \A m \in MachineIds, u \in Sessions \ {w} : Edits(w, m) /\ Edits(u, m) => pc[u] # "commit"
    BY <1>1 DEF RowFree, SameRow, Edits
  <2>. QED  BY <1>2, <1>5, <2>1 DEF SlotsInv, OneWriter
<1>7. FlushedStaysFree'
  <2>1. \A u \in Sessions : NumberTaken(u)' = NumberTaken(u)  BY <1>1 DEF NumberTaken
  <2>. QED  BY <1>1, <1>2, <1>5, <2>1 DEF SlotsInv, FlushedStaysFree
<1>. QED  BY <1>3, <1>4, <1>6, <1>7 DEF SlotsInv

\* A commit writes, slot by slot, what the session holds or what is stored.
LEMMA CommitSlots ==
  ASSUME TypeInv, SlotsInv, NEW w \in Sessions, NEW m \in MachineIds, CommitMachine(w, m)
  PROVE  SlotsInv'
<1> DEFINE local == tx[w].local
           base == tx[w].base
           stored == machines[m]
           after == WrittenMachine(local, base, stored)
<1>1. Edits(w, m) /\ pc[w] = "commit"  BY DEF CommitMachine, Editing, Edits
<1>2. /\ local \in MachineRow /\ base \in MachineRow /\ stored \in MachineRow
  BY <1>1, EditTypes
<1>3. /\ machines' = [machines EXCEPT ![m] = after]
      /\ pc' = [pc EXCEPT ![w] = "idle"] /\ tx' = [tx EXCEPT ![w] = None]
  BY DEF CommitMachine, Finish, Goto
<1>4. /\ after.slots \in [SlotIds -> Slot \cup {None}]
      /\ \A s \in SlotIds : after.slots[s] = IF local.slots[s] # base.slots[s] THEN local.slots[s]
                                             ELSE stored.slots[s]
  <2>1. after \in MachineRow  BY <1>2, WrittenTypes
  <2>. QED  BY <2>1 DEF WrittenMachine, Written, MachineRow
<1>5. /\ machines'[m] = after /\ \A n \in MachineIds \ {m} : machines'[n] = machines[n]
      /\ pc'[w] = "idle" /\ tx'[w] = None
      /\ \A u \in Sessions \ {w} : pc'[u] = pc[u] /\ tx'[u] = tx[u]
  BY <1>3 DEF TypeInv, AccessTypeOK
<1>6. /\ UniqueNumbers(local) /\ UniqueNumbers(stored) /\ Agree(local, stored)
      /\ \A u \in Sessions : Edits(u, m) =>
           Agree(tx[u].local, local) /\ Agree(tx[u].local, stored)
  BY <1>1, <1>2, NoneAssumption
  DEF SlotsInv, CopiesAgree, SlotNumbersAreUnique, UniqueNumbers
<1>7. ~NumberTaken(w)  BY <1>1 DEF SlotsInv, FlushedStaysFree
<1>8. \A s \in SlotsOf(stored) \ SlotsOf(base), t \in SlotsOf(local) :
        stored.slots[s].number = local.slots[t].number => s = t
  BY <1>1, <1>7 DEF NumberTaken, Edits
<1>. HIDE DEF local, base, stored, after
<1>9. \A s \in SlotsOf(after) :
        \/ s \in SlotsOf(local) /\ after.slots[s] = local.slots[s]
        \/ s \in SlotsOf(stored) /\ after.slots[s] = stored.slots[s] /\ local.slots[s] = base.slots[s]
  BY <1>4 DEF SlotsOf
<1>10. UniqueNumbers(after)
  <2>1. ASSUME NEW s \in SlotsOf(stored), local.slots[s] = base.slots[s],
               NEW t \in SlotsOf(local), stored.slots[s].number = local.slots[t].number
        PROVE  s = t
    <3>1. CASE s \in SlotsOf(base)
      <4>1. s \in SlotsOf(local)  BY <2>1, <3>1 DEF SlotsOf
      <4>2. local.slots[s].number = stored.slots[s].number  BY <1>6, <4>1 DEF Agree
      <4>. QED  BY <1>6, <2>1, <4>1, <4>2 DEF UniqueNumbers
    <3>2. CASE s \notin SlotsOf(base)
      BY <1>8, <2>1, <3>2
    <3>. QED  BY <3>1, <3>2
  <2>. QED  BY <1>6, <1>9, <2>1 DEF UniqueNumbers
<1>11. SlotNumbersAreUnique'
  BY <1>5, <1>10 DEF SlotsInv, SlotNumbersAreUnique, UniqueNumbers
<1>12. \A u \in Sessions, n \in MachineIds : Edits(u, n)' =>
          u # w /\ Edits(u, n) /\ tx'[u] = tx[u] /\ pc'[u] = pc[u]
  BY <1>5 DEF Edits
<1>13. CopiesAgree'
  <2>1. \A u \in Sessions : Edits(u, m) => Agree(tx[u].local, after)
    BY <1>6, <1>9 DEF Agree
  <2>. QED  BY <1>5, <1>12, <2>1 DEF SlotsInv, CopiesAgree
<1>14. OneWriter'  BY <1>12 DEF SlotsInv, OneWriter
<1>15. FlushedStaysFree'
  <2>1. ASSUME NEW u \in Sessions, NEW n \in MachineIds, Edits(u, n)', pc'[u] = "commit"
        PROVE  ~NumberTaken(u)'
    <3>1. n # m  BY <1>1, <1>12, <2>1 DEF SlotsInv, OneWriter
    <3>2. machines'[n] = machines[n]  BY <1>5, <3>1
    <3>3. tx'[u] = tx[u] /\ tx[u].id = n /\ pc[u] = "commit"  BY <1>12, <2>1 DEF Edits
    <3>4. NumberTaken(u)' = NumberTaken(u)  BY <3>2, <3>3 DEF NumberTaken
    <3>. QED  BY <1>12, <2>1, <3>3, <3>4 DEF SlotsInv, FlushedStaysFree
  <2>. QED  BY <2>1 DEF FlushedStaysFree
<1>. QED  BY <1>11, <1>13, <1>14, <1>15 DEF SlotsInv

\* A machine that is created has no slots, and no transaction edits it yet.
LEMMA InsertSlots ==
  ASSUME TypeInv, SlotsInv, InsertsRows
  PROVE  SlotsInv'
<1>1. /\ UNCHANGED <<pc, tx>>
      /\ \A m \in MachineIds : machines[m] # None => machines'[m] = machines[m]
      /\ \A m \in MachineIds : machines[m] = None /\ machines'[m] # None => SlotsOf(machines'[m]) = {}
  BY DEF InsertsRows
<1>2. SlotNumbersAreUnique'
  BY <1>1 DEF SlotsInv, SlotNumbersAreUnique
<1>3. \A w \in Sessions, m \in MachineIds : Edits(w, m)' =>
         /\ Edits(w, m) /\ machines'[m] = machines[m] /\ tx[w].kind = "machine" /\ tx[w].id = m
  BY <1>1 DEF Edits, TypeInv, Fits
<1>4. CopiesAgree'  BY <1>1, <1>3 DEF SlotsInv, CopiesAgree
<1>5. OneWriter'  BY <1>1, <1>3 DEF SlotsInv, OneWriter
<1>6. FlushedStaysFree'
  <2>1. \A w \in Sessions, m \in MachineIds : Edits(w, m)' => NumberTaken(w)' = NumberTaken(w)
    BY <1>1, <1>3 DEF NumberTaken
  <2>. QED  BY <1>1, <1>3, <2>1 DEF SlotsInv, FlushedStaysFree
<1>. QED  BY <1>2, <1>4, <1>5, <1>6 DEF SlotsInv

LEMMA SessionStepSlots ==
  ASSUME TypeInv, SlotsInv, NEW w \in Sessions, SessionStep(w)
  PROVE  SlotsInv'
<1>. pc \in [Sessions -> Places] /\ tx \in [Sessions -> Transaction \cup {None}]
  BY DEF TypeInv, AccessTypeOK
<1>1. ASSUME UNCHANGED machines,
             NEW place \in Places, NEW t, pc' = [pc EXCEPT ![w] = place], tx' = [tx EXCEPT ![w] = t],
             \/ t = None
             \/ t # None /\ t.kind # "machine"
             \/ t # None /\ tx[w] # None /\ t.kind = tx[w].kind /\ t.id = tx[w].id
                /\ t.local = tx[w].local /\ place # "commit"
      PROVE  SlotsInv'
  <2>1. \A u \in Sessions : /\ pc'[u] = (IF u = w THEN place ELSE pc[u])
                            /\ tx'[u] = (IF u = w THEN t ELSE tx[u])
    BY <1>1
  <2>2. \A u \in Sessions, m \in MachineIds : Edits(u, m)' =>
            /\ Edits(u, m) /\ tx'[u].local = tx[u].local
            /\ pc'[u] = "commit" => pc[u] = "commit" /\ tx'[u].base = tx[u].base
    BY <1>1, <2>1 DEF Edits
  <2>. QED  BY <1>1, <2>2, QuietSlots
<1>2. ASSUME NEW o \in OperatorIds, NEW new \in OperatorRow, BeginsOperator(w, o, new)
      PROVE  SlotsInv'
  BY <1>1, <1>2, NoneAssumption
  DEF BeginsOperator, EditOperator, Begin, Goto, rows, Places, Transaction, Edit
<1>3. ASSUME NEW visit \in Started, BeginStart(w, visit)
      PROVE  SlotsInv'
  <2> DEFINE t == [kind |-> "start", visit |-> visit, local |-> operators[visit.operator]]
  <2>1. t \in Transaction
    BY <1>3 DEF BeginStart, Started, TypeInv, AccessTypeOK, Transaction
  <2>2. Begin(w, t, "gate")  BY <1>3 DEF BeginStart
  <2>3. t.kind # "machine"  OBVIOUS
  <2>. HIDE DEF t
  <2>. QED  BY <1>1, <2>1, <2>2, <2>3, Kinds DEF Begin, Goto, rows, Places
<1>4. ASSUME NEW o \in OperatorIds, RefreshOperator(w, o)
      PROVE  SlotsInv'
  <2> DEFINE t == [tx[w] EXCEPT !.base = operators[o]]
  <2>1. tx[w] \in Edit("operator", OperatorIds, OperatorRow)
    BY <1>4, Kinds DEF RefreshOperator, Editing
  <2>2. t \in Transaction /\ t.kind # "machine"
    BY <2>1 DEF Edit, Transaction, TypeInv, AccessTypeOK
  <2>3. tx' = [tx EXCEPT ![w] = t] /\ pc' = [pc EXCEPT ![w] = "flush"] /\ UNCHANGED machines
    BY <1>4 DEF RefreshOperator, Goto, rows
  <2>. HIDE DEF t
  <2>. QED  BY <1>1, <2>2, <2>3, Kinds DEF Places
<1>5. ASSUME NEW m \in MachineIds, RefreshMachine(w, m)
      PROVE  SlotsInv'
  <2> DEFINE t == [tx[w] EXCEPT !.base = machines[m]]
  <2>1. tx[w] \in Edit("machine", MachineIds, MachineRow) /\ tx[w] # None
    BY <1>5, Kinds DEF RefreshMachine, Editing
  <2>2. t \in Transaction /\ t.kind = tx[w].kind /\ t.id = tx[w].id /\ t.local = tx[w].local
    BY <2>1 DEF Edit, Transaction, TypeInv, AccessTypeOK
  <2>3. tx' = [tx EXCEPT ![w] = t] /\ pc' = [pc EXCEPT ![w] = "flush"] /\ UNCHANGED machines
    BY <1>5 DEF RefreshMachine, Goto, rows
  <2>. HIDE DEF t
  <2>. QED  BY <1>1, <2>1, <2>2, <2>3, Kinds DEF Places
<1>6. CASE EnsureCanOperate(w)
  <2>1. tx[w] \in Transaction /\ tx[w].kind # "machine"
    BY <1>6 DEF EnsureCanOperate, TypeInv, AccessTypeOK, Fits
  <2>2. tx' = [tx EXCEPT ![w] = tx[w]] /\ pc' = [pc EXCEPT ![w] = "commit"] /\ UNCHANGED machines
    BY <1>6 DEF EnsureCanOperate, Goto, rows
  <2>. QED  BY <1>1, <2>1, <2>2, Kinds DEF Places
<1>7. CASE Rollback(w) \/ CommitStart(w) \/ \E o \in OperatorIds : CommitOperator(w, o)
  BY <1>1, <1>7 DEF Rollback, CommitStart, CommitOperator, Finish, Goto, rows, Places
<1>. QED
  BY <1>2, <1>3, <1>4, <1>5, <1>6, <1>7, BeginSlots, FlushSlots, CommitSlots DEF SessionStep

\* However many sessions add slots to a machine and save it over each other, no
\* two of its slots ever have one number.
THEOREM SlotNumbersStayUnique == Spec => []SlotNumbersAreUnique
<1>1. ASSUME TypeInv, SlotsInv, [Next]_vars PROVE SlotsInv'
  BY <1>1, KindsOfSteps, InsertSlots, SessionStepSlots
<1>2. SlotsInv => SlotNumbersAreUnique  BY DEF SlotsInv
<1>. QED  BY <1>1, <1>2, InitSlots, TypeInvariance, PTL DEF Spec

----------------------------------------------------------------------------
(* Disabled operators, for one session.  An open edit of a disabled operator *)
(* changes nothing, and what a save reads back is what is stored when it     *)
(* commits.                                                                  *)

OneSession == \A w, u \in Sessions : w = u

EditsOperator(w, o) == tx[w] # None /\ tx[w].kind = "operator" /\ tx[w].id = o

DisabledInv ==
  \A w \in Sessions, o \in OperatorIds : EditsOperator(w, o) =>
    /\ operators[o].status = "DISABLED" => tx[w].local = operators[o]
    /\ pc[w] # "refresh" => tx[w].base = operators[o]

DisabledStays ==
  \A o \in OperatorIds :
    operators[o] # None /\ operators[o].status = "DISABLED" => operators'[o] = operators[o]

\* A step of the only session that changes no operator and leaves it with an
\* edit that fits.
LEMMA QuietOperators ==
  ASSUME OneSession, NEW w \in Sessions, UNCHANGED operators,
         \A o \in OperatorIds : EditsOperator(w, o)' =>
           /\ operators[o].status = "DISABLED" => tx'[w].local = operators[o]
           /\ pc'[w] # "refresh" => tx'[w].base = operators[o]
  PROVE  DisabledInv' /\ DisabledStays
<1>1. \A u \in Sessions : u = w  BY DEF OneSession
<1>2. DisabledInv'  BY <1>1 DEF DisabledInv
<1>3. DisabledStays  BY DEF DisabledStays
<1>. QED  BY <1>2, <1>3

LEMMA SessionStepOperators ==
  ASSUME OneSession, TypeInv, DisabledInv, NEW w \in Sessions, SessionStep(w)
  PROVE  DisabledInv' /\ DisabledStays
<1>. /\ pc \in [Sessions -> Places] /\ tx \in [Sessions -> Transaction \cup {None}]
     /\ operators \in [OperatorIds -> OperatorRow \cup {None}]
  BY DEF TypeInv, AccessTypeOK
<1>0. \A o \in OperatorIds : EditsOperator(w, o) =>
        /\ operators[o].status = "DISABLED" => tx[w].local = operators[o]
        /\ pc[w] # "refresh" => tx[w].base = operators[o]
  BY DEF DisabledInv
<1>1. ASSUME NEW o \in OperatorIds, NEW new \in OperatorRow, BeginsOperator(w, o, new)
      PROVE  DisabledInv' /\ DisabledStays
  <2> DEFINE t == [kind |-> "operator", id |-> o, local |-> new, base |-> None]
  <2>1. t.id = o /\ t.local = new  OBVIOUS
  <2>2. Begin(w, t, "refresh")  BY <1>1 DEF BeginsOperator, EditOperator
  <2>. HIDE DEF t
  <2>3. tx'[w] = t /\ pc'[w] = "refresh" /\ UNCHANGED operators
    BY <2>2 DEF Begin, Goto, rows
  <2>. QED  BY <1>1, <2>1, <2>3, QuietOperators DEF BeginsOperator, EditsOperator
<1>2. ASSUME NEW m \in MachineIds, NEW new \in MachineRow, BeginsMachine(w, m, new)
      PROVE  DisabledInv' /\ DisabledStays
  <2> DEFINE t == [kind |-> "machine", id |-> m, local |-> new, base |-> None]
  <2>1. t.kind # "operator"  OBVIOUS
  <2>2. Begin(w, t, "refresh")  BY <1>2 DEF BeginsMachine, EditMachine
  <2>. HIDE DEF t
  <2>3. tx'[w] = t /\ UNCHANGED operators  BY <2>2 DEF Begin, rows
  <2>. QED  BY <2>1, <2>3, QuietOperators DEF EditsOperator
<1>3. ASSUME NEW visit \in Started, BeginStart(w, visit)
      PROVE  DisabledInv' /\ DisabledStays
  <2> DEFINE t == [kind |-> "start", visit |-> visit, local |-> operators[visit.operator]]
  <2>1. t.kind # "operator"  OBVIOUS
  <2>2. Begin(w, t, "gate")  BY <1>3 DEF BeginStart
  <2>. HIDE DEF t
  <2>3. tx'[w] = t /\ UNCHANGED operators  BY <2>2 DEF Begin, rows
  <2>. QED  BY <2>1, <2>3, QuietOperators DEF EditsOperator
<1>4. ASSUME NEW o \in OperatorIds, RefreshOperator(w, o)
      PROVE  DisabledInv' /\ DisabledStays
  <2> DEFINE t == [tx[w] EXCEPT !.base = operators[o]]
  <2>1. tx[w] \in Edit("operator", OperatorIds, OperatorRow) /\ EditsOperator(w, o)
    BY <1>4, Kinds DEF RefreshOperator, Editing, EditsOperator
  <2>2. t.id = o /\ t.local = tx[w].local /\ t.base = operators[o]
    BY <2>1 DEF Edit, EditsOperator
  <2>. HIDE DEF t
  <2>3. tx'[w] = t /\ UNCHANGED operators  BY <1>4 DEF RefreshOperator, rows, t
  <2>. QED  BY <1>0, <2>1, <2>2, <2>3, QuietOperators DEF EditsOperator
<1>5. ASSUME NEW m \in MachineIds, RefreshMachine(w, m)
      PROVE  DisabledInv' /\ DisabledStays
  <2> DEFINE t == [tx[w] EXCEPT !.base = machines[m]]
  <2>1. tx[w] \in Edit("machine", MachineIds, MachineRow)
    BY <1>5, Kinds DEF RefreshMachine, Editing
  <2>2. t.kind # "operator"  BY <2>1 DEF Edit
  <2>. HIDE DEF t
  <2>3. tx'[w] = t /\ UNCHANGED operators  BY <1>5 DEF RefreshMachine, rows, t
  <2>. QED  BY <2>2, <2>3, QuietOperators DEF EditsOperator
<1>6. CASE Flush(w) \/ EnsureCanOperate(w)
  <2>1. pc[w] # "refresh" /\ UNCHANGED <<operators, tx>>
    BY <1>6 DEF Flush, EnsureCanOperate, rows
  <2>. QED  BY <1>0, <2>1, QuietOperators DEF EditsOperator
<1>7. ASSUME NEW o \in OperatorIds, CommitOperator(w, o)
      PROVE  DisabledInv' /\ DisabledStays
  <2>1. EditsOperator(w, o) /\ pc[w] = "commit"
    BY <1>7 DEF CommitOperator, Editing, EditsOperator
  <2>2. tx'[w] = None /\ operators' = [operators EXCEPT ![o] =
                           WrittenOperator(tx[w].local, tx[w].base, operators[o])]
    BY <1>7 DEF CommitOperator, Finish
  <2>3. operators[o] # None /\ operators[o].status = "DISABLED" =>
           WrittenOperator(tx[w].local, tx[w].base, operators[o]) = operators[o]
    BY <1>0, <2>1 DEF WrittenOperator, Written, OperatorRow
  <2>4. DisabledInv'
    BY <2>2 DEF OneSession, DisabledInv, EditsOperator
  <2>. QED  BY <2>2, <2>3, <2>4 DEF DisabledStays
<1>8. CASE Rollback(w) \/ CommitStart(w) \/ \E m \in MachineIds : CommitMachine(w, m)
  <2>1. tx'[w] = None /\ UNCHANGED operators
    BY <1>8 DEF Rollback, CommitStart, CommitMachine, Finish, rows
  <2>. QED  BY <2>1, QuietOperators DEF EditsOperator
<1>. QED
  BY <1>1, <1>2, <1>3, <1>4, <1>5, <1>6, <1>7, <1>8 DEF SessionStep

LEMMA InsertOperators ==
  ASSUME TypeInv, DisabledInv, InsertsRows
  PROVE  DisabledInv' /\ DisabledStays
<1>1. \A w \in Sessions, o \in OperatorIds : EditsOperator(w, o)' =>
        EditsOperator(w, o) /\ operators'[o] = operators[o]
  BY DEF InsertsRows, EditsOperator, TypeInv, Fits
<1>2. DisabledInv'  BY <1>1 DEF DisabledInv, InsertsRows
<1>3. DisabledStays  BY DEF DisabledStays, InsertsRows
<1>. QED  BY <1>2, <1>3

\* With one session a disabled operator keeps its row for good.
THEOREM DisabledForGood == OneSession => (Spec => DisabledIsFinal)
<1>. SUFFICES ASSUME OneSession PROVE Spec => DisabledIsFinal
  OBVIOUS
<1>1. Init => DisabledInv  BY DEF Init, DisabledInv, EditsOperator
<1>2. ASSUME TypeInv, DisabledInv, [Next]_vars PROVE DisabledInv' /\ DisabledStays
  BY <1>2, KindsOfSteps, InsertOperators, SessionStepOperators
<1>3. DisabledStays => [DisabledStays]_operators  OBVIOUS
<1>4. Spec => [][DisabledStays]_operators
  BY <1>1, <1>2, <1>3, TypeInvariance, PTL DEF Spec
<1>. QED  BY <1>4 DEF DisabledIsFinal, DisabledStays

----------------------------------------------------------------------------
(* Saves of machines, for one session.  The machine a request has loaded   *)
(* is the one its save reads back, so what it writes is what it has made.  *)

EditsInv ==
  \A m \in MachineIds, w \in Sessions : Edits(w, m) =>
    /\ OneEdit(machines[m], tx[w].local)
    /\ pc[w] # "refresh" => tx[w].base = machines[m]

MachinesEdited ==
  \A m \in MachineIds : machines[m] # None => OneEdit(machines[m], machines'[m])

\* A save over the row the request has loaded stores what the request has made.
LEMMA NothingPutBack ==
  ASSUME NEW local \in MachineRow, NEW base \in MachineRow
  PROVE  WrittenMachine(local, base, base) = local
<1>1. \A mine, b : Written(mine, b, b) = mine
  BY DEF Written
<1>2. [s \in SlotIds |-> local.slots[s]] = local.slots
  BY DEF MachineRow
<1>3. [status |-> local.status, details |-> local.details, slots |-> local.slots] = local
  BY DEF MachineRow
<1>. QED  BY <1>1, <1>2, <1>3 DEF WrittenMachine

LEMMA QuietMachines ==
  ASSUME OneSession, TypeInv, NEW w \in Sessions, UNCHANGED machines,
         \A m \in MachineIds : Edits(w, m)' =>
           /\ OneEdit(machines[m], tx'[w].local)
           /\ pc'[w] # "refresh" => tx'[w].base = machines[m]
  PROVE  EditsInv' /\ MachinesEdited
<1>1. \A u \in Sessions : u = w  BY DEF OneSession
<1>2. EditsInv'  BY <1>1 DEF EditsInv
<1>3. MachinesEdited
  BY NoEdit DEF MachinesEdited, TypeInv, AccessTypeOK
<1>. QED  BY <1>2, <1>3

LEMMA SessionStepMachines ==
  ASSUME OneSession, TypeInv, EditsInv, NEW w \in Sessions, SessionStep(w)
  PROVE  EditsInv' /\ MachinesEdited
<1>. /\ pc \in [Sessions -> Places] /\ tx \in [Sessions -> Transaction \cup {None}]
     /\ machines \in [MachineIds -> MachineRow \cup {None}]
  BY DEF TypeInv, AccessTypeOK
<1>0. \A m \in MachineIds : Edits(w, m) =>
        /\ OneEdit(machines[m], tx[w].local)
        /\ pc[w] # "refresh" => tx[w].base = machines[m]
  BY DEF EditsInv
<1>1. ASSUME NEW o \in OperatorIds, NEW new \in OperatorRow, BeginsOperator(w, o, new)
      PROVE  EditsInv' /\ MachinesEdited
  <2> DEFINE t == [kind |-> "operator", id |-> o, local |-> new, base |-> None]
  <2>1. t.kind # "machine"  OBVIOUS
  <2>2. Begin(w, t, "refresh")  BY <1>1 DEF BeginsOperator, EditOperator
  <2>. HIDE DEF t
  <2>3. tx'[w] = t /\ UNCHANGED machines  BY <2>2 DEF Begin, rows
  <2>. QED  BY <2>1, <2>3, QuietMachines DEF Edits
<1>2. ASSUME NEW m \in MachineIds, NEW new \in MachineRow, BeginsMachine(w, m, new)
      PROVE  EditsInv' /\ MachinesEdited
  <2> DEFINE t == [kind |-> "machine", id |-> m, local |-> new, base |-> None]
  <2>1. t.id = m /\ t.local = new  OBVIOUS
  <2>2. Begin(w, t, "refresh")  BY <1>2 DEF BeginsMachine, EditMachine
  <2>. HIDE DEF t
  <2>3. tx'[w] = t /\ pc'[w] = "refresh" /\ UNCHANGED machines
    BY <2>2 DEF Begin, Goto, rows
  <2>. QED  BY <1>2, <2>1, <2>3, QuietMachines DEF BeginsMachine, Edits
<1>3. ASSUME NEW visit \in Started, BeginStart(w, visit)
      PROVE  EditsInv' /\ MachinesEdited
  <2> DEFINE t == [kind |-> "start", visit |-> visit, local |-> operators[visit.operator]]
  <2>1. t.kind # "machine"  OBVIOUS
  <2>2. Begin(w, t, "gate")  BY <1>3 DEF BeginStart
  <2>. HIDE DEF t
  <2>3. tx'[w] = t /\ UNCHANGED machines  BY <2>2 DEF Begin, rows
  <2>. QED  BY <2>1, <2>3, QuietMachines DEF Edits
<1>4. ASSUME NEW o \in OperatorIds, RefreshOperator(w, o)
      PROVE  EditsInv' /\ MachinesEdited
  <2> DEFINE t == [tx[w] EXCEPT !.base = operators[o]]
  <2>1. tx[w] \in Edit("operator", OperatorIds, OperatorRow)
    BY <1>4, Kinds DEF RefreshOperator, Editing
  <2>2. t.kind # "machine"  BY <2>1 DEF Edit
  <2>. HIDE DEF t
  <2>3. tx'[w] = t /\ UNCHANGED machines  BY <1>4 DEF RefreshOperator, rows, t
  <2>. QED  BY <2>2, <2>3, QuietMachines DEF Edits
<1>5. ASSUME NEW m \in MachineIds, RefreshMachine(w, m)
      PROVE  EditsInv' /\ MachinesEdited
  <2> DEFINE t == [tx[w] EXCEPT !.base = machines[m]]
  <2>1. tx[w] \in Edit("machine", MachineIds, MachineRow) /\ Edits(w, m)
    BY <1>5, Kinds DEF RefreshMachine, Editing, Edits
  <2>2. t.id = m /\ t.local = tx[w].local /\ t.base = machines[m]
    BY <2>1 DEF Edit, Edits
  <2>. HIDE DEF t
  <2>3. tx'[w] = t /\ UNCHANGED machines  BY <1>5 DEF RefreshMachine, rows, t
  <2>. QED  BY <1>0, <2>1, <2>2, <2>3, QuietMachines DEF Edits
<1>6. CASE Flush(w) \/ EnsureCanOperate(w)
  <2>1. pc[w] # "refresh" /\ UNCHANGED <<machines, tx>>
    BY <1>6 DEF Flush, EnsureCanOperate, rows
  <2>. QED  BY <1>0, <2>1, QuietMachines DEF Edits
<1>7. ASSUME NEW m \in MachineIds, CommitMachine(w, m)
      PROVE  EditsInv' /\ MachinesEdited
  <2>1. Edits(w, m) /\ pc[w] = "commit" /\ tx'[w] = None
    BY <1>7 DEF CommitMachine, Editing, Edits, Finish
  <2>2. tx[w].local \in MachineRow /\ machines[m] \in MachineRow /\ tx[w].base = machines[m]
    BY <1>0, <2>1, EditTypes
  <2>3. machines' = [machines EXCEPT ![m] = tx[w].local]
    BY <1>7, <2>2, NothingPutBack DEF CommitMachine
  <2>4. EditsInv'
    BY <2>1 DEF OneSession, EditsInv, Edits
  <2>5. MachinesEdited
    BY <1>0, <2>1, <2>3, NoEdit DEF MachinesEdited
  <2>. QED  BY <2>4, <2>5
<1>8. CASE Rollback(w) \/ CommitStart(w) \/ \E o \in OperatorIds : CommitOperator(w, o)
  <2>1. tx'[w] = None /\ UNCHANGED machines
    BY <1>8 DEF Rollback, CommitStart, CommitOperator, Finish, rows
  <2>. QED  BY <2>1, QuietMachines DEF Edits
<1>. QED
  BY <1>1, <1>2, <1>3, <1>4, <1>5, <1>6, <1>7, <1>8 DEF SessionStep

LEMMA InsertMachines ==
  ASSUME TypeInv, EditsInv, InsertsRows
  PROVE  EditsInv' /\ MachinesEdited
<1>1. \A w \in Sessions, m \in MachineIds : Edits(w, m)' =>
        Edits(w, m) /\ machines'[m] = machines[m]
  BY DEF InsertsRows, Edits, TypeInv, Fits
<1>2. EditsInv'  BY <1>1 DEF EditsInv, InsertsRows
<1>3. MachinesEdited
  BY NoEdit DEF MachinesEdited, InsertsRows, TypeInv, AccessTypeOK
<1>. QED  BY <1>2, <1>3

\* With one session a step leaves every machine as it is or edits it once.
LEMMA MachinesAreEdited ==
  ASSUME OneSession
  PROVE  Spec => [][MachinesEdited]_machines
<1>1. Init => EditsInv  BY DEF Init, EditsInv, Edits
<1>2. ASSUME TypeInv, EditsInv, [Next]_vars PROVE EditsInv' /\ MachinesEdited
  BY <1>2, KindsOfSteps, InsertMachines, SessionStepMachines
<1>3. MachinesEdited => [MachinesEdited]_machines  OBVIOUS
<1>. QED
  BY <1>1, <1>2, <1>3, TypeInvariance, PTL DEF Spec

\* With one session the status of a machine moves only along the transitions
\* the entity allows.
THEOREM StatusMoves == OneSession => (Spec => StatusMovesAsAllowed)
<1>. SUFFICES ASSUME OneSession PROVE Spec => StatusMovesAsAllowed
  OBVIOUS
<1>1. [MachinesEdited]_machines =>
      [\A m \in MachineIds : machines[m] # None /\ machines'[m].status # machines[m].status =>
       <<machines[m].status, machines'[m].status>> \in AllowedTransitions
      ]_machines
  BY DEF MachinesEdited, OneEdit
<1>. QED  BY <1>1, MachinesAreEdited, PTL DEF StatusMovesAsAllowed

\* With one session no save loses a slot or renumbers one.
THEOREM SlotsStay == OneSession => (Spec => SlotsAreKept)
<1>. SUFFICES ASSUME OneSession PROVE Spec => SlotsAreKept
  OBVIOUS
<1>1. [MachinesEdited]_machines =>
      [\A m \in MachineIds : machines[m] # None =>
       \A s \in SlotsOf(machines[m]) :
         /\ s \in SlotsOf(machines'[m])
         /\ machines'[m].slots[s].number = machines[m].slots[s].number
      ]_machines
  BY DEF MachinesEdited, OneEdit
<1>. QED  BY <1>1, MachinesAreEdited, PTL DEF SlotsAreKept

\* With one session a save changes the one thing its request is about.
THEOREM SavesChangeOneThing == OneSession => (Spec => OneChangePerSave)
<1>. SUFFICES ASSUME OneSession PROVE Spec => OneChangePerSave
  OBVIOUS
<1>1. [MachinesEdited]_machines =>
      [\A m \in MachineIds : machines[m] # None =>
       \A p, q \in ChangedParts(machines[m], machines'[m]) : p = q
      ]_machines
  BY DEF MachinesEdited, OneEdit, OneChange
<1>. QED  BY <1>1, MachinesAreEdited, PTL DEF OneChangePerSave

----------------------------------------------------------------------------
(* Visits, for one session.  What the gate saw is still so at the commit.   *)

Starts(w) == tx[w] # None /\ tx[w].kind = "start"

StartInv ==
  \A w \in Sessions : Starts(w) =>
    /\ tx[w].local = operators[tx[w].visit.operator]
    /\ pc[w] = "commit" => CanOperate(tx[w].local, tx[w].visit)

HasAccess(visit) ==
  /\ operators[visit.operator] # None
  /\ CanOperate(operators[visit.operator], visit)

NewVisitsHaveAccess == \A visit \in visits' \ visits : HasAccess(visit)

\* The gate, spelt out as the property does.
LEMMA AccessMeans ==
  ASSUME NEW visit \in Started, HasAccess(visit)
  PROVE  /\ machines[visit.machine] # None /\ machines[visit.machine].status = "ACTIVE"
         /\ operators[visit.operator].status = "ACTIVE"
         /\ operators[visit.operator].role = "OPERATOR"
         /\ operators[visit.operator].from <= visit.at
         /\ \E f \in Times :
              LET a == assignments[visit.operator][visit.machine][f]
              IN  /\ a # None /\ a.status = "ACTIVE" /\ f <= visit.at
                  /\ a.until = None \/ visit.at < a.until
BY DEF HasAccess, CanOperate, CanReplenish, IsAssigned, EffectiveAt, ActiveFrom, FoundFrom, InPeriod

LEMMA QuietStart ==
  ASSUME OneSession, NEW w \in Sessions, UNCHANGED visits, ~Starts(w)'
  PROVE  StartInv' /\ NewVisitsHaveAccess
BY DEF OneSession, StartInv, NewVisitsHaveAccess

LEMMA SessionStepVisits ==
  ASSUME OneSession, TypeInv, StartInv, NEW w \in Sessions, SessionStep(w)
  PROVE  StartInv' /\ NewVisitsHaveAccess
<1>. pc \in [Sessions -> Places] /\ tx \in [Sessions -> Transaction \cup {None}]
  BY DEF TypeInv, AccessTypeOK
<1>1. ASSUME NEW o \in OperatorIds, NEW new \in OperatorRow, BeginsOperator(w, o, new)
      PROVE  StartInv' /\ NewVisitsHaveAccess
  <2> DEFINE t == [kind |-> "operator", id |-> o, local |-> new, base |-> None]
  <2>1. t.kind # "start"  OBVIOUS
  <2>2. Begin(w, t, "refresh")  BY <1>1 DEF BeginsOperator, EditOperator
  <2>. HIDE DEF t
  <2>. QED  BY <2>1, <2>2, QuietStart DEF Begin, rows, Starts
<1>2. ASSUME NEW m \in MachineIds, NEW new \in MachineRow, BeginsMachine(w, m, new)
      PROVE  StartInv' /\ NewVisitsHaveAccess
  <2> DEFINE t == [kind |-> "machine", id |-> m, local |-> new, base |-> None]
  <2>1. t.kind # "start"  OBVIOUS
  <2>2. Begin(w, t, "refresh")  BY <1>2 DEF BeginsMachine, EditMachine
  <2>. HIDE DEF t
  <2>. QED  BY <2>1, <2>2, QuietStart DEF Begin, rows, Starts
<1>3. ASSUME NEW visit \in Started, BeginStart(w, visit)
      PROVE  StartInv' /\ NewVisitsHaveAccess
  <2> DEFINE t == [kind |-> "start", visit |-> visit, local |-> operators[visit.operator]]
  <2>1. t.visit = visit /\ t.local = operators[visit.operator]  OBVIOUS
  <2>2. Begin(w, t, "gate")  BY <1>3 DEF BeginStart
  <2>. HIDE DEF t
  <2>3. tx'[w] = t /\ pc'[w] = "gate" /\ UNCHANGED <<operators, visits>>
    BY <2>2 DEF Begin, Goto, rows
  <2>4. \A u \in Sessions : u = w  BY DEF OneSession
  <2>5. StartInv'  BY <2>1, <2>3, <2>4 DEF StartInv
  <2>. QED  BY <2>3, <2>5 DEF NewVisitsHaveAccess
<1>4. ASSUME NEW o \in OperatorIds, RefreshOperator(w, o)
      PROVE  StartInv' /\ NewVisitsHaveAccess
  <2> DEFINE t == [tx[w] EXCEPT !.base = operators[o]]
  <2>1. tx[w] \in Edit("operator", OperatorIds, OperatorRow)
    BY <1>4, Kinds DEF RefreshOperator, Editing
  <2>2. t.kind # "start"  BY <2>1 DEF Edit
  <2>. HIDE DEF t
  <2>3. tx'[w] = t /\ UNCHANGED visits  BY <1>4 DEF RefreshOperator, rows, t
  <2>. QED  BY <2>2, <2>3, QuietStart DEF Starts
<1>5. ASSUME NEW m \in MachineIds, RefreshMachine(w, m)
      PROVE  StartInv' /\ NewVisitsHaveAccess
  <2> DEFINE t == [tx[w] EXCEPT !.base = machines[m]]
  <2>1. tx[w] \in Edit("machine", MachineIds, MachineRow)
    BY <1>5, Kinds DEF RefreshMachine, Editing
  <2>2. t.kind # "start"  BY <2>1 DEF Edit
  <2>. HIDE DEF t
  <2>3. tx'[w] = t /\ UNCHANGED visits  BY <1>5 DEF RefreshMachine, rows, t
  <2>. QED  BY <2>2, <2>3, QuietStart DEF Starts
<1>6. CASE Flush(w)
  <2>1. tx[w] # None /\ tx[w].kind # "start"  BY <1>6 DEF Flush, TypeInv, Fits
  <2>. QED  BY <1>6, <2>1, QuietStart DEF Flush, rows, Starts
<1>7. CASE EnsureCanOperate(w)
  <2>1. /\ UNCHANGED <<operators, machines, assignments, visits, tx>>
        /\ CanOperate(tx[w].local, tx[w].visit)
    BY <1>7 DEF EnsureCanOperate, rows
  <2>2. CanOperate(tx[w].local, tx[w].visit)'
    BY <2>1 DEF CanOperate, IsAssigned, EffectiveAt, ActiveFrom, FoundFrom
  <2>3. \A u \in Sessions : u = w  BY DEF OneSession
  <2>4. StartInv'  BY <2>1, <2>2, <2>3 DEF StartInv, Starts
  <2>. QED  BY <2>1, <2>4 DEF NewVisitsHaveAccess
<1>8. CASE Rollback(w) \/ (\E o \in OperatorIds : CommitOperator(w, o))
                       \/ \E m \in MachineIds : CommitMachine(w, m)
  <2>1. tx'[w] = None /\ UNCHANGED visits
    BY <1>8 DEF Rollback, CommitOperator, CommitMachine, Finish, rows
  <2>. QED  BY <2>1, QuietStart DEF Starts
<1>9. CASE CommitStart(w)
  <2>1. tx'[w] = None /\ visits' = visits \cup {tx[w].visit} /\ pc[w] = "commit" /\ tx[w].kind = "start"
    BY <1>9 DEF CommitStart, Finish
  <2>2. tx[w] # None  BY <2>1 DEF TypeInv, Fits
  <2>3. tx[w].visit \in Started /\ tx[w].local \in OperatorRow  BY <2>1, <2>2, Kinds
  <2>4. HasAccess(tx[w].visit)
    BY <2>1, <2>2, <2>3, NoneAssumption DEF StartInv, Starts, HasAccess
  <2>5. StartInv'  BY <2>1 DEF OneSession, StartInv, Starts
  <2>. QED  BY <2>1, <2>4, <2>5 DEF NewVisitsHaveAccess
<1>. QED
  BY <1>1, <1>2, <1>3, <1>4, <1>5, <1>6, <1>7, <1>8, <1>9 DEF SessionStep

\* Nobody else writes while the session holds a start.
LEMMA InsertVisits ==
  ASSUME OneSession, TypeInv, StartInv, InsertsRows
  PROVE  StartInv' /\ NewVisitsHaveAccess
<1>1. UNCHANGED <<visits, pc, tx>>  BY DEF InsertsRows
<1>2. ASSUME NEW w \in Sessions, Starts(w)'
      PROVE  /\ tx'[w].local = operators'[tx'[w].visit.operator]
             /\ pc'[w] = "commit" => CanOperate(tx[w].local, tx[w].visit)'
  <2>1. Starts(w) /\ pc[w] # "idle"  BY <1>1, <1>2 DEF Starts, TypeInv, Fits
  <2>2. UNCHANGED assignments  BY <2>1 DEF InsertsRows, OneSession
  <2>3. tx[w].visit \in Started /\ tx[w].local \in OperatorRow
    BY <2>1, Kinds DEF Starts, TypeInv, AccessTypeOK
  <2>4. /\ tx[w].visit.operator \in OperatorIds /\ tx[w].visit.machine \in MachineIds
        /\ operators[tx[w].visit.operator] # None
    BY <2>1, <2>3, NoneAssumption DEF Started, StartInv
  <2>5. operators'[tx[w].visit.operator] = operators[tx[w].visit.operator]
    BY <2>4 DEF InsertsRows
  <2>6. CanOperate(tx[w].local, tx[w].visit) => CanOperate(tx[w].local, tx[w].visit)'
    BY <1>1, <2>2, <2>4 DEF InsertsRows, CanOperate, IsAssigned, EffectiveAt, ActiveFrom, FoundFrom
  <2>. QED  BY <1>1, <2>1, <2>5, <2>6 DEF StartInv
<1>3. StartInv'  BY <1>2 DEF StartInv
<1>. QED  BY <1>1, <1>3 DEF NewVisitsHaveAccess

\* With one session a visit starts only while its operator may work on its
\* machine, for any assignments and any times.
THEOREM VisitsHaveAccess == OneSession => (Spec => VisitsStartWithAccess)
<1>. SUFFICES ASSUME OneSession PROVE Spec => VisitsStartWithAccess
  OBVIOUS
<1>1. Init => StartInv  BY DEF Init, StartInv, Starts
<1>2. ASSUME TypeInv, StartInv, [Next]_vars PROVE StartInv' /\ NewVisitsHaveAccess
  BY <1>2, KindsOfSteps, InsertVisits, SessionStepVisits
<1>3. TypeInv' /\ NewVisitsHaveAccess =>
      [\A visit \in visits' \ visits :
       /\ machines[visit.machine] # None /\ machines[visit.machine].status = "ACTIVE"
       /\ operators[visit.operator].status = "ACTIVE"
       /\ operators[visit.operator].role = "OPERATOR"
       /\ operators[visit.operator].from <= visit.at
       /\ \E f \in Times :
            LET a == assignments[visit.operator][visit.machine][f]
            IN  /\ a # None /\ a.status = "ACTIVE" /\ f <= visit.at
                /\ a.until = None \/ visit.at < a.until
      ]_visits
  <2>. SUFFICES ASSUME TypeInv', NEW visit \in visits' \ visits, HasAccess(visit)
       PROVE  /\ machines[visit.machine] # None /\ machines[visit.machine].status = "ACTIVE"
              /\ operators[visit.operator].status = "ACTIVE"
              /\ operators[visit.operator].role = "OPERATOR"
              /\ operators[visit.operator].from <= visit.at
              /\ \E f \in Times :
                   LET a == assignments[visit.operator][visit.machine][f]
                   IN  /\ a # None /\ a.status = "ACTIVE" /\ f <= visit.at
                       /\ a.until = None \/ visit.at < a.until
    BY DEF NewVisitsHaveAccess
  <2>1. visit \in Started  BY DEF TypeInv, AccessTypeOK
  <2>. QED  BY <2>1, AccessMeans
<1>. QED
  BY <1>1, <1>2, <1>3, TypeInvariance, PTL DEF Spec, VisitsStartWithAccess

=============================================================================
