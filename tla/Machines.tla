------------------------------- MODULE Machines -------------------------------
(***************************************************************************)
(* The machine aggregate (domain/machines/entities): its status, its       *)
(* details and the slots it owns.  Name, location and SII id are one value *)
(* of Details; the code is the machine's key.                              *)
(***************************************************************************)
EXTENDS Naturals

CONSTANTS
  MachineIds, SlotIds, SlotNumbers, Capacities, Details, None,
  Preferences,  \* products of the tenant a slot may prefer: active when chosen
  Prices

MachineStatuses == {"ACTIVE", "INACTIVE", "MAINTENANCE"}
SlotStatuses == {"ACTIVE", "INACTIVE"}

Slot ==
  [number : SlotNumbers, capacity : Capacities, status : SlotStatuses,
   preferred : Preferences \cup {None}, price : Prices \cup {None}]

MachineRow ==
  [status : MachineStatuses, details : Details, slots : [SlotIds -> Slot \cup {None}]]

Created(details) ==
  [status |-> "ACTIVE", details |-> details, slots |-> [s \in SlotIds |-> None]]

AllowedTransitions ==
  {<<"INACTIVE", "ACTIVE">>, <<"ACTIVE", "INACTIVE">>, <<"ACTIVE", "MAINTENANCE">>,
   <<"MAINTENANCE", "ACTIVE">>, <<"MAINTENANCE", "INACTIVE">>}

\* Mutant of CanMove: any status may follow any other.
CanMoveAnywhere(machine, status) == TRUE

\* Asking for the status the machine has changes nothing and is no error.
CanMove(machine, status) ==
  machine.status = status \/ <<machine.status, status>> \in AllowedTransitions
Moved(machine, status) == [machine EXCEPT !.status = status]

WithDetails(machine, details) == [machine EXCEPT !.details = details]

SlotsOf(machine) == {s \in SlotIds : machine.slots[s] # None}
NumbersOf(machine) == {machine.slots[s].number : s \in SlotsOf(machine)}

NewSlot(number, capacity, preferred, price) ==
  [number |-> number, capacity |-> capacity, status |-> "ACTIVE",
   preferred |-> preferred, price |-> price]

\* A new slot gets a fresh uuid and a number the machine does not use yet.
CanAddSlot(machine, s, slot) ==
  s \notin SlotsOf(machine) /\ slot.number \notin NumbersOf(machine)

\* Mutant of WithSlot: saving the machine keeps the new slot only.
WithOnlySlot(machine, s, slot) ==
  [machine EXCEPT !.slots = [t \in SlotIds |-> IF t = s THEN slot ELSE None]]

WithSlot(machine, s, slot) == [machine EXCEPT !.slots[s] = slot]

WithPrice(machine, s, price)       == [machine EXCEPT !.slots[s].price = price]
WithSlotStatus(machine, s, status) == [machine EXCEPT !.slots[s].status = status]
WithCapacity(machine, s, capacity) == [machine EXCEPT !.slots[s].capacity = capacity]

\* Mutant of WithPreferred: another product clears the price.
WithPreferredOnly(machine, s, product) ==
  [machine EXCEPT !.slots[s].preferred = product, !.slots[s].price = None]

WithPreferred(machine, s, product) == [machine EXCEPT !.slots[s].preferred = product]

=============================================================================
