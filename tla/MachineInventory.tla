--------------------------- MODULE MachineInventory ---------------------------
(***************************************************************************)
(* The inventory periods of machine positions (domain/inventory/periods):  *)
(* what is in a slot is not known between counts, so a period starts from  *)
(* a counted quantity, adds what was loaded and takes off what was         *)
(* consumed, and ends with the next count.                                 *)
(***************************************************************************)
EXTENDS Integers, FunctionUpdates

CONSTANTS
  PeriodIds,
  Positions,   \* the slots and containers of the machines
  MaxUnits,    \* bound: units a period may count, consume, load or unload
  None         \* no physical count yet, no preceding period

ASSUME UnitsAssumption   == MaxUnits \in Nat \ {0}
ASSUME NothingAssumption == None \notin PeriodIds \cup Nat

VARIABLES
  periods,    \* periods[q]: the period with id q, for every period opened so far
  precedes    \* precedes[q]: the period q was opened from, None for an initial one

periodVars == <<periods, precedes>>

\* closed stands for closed_at, which only a close sets.
Period ==
  [position : Positions, opening : Nat, physical : Nat \cup {None}, closed : BOOLEAN,
   net : Int, consumption : Nat]

PeriodsTypeOK ==
  /\ periods \in [DOMAIN periods -> Period]
  /\ DOMAIN periods \subseteq PeriodIds
  /\ precedes \in [DOMAIN periods -> PeriodIds \cup {None}]

PeriodsInit == periods = <<>> /\ precedes = <<>>

----------------------------------------------------------------------------
Theoretical(period) == period.opening + period.net - period.consumption
Variance(period) == period.physical - Theoretical(period)

\* Mutant of EnsureOpen: a closed period can still be changed.
EnsureKnown(q) == q \in DOMAIN periods
EnsureOpen(q) == q \in DOMAIN periods /\ ~periods[q].closed

Change(q, period) ==
  /\ periods' = [periods EXCEPT ![q] = period]
  /\ UNCHANGED precedes

\* A period keeps its opening quantity for ever and starts without movements.
OpenPeriod(q, position, opening, from) ==
  /\ q \in PeriodIds \ DOMAIN periods
  /\ periods' = With(periods, q,
       [position |-> position, opening |-> opening, physical |-> None,
        closed |-> FALSE, net |-> 0, consumption |-> 0])
  /\ precedes' = With(precedes, q, from)

OpenInitial(q, position) == OpenPeriod(q, position, 0, None)

\* Mutant of ApplyReplenishment: a load that is reported late is still booked.
ApplyAnyReplenishment(q, quantity) ==
  /\ EnsureKnown(q)
  /\ quantity # 0
  /\ Change(q, [periods[q] EXCEPT !.net = @ + quantity])

ApplyReplenishment(q, quantity) ==
  /\ EnsureOpen(q)
  /\ quantity # 0
  /\ Change(q, [periods[q] EXCEPT !.net = @ + quantity])

ApplyConsumption(q, quantity) ==
  /\ EnsureOpen(q)
  /\ quantity > 0
  /\ Change(q, [periods[q] EXCEPT !.consumption = @ + quantity])

\* A period may be counted again, and moved after it was counted.
RecordPhysicalCount(q, quantity) ==
  /\ EnsureOpen(q)
  /\ quantity >= 0
  /\ Change(q, [periods[q] EXCEPT !.physical = quantity])

\* Mutant of Close: a period needs no count.
CloseUncounted(q) ==
  EnsureOpen(q) /\ Change(q, [periods[q] EXCEPT !.closed = TRUE])

Close(q) ==
  /\ EnsureOpen(q)
  /\ periods[q].physical # None
  /\ Change(q, [periods[q] EXCEPT !.closed = TRUE])

\* Nothing marks a period as continued: it can be opened from more than once.
OpenNext(p, q) ==
  /\ p \in DOMAIN periods /\ periods[p].closed
  /\ OpenPeriod(q, periods[p].position, periods[p].physical, p)

----------------------------------------------------------------------------
Within(q, quantity) ==
  q \in DOMAIN periods =>
    /\ periods[q].net + quantity \in (-MaxUnits)..MaxUnits
    /\ periods[q].consumption + quantity <= MaxUnits

PeriodsNext ==
  \/ \E q \in PeriodIds, position \in Positions : OpenInitial(q, position)
  \/ \E q \in PeriodIds, n \in (-MaxUnits)..MaxUnits : Within(q, n) /\ ApplyReplenishment(q, n)
  \/ \E q \in PeriodIds, n \in 0..MaxUnits : Within(q, n) /\ ApplyConsumption(q, n)
  \/ \E q \in PeriodIds, n \in 0..MaxUnits : RecordPhysicalCount(q, n)
  \/ \E q \in PeriodIds : Close(q)
  \/ \E p, q \in PeriodIds : OpenNext(p, q)

PeriodsSpec == PeriodsInit /\ [][PeriodsNext]_periodVars

----------------------------------------------------------------------------
(* Properties *)

\* A period opened from another goes on from its count: that one is closed,
\* counted and of the same position, and its count stays what this one opened
\* with (docs/domain/MACHINE_INVENTORY.md, next.opening = previous.physical).
PeriodsFollowOn ==
  \A q \in DOMAIN periods : precedes[q] # None =>
    LET p == precedes[q]
    IN  /\ p \in DOMAIN periods
        /\ periods[p].closed
        /\ periods[p].position = periods[q].position
        /\ periods[p].physical = periods[q].opening

\* What a period was closed with (its movements, its count and so its variance)
\* is final: a load, a consumption or a count that is reported late does not
\* reach it, though periods opened from it go on (_ensure_open).
ClosedPeriodsAreFinal ==
  [][\A q \in DOMAIN periods : periods[q].closed =>
       q \in DOMAIN periods' /\ periods'[q] = periods[q]
    ]_periodVars

\* The quantity a position was left with along its line of periods: everything
\* ever loaded less everything unloaded and consumed, corrected by the variance
\* of each count.
Accounted[q \in DOMAIN periods] ==
  periods[q].net - periods[q].consumption
    + (IF precedes[q] = None THEN 0
       ELSE Accounted[precedes[q]] + Variance(periods[precedes[q]]))

\* No unit of a position is lost or made up over any number of periods: not by
\* counting again and not by movements after the count.
SlotsBalance == \A q \in DOMAIN periods : Accounted[q] = Theoretical(periods[q])

=============================================================================
