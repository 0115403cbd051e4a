------------------------------ MODULE Operators ------------------------------
(***************************************************************************)
(* The operator entity (domain/identity): the lifecycle of a person the    *)
(* tenant lets work, and what the status, the role and the validity period *)
(* allow.  Operations are given as a condition and a result.               *)
(***************************************************************************)
EXTENDS Naturals

CONSTANTS OperatorIds, MaxTime

ASSUME TimeAssumption == MaxTime \in Nat

Times == 0..MaxTime
Roles == {"ADMIN", "OPERATOR"}
OperatorStatuses == {"PENDING", "ACTIVE", "SUSPENDED", "DISABLED"}

\* The validity period of an operator starts at provisioning and has no end.
OperatorRow == [status : OperatorStatuses, role : Roles, from : Times]

Provisioned(role, at) == [status |-> "PENDING", role |-> role, from |-> at]

\* Mutant of CanActivate: nothing is said of a disabled operator.
CanActivateAny(row) == TRUE

CanActivate(row) == row.status # "DISABLED"
Activated(row) == [row EXCEPT !.status = "ACTIVE"]

CanSuspend(row) == row.status = "ACTIVE"
Suspended(row) == [row EXCEPT !.status = "SUSPENDED"]

CanDisable(row) == row.status # "PENDING"
Disabled(row) == [row EXCEPT !.status = "DISABLED"]

CanAssignRole(row) == row.status # "DISABLED"
WithRole(row, role) == [row EXCEPT !.role = role]

\* Policies
CanReplenish(row, at) == row.status = "ACTIVE" /\ row.role = "OPERATOR" /\ row.from <= at
CanManageMachines(row) == row.status = "ACTIVE" /\ row.role = "ADMIN"

=============================================================================
