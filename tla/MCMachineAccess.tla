---------------------------- MODULE MCMachineAccess ----------------------------
(* Instances of MachineAccess for TLC. *)
EXTENDS MachineAccess, TLC

Numbers == {1, 2}
OneCapacity == {1}
TwoCapacities == {1, 2}
NoValues == {}

Symmetry == Permutations(OperatorIds) \cup Permutations(SlotIds) \cup Permutations(Sessions)

\* What a machine sells, and under which name, matters to no visit, and the
\* other way round: each is explored while the other is as it began.
Copies ==
  {machines[m] : m \in MachineIds} \cup
    {tx[w].local : w \in {w \in Sessions : tx[w] # None /\ tx[w].kind = "machine"}}

Unconfigured ==
  \A machine \in Copies \ {None} :
    SlotsOf(machine) = {} /\ machine.details = CHOOSE d \in Details : TRUE

Unassigned ==
  /\ now = 0 /\ Stored = {} /\ visits = {}
  /\ Cardinality({o \in OperatorIds : operators[o] # None}) <= 1

OneConcern == Unconfigured \/ Unassigned

=============================================================================
