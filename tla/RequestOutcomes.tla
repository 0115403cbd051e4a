--------------------------- MODULE RequestOutcomes ---------------------------
(***************************************************************************)
(* What a client that repeats its requests is promised: a request takes    *)
(* effect once and then has one outcome, however often it arrives, until   *)
(* the server has forgotten the outcome; only then may it be decided, and  *)
(* take effect, again.                                                     *)
(***************************************************************************)
EXTENDS Naturals

CONSTANTS
  Requests,   \* the requests a client may repeat
  Outcomes,   \* what a request may be answered with
  None        \* no outcome yet

VARIABLES
  outcome,   \* outcome[r]: what request r is answered with, or None
  effects    \* effects[r]: how often r has changed anything

Init ==
  /\ outcome = [r \in Requests |-> None]
  /\ effects = [r \in Requests |-> 0]

\* A request may find its work done by another one and change nothing.
Decide(r) ==
  /\ outcome[r] = None
  /\ outcome'[r] \in Outcomes
  /\ outcome' = [outcome EXCEPT ![r] = outcome'[r]]
  /\ \E n \in {0, 1} : effects' = [effects EXCEPT ![r] = @ + n]

Forget(r) ==
  /\ outcome[r] # None
  /\ outcome' = [outcome EXCEPT ![r] = None]
  /\ UNCHANGED effects

Next == \E r \in Requests : Decide(r) \/ Forget(r)
Spec == Init /\ [][Next]_<<outcome, effects>>

=============================================================================
