-------------------------- MODULE ControlConstants --------------------------
(* Parameters of the control requests and what is assumed of them, for     *)
(* Control and for Runtime, which contains it.                             *)
EXTENDS Naturals

CONSTANTS
  Paths,        \* media files
  Limit,        \* requests taken up at one poll
  MaxRequests,  \* bound: requests made
  MaxFaults,    \* bound: errors and restarts
  NULL          \* nothing under way

ASSUME ControlAssumption ==
  /\ Limit \in Nat \ {0}
  /\ MaxRequests \in Nat
  /\ MaxFaults \in Nat
  /\ NULL \notin Nat

=============================================================================
