-------------------------- MODULE CircuitConstants --------------------------
(* Parameters of the circuit breaker and what is assumed of them, for      *)
(* Circuit and for Provider, which contains it.                            *)
EXTENDS Integers

CONSTANTS
  Callers,          \* worker loops, each with at most one request under way
  Threshold,        \* failure_threshold
  OpenSeconds,      \* open_seconds
  MaxOpenSeconds,   \* max_open_seconds
  RetryAfters,      \* retry_after_seconds of failures; 0 when there is none
  MaxTrips,         \* bound: trips are counted so far, when the window has reached its cap
  NULL              \* Python None

ASSUME CircuitAssumption ==
  /\ Threshold \in Nat \ {0}
  /\ OpenSeconds \in Nat \ {0}
  /\ MaxOpenSeconds \in Nat \ {0}
  /\ RetryAfters \subseteq Nat
  /\ MaxTrips \in Nat
  /\ OpenSeconds * 2^MaxTrips >= MaxOpenSeconds
  /\ NULL \notin Int

(* Arithmetic that TLC evaluates and the provers do not know. *)
ASSUME PowersAreNaturals == \A k \in 0 .. MaxTrips : 2^k \in Nat

=============================================================================
