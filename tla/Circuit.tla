------------------------------ MODULE Circuit ------------------------------
(***************************************************************************)
(* The circuit breaker of application/resilient_provider.py, shared by all *)
(* worker loops.  Between asking whether a request may go out and          *)
(* recording its answer the caller awaits the provider, so any number of   *)
(* requests that were let out earlier (stragglers) are answered while the  *)
(* circuit is open, and while a probe is under way.                        *)
(*                                                                         *)
(* Time only matters as what is left of the open window: openFor counts    *)
(* _open_until - now down to 0.  Being throttled changes no state and is   *)
(* no step.  Definitions whose name begins with Slip are mistakes that     *)
(* could be made in the definition that follows; model checking notices    *)
(* them.                                                                   *)
(***************************************************************************)
EXTENDS CircuitConstants

VARIABLES
  failures,    \* _consecutive_failures, counted to Threshold
  trips,       \* _trips
  openFor,     \* what is left of the open window, NULL when closed
  probing,     \* _probe_in_flight
  call         \* what each caller has under way

vars == <<failures, trips, openFor, probing, call>>

Calls == {"none", "request", "probe"}

TypeOK ==
  /\ failures \in 0 .. Threshold
  /\ trips \in 0 .. MaxTrips
  /\ openFor \in Nat \cup {NULL}
  /\ probing \in BOOLEAN
  /\ call \in [Callers -> Calls]

Smaller(a, b) == IF a < b THEN a ELSE b
Larger(a, b) == IF a < b THEN b ELSE a

Init ==
  /\ failures = 0
  /\ trips = 0
  /\ openFor = NULL
  /\ probing = FALSE
  /\ call = [c \in Callers |-> "none"]

-----------------------------------------------------------------------------
(* _blocked_for lets a request out while the circuit is closed, and one    *)
(* when the open window is over and none has been let out since.           *)
Request(c) ==
  /\ call[c] = "none"
  /\ openFor = NULL
  /\ call' = [call EXCEPT ![c] = "request"]
  /\ UNCHANGED <<failures, trips, openFor, probing>>

Probe(c) ==
  /\ call[c] = "none"
  /\ openFor = 0
  /\ ~probing
  /\ probing' = TRUE
  /\ call' = [call EXCEPT ![c] = "probe"]
  /\ UNCHANGED <<failures, trips, openFor>>

(* Any answer of any request ends the probe that is under way. *)
Answered(c) ==
  /\ call[c] # "none"
  /\ call' = [call EXCEPT ![c] = "none"]
  /\ probing' = FALSE

(* the failures are not forgotten *)
SlipClosed(c) ==
  /\ Answered(c)
  /\ trips' = 0
  /\ openFor' = NULL
  /\ UNCHANGED failures

(* Anything but a transient failure closes the circuit and forgets the     *)
(* failures.                                                               *)
Success(c) ==
  /\ Answered(c)
  /\ failures' = 0
  /\ trips' = 0
  /\ openFor' = NULL

(* the provider's wish is beyond the cap *)
SlipWindow(retryAfter) ==
  Larger(Smaller(OpenSeconds * 2^trips, MaxOpenSeconds), retryAfter)

Window(retryAfter) ==
  Smaller(Larger(Smaller(OpenSeconds * 2^trips, MaxOpenSeconds), retryAfter), MaxOpenSeconds)

(* The failure opens the circuit, or opens it again. *)
Opens == openFor # NULL \/ failures + 1 >= Threshold

Failure(c, retryAfter) ==
  /\ Answered(c)
  /\ failures' = Smaller(failures + 1, Threshold)
  /\ IF Opens
       THEN /\ openFor' = Window(retryAfter)
            /\ trips' = Smaller(trips + 1, MaxTrips)
       ELSE UNCHANGED <<openFor, trips>>

(* the probe that is under way is forgotten *)
SlipRaised(c) ==
  /\ call[c] # "none"
  /\ call' = [call EXCEPT ![c] = "none"]
  /\ UNCHANGED <<failures, trips, openFor, probing>>

(* The provider raises, or the caller is cancelled. *)
Raised(c) ==
  /\ Answered(c)
  /\ UNCHANGED <<failures, trips, openFor>>

Tick ==
  /\ openFor # NULL
  /\ openFor > 0
  /\ openFor' = openFor - 1
  /\ UNCHANGED <<failures, trips, probing, call>>

-----------------------------------------------------------------------------
LetOut(c) == Request(c) \/ Probe(c)

Ends(c) == Success(c) \/ Raised(c) \/ \E r \in RetryAfters : Failure(c, r)

Next == Tick \/ \E c \in Callers : LetOut(c) \/ Ends(c)

Spec == Init /\ [][Next]_vars

(* Deferred jobs come back, so that some worker asks again; a request has  *)
(* a time-out; time passes.                                                *)
Fairness ==
  /\ WF_vars(\E c \in Callers : LetOut(c))
  /\ \A c \in Callers : WF_vars(Ends(c))
  /\ WF_vars(Tick)

FairSpec == Spec /\ Fairness

-----------------------------------------------------------------------------
(* The flag that keeps everybody out stands for a probe that is under way: *)
(* whatever stragglers do, it is never left behind by a request that was   *)
(* answered, failed, raised or was cancelled.                              *)
ProbeIsUnderWay == probing => \E c \in Callers : call[c] = "probe"

(* The circuit is open exactly when the last Threshold answers were        *)
(* failures, a probe's or a straggler's included, and has tripped then.    *)
OpenMeansFailing ==
  /\ openFor # NULL <=> failures = Threshold
  /\ trips > 0 => openFor # NULL

(* No answer, whatever Retry-After it carries, closes the circuit for      *)
(* longer than the configured maximum.                                     *)
WindowIsBounded == openFor # NULL => openFor <= MaxOpenSeconds

(* An open circuit always comes to let a probe out, or closes. *)
ProbeGoesOut == openFor # NULL ~> openFor = NULL \/ \E c \in Callers : call[c] = "probe"

=============================================================================
