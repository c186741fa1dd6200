------------------------------ MODULE Runtime ------------------------------
(***************************************************************************)
(* The daemon's life: start and stop (bootstrap.py), the instance lock     *)
(* (infrastructure/filesystem/locking.py), the supervisor of its loops     *)
(* (application/supervision.py), what /health and /ready answer            *)
(* (interfaces/http/app.py), and, inside the control loop, Control.        *)
(*                                                                         *)
(* The other loops differ in what a step does and are modelled elsewhere:  *)
(* here a step works, in which it may raise, and then sleeps.  The flags   *)
(* config_loaded, migrations_complete and database_ready are set on the    *)
(* way to the others and stay.  Definitions whose name begins with Slip    *)
(* are mistakes that could be made in the definition that follows; model   *)
(* checking notices them.                                                  *)
(***************************************************************************)
EXTENDS Sequences, FiniteSets, ControlConstants

CONSTANTS
  Workers,      \* the worker loops
  Threshold,    \* failure_threshold of the supervisor
  FloatLimit,   \* the first power of 2 that no float holds: 1024
  MaxStops      \* bound: stops, crashes, and times that somebody else has the lock

ASSUME RuntimeAssumption ==
  /\ Threshold \in Nat \ {0}
  /\ FloatLimit \in Nat
  /\ Threshold <= FloatLimit
  /\ MaxStops \in Nat
  /\ "control" \notin Workers

VARIABLES
  requests, drain, queued, faults,   \* of Control
  phase,        \* how far the process has come
  lock,         \* who holds the instance lock
  flags,        \* RuntimeReadiness: those of its fields that are true
  at,           \* where each loop is
  failures,     \* _failures of the supervisor
  cancelled,    \* loops at whose await a CancelledError waits
  stops         \* counter for the bound

control == <<requests, drain, queued>>
process == <<phase, lock, flags, cancelled, stops>>
vars == <<control, faults, process, at, failures>>

Drain == INSTANCE Control WITH
  requests <- requests, drain <- drain, queued <- queued, faults <- faults

Loops == Workers \cup {"control"}
Phases == {"down", "locking", "preparing", "serving", "stopping", "cancelling", "releasing"}
Flags == {"lock_held", "discovery_active", "worker_active"}
Alive == {"work", "sleep", "backoff"}   \* the task has not ended

TypeOK ==
  /\ Drain!TypeOK
  /\ phase \in Phases
  /\ lock \in {"free", "ours", "other"}
  /\ flags \subseteq Flags
  /\ at \in [Loops -> Alive \cup {"none", "ended", "raised"}]
  /\ failures \in [Loops -> 0 .. FloatLimit + 1]
  /\ cancelled \subseteq {l \in Loops : at[l] \in Alive}
  /\ stops \in 0 .. MaxStops
  /\ drain # NULL => at["control"] = "work"

Init ==
  /\ Drain!Init
  /\ phase = "down"
  /\ lock = "free"
  /\ flags = {}
  /\ at = [l \in Loops |-> "none"]
  /\ failures = [l \in Loops |-> 0]
  /\ cancelled = {}
  /\ stops = 0

-----------------------------------------------------------------------------
(* the event is only set when the loops have ended *)
SlipStopRequested == phase = "releasing"

(* _stop_event *)
StopRequested == phase \in {"stopping", "cancelling", "releasing"}

Healthy ==
  /\ \A l \in Loops : failures[l] < Threshold
  /\ StopRequested \/ \A l \in Loops : at[l] \notin {"ended", "raised"}

(* What /ready answers. *)
Ready == flags = Flags /\ Healthy

(* The process is gone, and with it what it kept in memory and its lock. *)
ProcessEnds ==
  /\ phase' = "down"
  /\ lock' = IF lock = "ours" THEN "free" ELSE lock
  /\ flags' = {}
  /\ at' = [l \in Loops |-> "none"]
  /\ failures' = [l \in Loops |-> 0]
  /\ cancelled' = {}
  /\ drain' = NULL
  /\ UNCHANGED <<requests, queued>>

-----------------------------------------------------------------------------
(* start *)
Launch ==
  /\ phase = "down"
  /\ phase' = "locking"
  /\ UNCHANGED <<control, faults, lock, flags, cancelled, stops, at, failures>>

AcquireLock ==
  /\ phase = "locking"
  /\ lock = "free"
  /\ lock' = "ours"
  /\ flags' = {"lock_held"}
  /\ phase' = "preparing"
  /\ UNCHANGED <<control, faults, cancelled, stops, at, failures>>

(* Another daemon or a one-off scan works on the state directory. *)
LockRefused ==
  /\ phase = "locking"
  /\ lock = "other"
  /\ ProcessEnds
  /\ UNCHANGED <<faults, stops>>

(* Migrations, recovery, the watcher and the startup scan; then the loops  *)
(* are spawned.                                                            *)
Spawn ==
  /\ phase = "preparing"
  /\ phase' = "serving"
  /\ at' = [l \in Loops |-> "work"]
  /\ failures' = [l \in Loops |-> 0]
  /\ flags' = Flags
  /\ UNCHANGED <<control, faults, lock, cancelled, stops>>

(* One of them raises: the process exits without a stop. *)
StartFails ==
  /\ phase = "preparing"
  /\ faults < MaxFaults
  /\ faults' = faults + 1
  /\ ProcessEnds
  /\ UNCHANGED stops

-----------------------------------------------------------------------------
(* The loops under LoopSupervisor._run: l goes on unless a CancelledError  *)
(* waits for it.                                                           *)
Runs(l, where) == at[l] = where /\ l \notin cancelled

(* What a loop does when its while condition is next evaluated. *)
Again == IF StopRequested THEN "ended" ELSE "work"

(* A step has done its work and sleeps.  That of the control loop is a     *)
(* drain.                                                                  *)
Worked(l) ==
  /\ Runs(l, "work")
  /\ at' = [at EXCEPT ![l] = "sleep"]
  /\ IF l = "control" THEN Drain!Done ELSE UNCHANGED <<control, faults>>
  /\ UNCHANGED <<process, failures>>

(* the failures of the past still count *)
SlipStepEnds(l) ==
  /\ Runs(l, "sleep")
  /\ at' = [at EXCEPT ![l] = Again]
  /\ UNCHANGED <<control, faults, process, failures>>

StepEnds(l) ==
  /\ Runs(l, "sleep")
  /\ at' = [at EXCEPT ![l] = Again]
  /\ failures' = [failures EXCEPT ![l] = 0]
  /\ UNCHANGED <<control, faults, process>>

(* the drain goes on where it was *)
SlipStepRaises(l) ==
  /\ Runs(l, "work")
  /\ faults < MaxFaults
  /\ faults' = faults + 1
  /\ failures' = [failures EXCEPT ![l] = @ + 1]
  /\ at' = [at EXCEPT ![l] = IF failures[l] >= FloatLimit THEN "raised" ELSE "backoff"]
  /\ UNCHANGED <<control, process>>

(* A step raises: the loop waits before it tries again.  From FloatLimit   *)
(* failures in a row on, the computation of the delay raises in turn, and  *)
(* the task ends.                                                          *)
StepRaises(l) ==
  /\ Runs(l, "work")
  /\ faults < MaxFaults
  /\ faults' = faults + 1
  /\ failures' = [failures EXCEPT ![l] = @ + 1]
  /\ at' = [at EXCEPT ![l] = IF failures[l] >= FloatLimit THEN "raised" ELSE "backoff"]
  /\ drain' = IF l = "control" THEN NULL ELSE drain
  /\ UNCHANGED <<requests, queued, process>>

Retries(l) ==
  /\ Runs(l, "backoff")
  /\ at' = [at EXCEPT ![l] = Again]
  /\ UNCHANGED <<control, faults, process, failures>>

(* The step of the control loop is a drain. *)
ControlStep ==
  /\ Runs("control", "work")
  /\ Drain!Poll \/ Drain!Claim \/ Drain!Execute \/ Drain!Complete \/ Drain!Breaks \/ Drain!Fail
  /\ UNCHANGED <<process, at, failures>>

(* The command line asks, whether or not a daemon runs. *)
Ask ==
  /\ (\E p \in Paths : Drain!Ask({p})) \/ Drain!Ask(Paths)
  /\ UNCHANGED <<process, at, failures>>

-----------------------------------------------------------------------------
(* the daemon stays ready until the process ends *)
SlipBeginStop ==
  /\ phase = "serving"
  /\ stops < MaxStops
  /\ stops' = stops + 1
  /\ phase' = "stopping"
  /\ UNCHANGED <<control, faults, lock, flags, cancelled, at, failures>>

(* stop *)
BeginStop ==
  /\ phase = "serving"
  /\ stops < MaxStops
  /\ stops' = stops + 1
  /\ phase' = "stopping"
  /\ flags' = {"lock_held"}
  /\ UNCHANGED <<control, faults, lock, cancelled, at, failures>>

(* the lock is let go before the loops have ended *)
SlipCancel ==
  /\ phase = "stopping"
  /\ phase' = "cancelling"
  /\ cancelled' = {l \in Loops : at[l] \in Alive}
  /\ lock' = "free"
  /\ UNCHANGED <<control, faults, flags, stops, at, failures>>

(* The watcher has stopped; LoopSupervisor.stop cancels the tasks ... *)
Cancel ==
  /\ phase = "stopping"
  /\ phase' = "cancelling"
  /\ cancelled' = {l \in Loops : at[l] \in Alive}
  /\ UNCHANGED <<control, faults, lock, flags, stops, at, failures>>

(* ... and waits until they have ended.                                    *)
CancelLands(l) ==
  /\ l \in cancelled
  /\ cancelled' = cancelled \ {l}
  /\ at' = [at EXCEPT ![l] = "ended"]
  /\ drain' = IF l = "control" THEN NULL ELSE drain
  /\ UNCHANGED <<requests, queued, faults, phase, lock, flags, stops, failures>>

(* A worker that awaits the end of its heartbeat task, in the finally      *)
(* clause of process_next, does not notice: its suppress catches the       *)
(* CancelledError, or the exception the heartbeat died of replaces it.     *)
CancelIsLost(w) ==
  /\ w \in cancelled
  /\ at[w] = "work"
  /\ cancelled' = cancelled \ {w}
  /\ UNCHANGED <<control, faults, phase, lock, flags, stops, at, failures>>

LoopsEnded == \A l \in Loops : at[l] = "ended"

(* All have ended; the supervisor forgets them, and the provider's client  *)
(* is closed.                                                              *)
TasksEnded ==
  /\ phase = "cancelling"
  /\ LoopsEnded
  /\ phase' = "releasing"
  /\ at' = [l \in Loops |-> "none"]
  /\ failures' = [l \in Loops |-> 0]
  /\ UNCHANGED <<control, faults, lock, flags, cancelled, stops>>

(* Awaiting a task that has ended in an exception raises it: the rest of   *)
(* stop is skipped, the process exits, and the lock goes with it.          *)
StopRaises ==
  /\ phase = "cancelling"
  /\ \E l \in Loops : at[l] = "raised"
  /\ ProcessEnds
  /\ UNCHANGED <<faults, stops>>

Release ==
  /\ phase = "releasing"
  /\ ProcessEnds
  /\ UNCHANGED <<faults, stops>>

Crash ==
  /\ phase # "down"
  /\ stops < MaxStops
  /\ stops' = stops + 1
  /\ ProcessEnds
  /\ UNCHANGED faults

(* Another daemon, or a one-off scan, on the same state directory *)
OtherTakes ==
  /\ lock = "free"
  /\ stops < MaxStops
  /\ stops' = stops + 1
  /\ lock' = "other"
  /\ UNCHANGED <<control, faults, phase, flags, cancelled, at, failures>>

OtherEnds ==
  /\ lock = "other"
  /\ lock' = "free"
  /\ UNCHANGED <<control, faults, phase, flags, cancelled, stops, at, failures>>

-----------------------------------------------------------------------------
StartStep == Launch \/ AcquireLock \/ Spawn
StopStep == Cancel \/ TasksEnded \/ StopRaises \/ Release
LoopStep(l) == Worked(l) \/ StepEnds(l) \/ Retries(l) \/ CancelLands(l)

Next ==
  \/ Ask \/ ControlStep
  \/ StartStep \/ LockRefused \/ StartFails
  \/ BeginStop \/ StopStep \/ Crash
  \/ \E l \in Loops : LoopStep(l) \/ StepRaises(l)
  \/ \E w \in Workers : CancelIsLost(w)
  \/ OtherTakes \/ OtherEnds

Spec == Init /\ [][Next]_vars

(* The container restarts the daemon, thread calls and sleeps end, and     *)
(* whoever else takes the lock lets go of it.                              *)
Fairness ==
  /\ WF_vars(Launch) /\ WF_vars(AcquireLock) /\ WF_vars(Spawn)
  /\ WF_vars(StopStep)
  /\ WF_vars(ControlStep)
  /\ \A l \in Loops : WF_vars(LoopStep(l))
  /\ WF_vars(OtherEnds)

FairSpec == Spec /\ Fairness

-----------------------------------------------------------------------------
(* Whoever is told that the daemon is ready can rely on every loop being   *)
(* alive, under the lock, and not failing over and over.                   *)
ReadyMeansWorking ==
  Ready => /\ lock = "ours"
           /\ \A l \in Loops : at[l] \in Alive /\ failures[l] < Threshold

(* No loops of two processes work on one state directory: the lock is let  *)
(* go only when no loop runs any more, also of those that did not notice   *)
(* their cancellation.  Calls that a cancelled loop has left behind in a   *)
(* thread are not loops, and may outlive the lock.                         *)
WorksUnderLock == (\E l \in Loops : at[l] \in Alive) => lock = "ours"

(* A stop comes to its end, although a worker can lose its cancellation    *)
(* and although stop itself can raise.                                     *)
StopFinishes == phase = "stopping" ~> phase = "down"

AnyRaised == \E l \in Loops : at[l] = "raised"

(* A loop whose steps have failed over and over makes the daemon healthy   *)
(* again when they succeed.                                                *)
HealthReturns == ~Healthy ~> Healthy \/ AnyRaised

(* Control's promises, with its loop under supervision in a daemon that is *)
(* stopped, crashes and is locked out.                                     *)
(* No file is queued twice for one request.                                *)
AtMostOnce == Drain!AtMostOnce

(* A completed request has been executed in full. *)
CompletedIsDone == Drain!CompletedIsDone

(* Of two requests, the older one is taken up first, the rows being taken  *)
(* to appear in the order of requested_at (see Control).                   *)
OldestFirst == Drain!OldestFirst

(* A request is taken up in the end, unless the control loop has died. *)
EveryRequestIsTaken ==
  \A r \in Drain!Ids :
    r \in Drain!InStatus({"pending"}) ~>
      r \in Drain!InStatus({"claimed", "completed", "failed"}) \/ at["control"] = "raised"

(* "A step that raises is logged and retried after an exponentially        *)
(* growing delay instead of ending its loop" (application/supervision.py). *)
NoLoopIsLost == \A l \in Loops : at[l] # "raised"

=============================================================================
