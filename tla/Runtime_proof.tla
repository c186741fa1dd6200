--------------------------- MODULE Runtime_proof ---------------------------
(***************************************************************************)
(* Proofs about the daemon's life, for any number of workers and requests, *)
(* any threshold, and any number of errors, stops and crashes: what the    *)
(* loops, /ready and a stop can rely on, and that the promises of Control  *)
(* hold in a daemon that ends and starts again.                            *)
(***************************************************************************)
EXTENDS Runtime, TLAPS

Resting == Alive \cup {"none", "ended", "raised"}

(* Loops exist only under the lock, and only while the daemon serves or    *)
(* stops; a CancelledError waits only while it stops, and what             *)
(* RuntimeReadiness says of the loops is true only while it serves.        *)
LifeInv ==
  /\ phase \in Phases
  /\ at \in [Loops -> Resting]
  /\ cancelled \subseteq {l \in Loops : at[l] \in Alive}
  /\ phase \notin {"down", "locking"} => lock = "ours"
  /\ phase \in {"down", "locking", "preparing", "releasing"} => \A l \in Loops : at[l] = "none"
  /\ phase = "serving" => \A l \in Loops : at[l] \in Alive \cup {"raised"}
  /\ phase # "cancelling" => cancelled = {}
  /\ phase # "serving" => flags \subseteq {"lock_held"}

LEMMA InitLife == Init => LifeInv
BY DEF Init, LifeInv, Phases, Resting

(* A loop goes from one place to the next. *)
LEMMA LoopMoves ==
  ASSUME LifeInv, NEW l \in Loops, at[l] # "none",
         NEW where \in Alive \cup {"ended", "raised"},
         where = "ended" => StopRequested,
         at' = [at EXCEPT ![l] = where],
         l \notin cancelled,
         UNCHANGED <<phase, lock, flags, cancelled>>
  PROVE  LifeInv'
<1>1. phase \in {"serving", "stopping", "cancelling"}
  BY DEF LifeInv, Phases
<1>2. at' \in [Loops -> Resting]
  BY DEF LifeInv, Resting
<1>3. phase = "serving" => \A k \in Loops : at'[k] \in Alive \cup {"raised"}
  BY DEF LifeInv, StopRequested
<1>4. QED
  BY <1>1, <1>2, <1>3 DEF LifeInv

LEMMA EndsLife == ASSUME LifeInv, ProcessEnds PROVE LifeInv'
BY DEF LifeInv, ProcessEnds, Phases, Resting

LEMMA StartLife ==
  ASSUME LifeInv, StartStep \/ LockRefused \/ StartFails
  PROVE  LifeInv'
<1>1. CASE Launch
  BY <1>1 DEF Launch, LifeInv, Phases
<1>2. CASE AcquireLock
  BY <1>2 DEF AcquireLock, LifeInv, Phases
<1>3. CASE Spawn
  BY <1>3 DEF Spawn, LifeInv, Phases, Resting, Alive
<1>4. CASE LockRefused \/ StartFails
  BY <1>4, EndsLife DEF LockRefused, StartFails
<1>5. QED
  BY <1>1, <1>2, <1>3, <1>4 DEF StartStep

LEMMA LoopLife ==
  ASSUME LifeInv, NEW l \in Loops, LoopStep(l) \/ StepRaises(l)
  PROVE  LifeInv'
<1>1. Again \in Alive \cup {"ended", "raised"} /\ (Again = "ended" => StopRequested)
  BY DEF Again, Alive
<1>2. CASE Worked(l)
  <2>1. at[l] # "none" /\ at' = [at EXCEPT ![l] = "sleep"]
    BY <1>2 DEF Worked, Runs
  <2>2. l \notin cancelled /\ UNCHANGED <<phase, lock, flags, cancelled>>
    BY <1>2 DEF Worked, Runs, process
  <2>3. QED
    BY <2>1, <2>2, LoopMoves DEF Alive
<1>3. CASE StepEnds(l)
  BY <1>1, <1>3, LoopMoves DEF StepEnds, Runs, process
<1>4. CASE Retries(l)
  BY <1>1, <1>4, LoopMoves DEF Retries, Runs, process
<1>5. CASE CancelLands(l)
  <2>1. phase = "cancelling" /\ at' = [at EXCEPT ![l] = "ended"]
    BY <1>5 DEF CancelLands, LifeInv
  <2>2. at' \in [Loops -> Resting]
    BY <2>1 DEF LifeInv, Resting
  <2>3. QED
    BY <1>5, <2>1, <2>2 DEF CancelLands, LifeInv
<1>6. CASE StepRaises(l)
  <2>1. PICK where \in {"raised", "backoff"} : at' = [at EXCEPT ![l] = where]
    BY <1>6 DEF StepRaises
  <2>2. at[l] # "none" /\ l \notin cancelled /\ UNCHANGED <<phase, lock, flags, cancelled>>
    BY <1>6 DEF StepRaises, Runs, process
  <2>3. QED
    BY <2>1, <2>2, LoopMoves DEF Alive
<1>7. QED
  BY <1>2, <1>3, <1>4, <1>5, <1>6 DEF LoopStep

LEMMA StopLife ==
  ASSUME LifeInv, BeginStop \/ StopStep \/ Crash \/ \E w \in Workers : CancelIsLost(w)
  PROVE  LifeInv'
<1>1. CASE BeginStop
  BY <1>1 DEF BeginStop, LifeInv, Phases
<1>2. CASE Cancel
  BY <1>2 DEF Cancel, LifeInv, Phases
<1>3. CASE TasksEnded
  <2>1. /\ phase = "cancelling" /\ phase' = "releasing"
        /\ at' = [l \in Loops |-> "none"]
        /\ \A l \in Loops : at[l] = "ended"
        /\ UNCHANGED <<lock, flags, cancelled>>
    BY <1>3 DEF TasksEnded, LoopsEnded
  <2>2. cancelled' = {}
    BY <2>1 DEF LifeInv, Alive
  <2>3. QED
    BY <2>1, <2>2 DEF LifeInv, Phases, Resting
<1>4. CASE StopRaises \/ Release \/ Crash
  BY <1>4, EndsLife DEF StopRaises, Release, Crash
<1>5. CASE \E w \in Workers : CancelIsLost(w)
  BY <1>5 DEF CancelIsLost, LifeInv
<1>6. QED
  BY <1>1, <1>2, <1>3, <1>4, <1>5 DEF StopStep

LEMMA NextLife == LifeInv /\ [Next]_vars => LifeInv'
<1> SUFFICES ASSUME LifeInv, [Next]_vars
             PROVE  LifeInv'
  OBVIOUS
<1>1. CASE Ask \/ ControlStep \/ UNCHANGED vars
  <2>1. UNCHANGED <<process, at>>
    BY <1>1 DEF Ask, ControlStep, vars
  <2>2. QED
    BY <2>1 DEF process, LifeInv
<1>2. CASE OtherTakes \/ OtherEnds
  BY <1>2 DEF OtherTakes, OtherEnds, LifeInv
<1>3. QED
  BY <1>1, <1>2, StartLife, LoopLife, StopLife DEF Next

-----------------------------------------------------------------------------
THEOREM LifeInvariant == Spec => []LifeInv
BY InitLife, NextLife, PTL DEF Spec

(* No loop runs without the lock, also while a stop waits for those that   *)
(* did not notice their cancellation.                                      *)
THEOREM LoopsWorkUnderLock == Spec => []WorksUnderLock
<1>1. LifeInv => WorksUnderLock
  BY DEF LifeInv, WorksUnderLock, Alive
<1>2. QED
  BY <1>1, LifeInvariant, PTL

(* What /ready promises *)
THEOREM ReadyIsTrue == Spec => []ReadyMeansWorking
<1>1. ASSUME LifeInv, Ready
      PROVE  lock = "ours" /\ \A l \in Loops : at[l] \in Alive /\ failures[l] < Threshold
  <2>1. phase = "serving"
    BY <1>1 DEF LifeInv, Ready, Flags
  <2>2. ~StopRequested
    BY <2>1 DEF StopRequested
  <2>3. QED
    BY <1>1, <2>1, <2>2 DEF LifeInv, Ready, Healthy
<1>2. LifeInv => ReadyMeansWorking
  BY <1>1 DEF ReadyMeansWorking
<1>3. QED
  BY <1>2, LifeInvariant, PTL

-----------------------------------------------------------------------------
DrainProof == INSTANCE Control_proof WITH
  requests <- requests, drain <- drain, queued <- queued, faults <- faults

(* What is proved of Control is proved of Drain: the two instances have    *)
(* the same definitions.                                                   *)
LEMMA SameInit == Drain!Init => DrainProof!Init
BY DEF Drain!Init, Drain!Ids, DrainProof!Init, DrainProof!Ids

LEMMA SameAsk == \A paths : Drain!Ask(paths) => DrainProof!Ask(paths)
BY DEF Drain!Ask, DrainProof!Ask

LEMMA SamePoll == Drain!Poll => DrainProof!Poll
<1>1. Drain!Pollable = DrainProof!Pollable
  BY DEF Drain!Pollable, Drain!InStatus, DrainProof!Pollable, DrainProof!InStatus
<1>2. \A ids : Drain!Oldest(ids) = DrainProof!Oldest(ids)
  BY Zenon DEF Drain!Oldest, DrainProof!Oldest, Drain!Cardinality, DrainProof!Cardinality
<1>3. QED
  BY <1>1, <1>2 DEF Drain!Poll, DrainProof!Poll

LEMMA SameDone == Drain!Done => DrainProof!Done
BY DEF Drain!Done, Drain!Between, DrainProof!Done, DrainProof!Between

LEMMA SameExecution ==
  /\ Drain!Claim => DrainProof!Claim
  /\ Drain!Execute => DrainProof!Execute
  /\ Drain!Complete => DrainProof!Complete
  /\ Drain!Breaks => DrainProof!Breaks
  /\ Drain!Fail => DrainProof!Fail
<1>1. Drain!Between = DrainProof!Between /\ Drain!Executing = DrainProof!Executing
  BY DEF Drain!Between, DrainProof!Between, Drain!Executing, DrainProof!Executing
<1>2. \A status : Drain!Close(status) => DrainProof!Close(status)
  BY DEF Drain!Close, DrainProof!Close
<1>3. Drain!CanComplete => DrainProof!CanComplete
  BY <1>1 DEF Drain!CanComplete, DrainProof!CanComplete
<1>4. Drain!Claim => DrainProof!Claim
  BY <1>1 DEF Drain!Claim, DrainProof!Claim
<1>5. Drain!Execute => DrainProof!Execute
  BY <1>1 DEF Drain!Execute, DrainProof!Execute
<1>6. Drain!Complete => DrainProof!Complete
  BY <1>2, <1>3 DEF Drain!Complete, DrainProof!Complete
<1>7. Drain!Breaks => DrainProof!Breaks
  BY <1>1 DEF Drain!Breaks, DrainProof!Breaks
<1>8. Drain!Fail => DrainProof!Fail
  BY <1>1, <1>2 DEF Drain!Fail, DrainProof!Fail
<1>9. QED
  BY <1>4, <1>5, <1>6, <1>7, <1>8

-----------------------------------------------------------------------------
(* To the requests, all else that happens is that a drain ends where it    *)
(* was, or nothing.                                                        *)
Leaves ==
  /\ drain' = NULL \/ UNCHANGED drain
  /\ UNCHANGED <<requests, queued>>
  /\ faults' = faults \/ (faults < MaxFaults /\ faults' = faults + 1)

LEMMA StepOfDrain == [Next]_vars => DrainProof!Next \/ Leaves
<1> SUFFICES ASSUME [Next]_vars
             PROVE  DrainProof!Next \/ Leaves
  OBVIOUS
<1>1. CASE Ask
  BY <1>1, SameAsk DEF Ask, DrainProof!Next
<1>2. CASE ControlStep
  BY <1>2, SamePoll, SameExecution DEF ControlStep, DrainProof!Next, DrainProof!DrainStep
<1>3. ASSUME NEW l \in Loops, Worked(l)
      PROVE  DrainProof!Next \/ Leaves
  <2>1. CASE l = "control"
    BY <1>3, <2>1, SameDone DEF Worked, DrainProof!Next, DrainProof!DrainStep
  <2>2. CASE l # "control"
    BY <1>3, <2>2 DEF Worked, Leaves, control
  <2>3. QED
    BY <2>1, <2>2
<1>4. ASSUME NEW l \in Loops, StepEnds(l) \/ Retries(l) \/ CancelLands(l) \/ StepRaises(l)
      PROVE  Leaves
  BY <1>4 DEF StepEnds, Retries, CancelLands, StepRaises, Leaves, control
<1>5. CASE StartStep
  BY <1>5 DEF StartStep, Launch, AcquireLock, Spawn, Leaves, control
<1>6. CASE LockRefused \/ StartFails \/ StopRaises \/ Release \/ Crash
  BY <1>6 DEF LockRefused, StartFails, StopRaises, Release, Crash, ProcessEnds, Leaves
<1>7. CASE BeginStop \/ Cancel \/ TasksEnded \/ OtherTakes \/ OtherEnds \/ UNCHANGED vars
  BY <1>7 DEF BeginStop, Cancel, TasksEnded, OtherTakes, OtherEnds, vars, Leaves, control
<1>8. ASSUME NEW w \in Workers, CancelIsLost(w)
      PROVE  Leaves
  BY <1>8 DEF CancelIsLost, Leaves, control
<1>9. QED
  BY <1>1, <1>2, <1>3, <1>4, <1>5, <1>6, <1>7, <1>8 DEF Next, LoopStep, StopStep

(* What the control loop relies on holds through the life of the daemon.   *)
THEOREM ControlInvariant == Spec => []DrainProof!ControlInv
<1>1. Init => DrainProof!ControlInv
  BY ControlAssumption, SameInit, DrainProof!InitInv DEF Init
<1>2. DrainProof!ControlInv /\ [Next]_vars => DrainProof!ControlInv'
  <2> SUFFICES ASSUME DrainProof!ControlInv, [Next]_vars
               PROVE  DrainProof!ControlInv'
    OBVIOUS
  <2>1. CASE DrainProof!Next
    BY <2>1, ControlAssumption, DrainProof!NextInv
  <2>2. CASE Leaves
    <3>1. faults' \in 0 .. MaxFaults
      BY <2>2, ControlAssumption DEF Leaves, DrainProof!ControlInv, DrainProof!TypeOK
    <3>2. QED
      BY <2>2, <3>1, ControlAssumption, DrainProof!LeaveInv DEF Leaves
  <2>3. QED
    BY <2>1, <2>2, StepOfDrain
<1>3. QED
  BY <1>1, <1>2, PTL DEF Spec

(* No file is queued twice for one request, however often the daemon       *)
(* stops, crashes, or is locked out.                                       *)
THEOREM RequestsAreExecutedOnce == Spec => []AtMostOnce
<1>1. DrainProof!ControlInv => AtMostOnce
  BY DEF DrainProof!ControlInv, DrainProof!AtMostOnce, DrainProof!Ids, AtMostOnce, Drain!AtMostOnce, Drain!Ids
<1>2. QED
  BY <1>1, ControlInvariant, PTL

(* A request is recorded as completed only when all of it has been queued. *)
THEOREM CompletedRequestsAreDone == Spec => []CompletedIsDone
<1>1. DrainProof!ControlInv => CompletedIsDone
  BY DEF DrainProof!ControlInv, DrainProof!CompletedIsDone, CompletedIsDone, Drain!CompletedIsDone
<1>2. QED
  BY <1>1, ControlInvariant, PTL

(* Requests are taken up in the order in which their rows appear, also     *)
(* across restarts.                                                        *)
THEOREM OldestRequestsFirst == Spec => []OldestFirst
<1>1. DrainProof!ControlInv => OldestFirst
  BY DEF DrainProof!ControlInv, DrainProof!OldestFirst, OldestFirst, Drain!OldestFirst
<1>2. QED
  BY <1>1, ControlInvariant, PTL

-----------------------------------------------------------------------------
(* A drain is under way only while the control loop works: whatever ends   *)
(* the step ends the drain.  A loop whose delay cannot be computed any     *)
(* more is not there to fail again.                                        *)
StepInv ==
  /\ lock \in {"free", "ours", "other"}
  /\ flags \subseteq Flags
  /\ failures \in [Loops -> 0 .. FloatLimit + 1]
  /\ stops \in 0 .. MaxStops
  /\ drain # NULL => at["control"] = "work"
  /\ \A l \in Loops : failures[l] > FloatLimit => at[l] = "raised"

LEMMA InitSteps == Init => StepInv
BY RuntimeAssumption DEF Init, StepInv, Drain!Init

(* A loop other than the control loop moves, or the drain has ended. *)
LEMMA LoopSteps ==
  ASSUME LifeInv, StepInv, NEW l \in Loops, LoopStep(l) \/ StepRaises(l)
  PROVE  StepInv'
<1> USE RuntimeAssumption
<1>1. CASE Worked(l)
  <2>1. drain' # NULL => l # "control" /\ UNCHANGED drain
    BY <1>1 DEF Worked, Drain!Done, control
  <2>2. at[l] = "work" /\ \A k \in Loops : k # l => at'[k] = at[k]
    BY <1>1 DEF Worked, Runs, LifeInv
  <2>3. QED
    BY <1>1, <2>1, <2>2 DEF Worked, process, StepInv, Loops
<1>2. CASE StepEnds(l)
  <2>1. failures' \in [Loops -> 0 .. FloatLimit + 1] /\ failures'[l] = 0
    BY <1>2 DEF StepEnds, StepInv
  <2>2. /\ at[l] = "sleep"
        /\ \A k \in Loops : k # l => at'[k] = at[k] /\ failures'[k] = failures[k]
    BY <1>2 DEF StepEnds, Runs, LifeInv, StepInv
  <2>3. QED
    BY <1>2, <2>1, <2>2 DEF StepEnds, process, control, StepInv, Loops
<1>3. CASE Retries(l)
  <2>1. at[l] = "backoff" /\ \A k \in Loops : k # l => at'[k] = at[k]
    BY <1>3 DEF Retries, Runs, LifeInv
  <2>2. QED
    BY <1>3, <2>1 DEF Retries, process, control, StepInv, Loops
<1>4. CASE CancelLands(l)
  <2>1. at[l] # "raised" /\ \A k \in Loops : k # l => at'[k] = at[k]
    BY <1>4 DEF CancelLands, LifeInv, Alive
  <2>2. QED
    BY <1>4, <2>1 DEF CancelLands, StepInv, Loops
<1>5. CASE StepRaises(l)
  <2>1. at[l] = "work" /\ \A k \in Loops : k # l => at'[k] = at[k] /\ failures'[k] = failures[k]
    BY <1>5 DEF StepRaises, Runs, LifeInv, StepInv
  <2>2. failures[l] \in 0 .. FloatLimit
    BY <2>1 DEF StepInv
  <2>3. /\ failures' \in [Loops -> 0 .. FloatLimit + 1]
        /\ failures'[l] = failures[l] + 1
        /\ at'[l] = IF failures[l] >= FloatLimit THEN "raised" ELSE "backoff"
    BY <1>5, <2>2 DEF StepRaises, StepInv, LifeInv
  <2>4. failures'[l] > FloatLimit => at'[l] = "raised"
    BY <2>2, <2>3
  <2>5. drain' # NULL => at'["control"] = "work"
    BY <1>5, <2>1 DEF StepRaises, StepInv, Loops
  <2>6. QED
    BY <1>5, <2>1, <2>3, <2>4, <2>5 DEF StepRaises, process, StepInv
<1>6. QED
  BY <1>1, <1>2, <1>3, <1>4, <1>5 DEF LoopStep

LEMMA EndsSteps ==
  ASSUME LifeInv, StepInv, ProcessEnds, stops' \in 0 .. MaxStops
  PROVE  StepInv'
BY RuntimeAssumption DEF StepInv, ProcessEnds, Flags

LEMMA NextSteps == LifeInv /\ StepInv /\ [Next]_vars => StepInv'
<1> SUFFICES ASSUME LifeInv, StepInv, [Next]_vars
             PROVE  StepInv'
  OBVIOUS
<1> USE RuntimeAssumption
<1>1. CASE Ask
  BY <1>1 DEF Ask, Drain!Ask, process, StepInv
<1>2. CASE ControlStep
  <2>1. at["control"] = "work" /\ UNCHANGED <<process, at, failures>>
    BY <1>2 DEF ControlStep, Runs
  <2>2. QED
    BY <2>1 DEF process, StepInv
<1>3. CASE StartStep
  <2>1. CASE Launch \/ AcquireLock
    BY <2>1 DEF Launch, AcquireLock, control, StepInv, Flags
  <2>2. CASE Spawn
    <3>1. at'["control"] = "work"
      BY <2>2 DEF Spawn, Loops
    <3>2. QED
      BY <2>2, <3>1 DEF Spawn, StepInv
  <2>3. QED
    BY <1>3, <2>1, <2>2 DEF StartStep
<1>4. CASE LockRefused \/ StartFails \/ StopRaises \/ Release \/ Crash
  <2>1. ProcessEnds /\ stops' \in 0 .. MaxStops
    BY <1>4 DEF LockRefused, StartFails, StopRaises, Release, Crash, StepInv
  <2>2. QED
    BY <2>1, EndsSteps
<1>5. CASE BeginStop \/ Cancel \/ OtherTakes \/ OtherEnds
  <2>1. UNCHANGED <<control, at, failures>>
    BY <1>5 DEF BeginStop, Cancel, OtherTakes, OtherEnds
  <2>2. flags' \subseteq Flags /\ lock' \in {"free", "ours", "other"} /\ stops' \in 0 .. MaxStops
    <3>1. CASE BeginStop
      BY <3>1 DEF BeginStop, StepInv, Flags
    <3>2. CASE Cancel
      BY <3>2 DEF Cancel, StepInv
    <3>3. CASE OtherTakes \/ OtherEnds
      BY <3>3 DEF OtherTakes, OtherEnds, StepInv
    <3>4. QED
      BY <1>5, <3>1, <3>2, <3>3
  <2>3. QED
    BY <2>1, <2>2 DEF control, StepInv
<1>6. CASE TasksEnded
  <2>1. drain = NULL
    BY <1>6 DEF TasksEnded, LoopsEnded, StepInv, Loops
  <2>2. QED
    BY <1>6, <2>1 DEF TasksEnded, control, StepInv
<1>7. CASE \E w \in Workers : CancelIsLost(w)
  BY <1>7 DEF CancelIsLost, control, StepInv
<1>8. CASE UNCHANGED vars
  BY <1>8 DEF vars, control, process, StepInv
<1>9. QED
  BY <1>1, <1>2, <1>3, <1>4, <1>5, <1>6, <1>7, <1>8, LoopSteps DEF Next, StopStep

(* Every variable keeps its type, and no drain outlives its step. *)
THEOREM TypeCorrect == Spec => []TypeOK
<1>1. DrainProof!TypeOK => Drain!TypeOK
  BY DEF DrainProof!TypeOK, DrainProof!Request, DrainProof!Drain, DrainProof!Ids,
         Drain!TypeOK, Drain!Request, Drain!Drain, Drain!Ids
<1>2. LifeInv /\ StepInv /\ DrainProof!ControlInv => TypeOK
  BY <1>1 DEF LifeInv, StepInv, DrainProof!ControlInv, TypeOK, Resting
<1>3. QED
  BY <1>2, LifeInvariant, ControlInvariant, InitSteps, NextSteps, PTL DEF Spec

=============================================================================
