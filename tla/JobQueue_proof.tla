--------------------------- MODULE JobQueue_proof ---------------------------
(***************************************************************************)
(* Proofs about the contract of the job queue, for any set of jobs and     *)
(* workers, any retry windows, delays and lease time, and any number of    *)
(* enqueues, restarts, heartbeats and refused calls.                       *)
(*                                                                         *)
(* The invariant of the argument, QueueInv, adds two facts to the checked  *)
(* ones: a heartbeat write under way is for a row that exists (rows are    *)
(* never deleted), and while the daemon is down every row has an attempt   *)
(* to spare, because the interruption has just granted one.                *)
(*                                                                         *)
(* At the end: what the queue can rely on in the settings it is given.     *)
(***************************************************************************)
EXTENDS JobQueue, Sequences, TLAPS

USE JobQueueAssumption, NullAssumption

-----------------------------------------------------------------------------
BeatsHaveRows == \A b \in beats : Exists(b.job)

SpareWhileDown ==
  ~up => \A j \in Jobs : Exists(j) => rows[j].attempts < MaxAttempts + restarts

QueueInv ==
  /\ TypeOK
  /\ HeldIsProcessing
  /\ BeatsHaveRows
  /\ Reachable
  /\ RequestIsOnRecord
  /\ BoundedAttempts
  /\ SpareWhileDown

-----------------------------------------------------------------------------
(* The longer of two positive windows is positive and bounds both. *)
LEMMA MaxAttemptsBounds ==
  /\ MaxAttempts \in Nat \ {0}
  /\ \A max \in Windows : max \in Nat /\ max <= MaxAttempts
BY DEF MaxAttempts, Windows

(* What enqueue_path makes of a row: a row that is pending, or still       *)
(* processed and dirty, and in either case not further attempted.          *)
LEMMA EnqueuedRow ==
  ASSUME NEW row \in Row \cup {NULL}, NEW p \in Priorities, NEW t \in Nat,
         NEW fl \in Requests
  PROVE  LET r == Enqueued(row, p, t, fl) IN
           /\ r \in Row
           /\ row # NULL /\ row.state = "processing" =>
                /\ r.state = "processing" /\ r.dirty
                /\ r.owner = row.owner /\ r.lease = row.lease
                /\ r.attempts = row.attempts
           /\ ~(row # NULL /\ row.state = "processing") =>
                r.state = "pending" /\ r.nextAt = t /\ r.attempts = 0
BY DEF Enqueued, Fresh, Row, States, Flags

(* A released row has the state and the schedule it is given, no lease, and *)
(* the attempts and the mark it had.                                       *)
LEMMA ReleasedRow ==
  ASSUME NEW row \in Row, NEW s \in States, NEW t \in Nat \cup {NULL}
  PROVE  LET r == Released(row, s, t) IN
           /\ r \in Row
           /\ r.state = s /\ r.nextAt = t
           /\ r.attempts = row.attempts /\ r.dirty = row.dirty
BY DEF Released, Row

(* A completed row that was dirty starts over; one that was not is done.   *)
LEMMA CompletedRow ==
  ASSUME NEW row \in Row, NEW t \in Nat
  PROVE  LET r == Completed(row, t) IN
           /\ r \in Row
           /\ row.dirty => r.state = "pending" /\ r.nextAt = t /\ r.attempts = 0
           /\ ~row.dirty => r.state = "completed" /\ r.attempts = row.attempts
<1> DEFINE again == Released(row, "pending", t)
           done == Released(row, "completed", NULL)
           anew == [again EXCEPT !.dirty = FALSE, !.attempts = 0]
<1>1. again \in Row /\ again.state = "pending" /\ again.nextAt = t
  BY DEF Released, Row, States
<1>2. done \in Row /\ done.state = "completed" /\ done.attempts = row.attempts
  BY DEF Released, Row, States
<1>3. Completed(row, t) = IF row.dirty THEN anew ELSE done
  BY DEF Completed
<1> HIDE DEF again, done
<1>4. anew \in Row /\ anew.state = "pending" /\ anew.nextAt = t /\ anew.attempts = 0
  BY <1>1 DEF Row
<1> HIDE DEF anew
<1> QED BY <1>2, <1>3, <1>4 DEF Row

(* A deferred row has the attempt of its lease back. *)
LEMMA DeferredRow ==
  ASSUME NEW row \in Row, NEW t \in Nat, row.attempts > 0
  PROVE  LET r == Deferred(row, t) IN
           /\ r \in Row
           /\ r.state = "pending" /\ r.nextAt = t
           /\ r.attempts = row.attempts - 1
<1> DEFINE again == Released(row, "pending", t)
<1>1. /\ again \in Row /\ again.state = "pending" /\ again.nextAt = t
      /\ again.attempts = row.attempts
  BY DEF Released, Row, States
<1>2. Deferred(row, t) =
        [again EXCEPT !.attempts = IF again.attempts > 0 THEN again.attempts - 1 ELSE 0]
  BY DEF Deferred
<1> HIDE DEF again
<1> QED BY <1>1, <1>2 DEF Row

(* A leased row is processed under a lease and has one more attempt.       *)
LEMMA LeasedRow ==
  ASSUME NEW row \in Row, NEW w \in Workers, NEW t \in Nat
  PROVE  LET r == Leased(row, w, t) IN
           /\ r \in Row
           /\ r.state = "processing" /\ r.owner = w /\ r.lease # NULL
           /\ r.attempts = row.attempts + 1
<1>1. t + LeaseTTL \in Nat /\ t + LeaseTTL # NULL /\ row.attempts + 1 \in Nat
  BY DEF Row
<1> QED BY <1>1 DEF Leased, Row, States

-----------------------------------------------------------------------------
LEMMA InitInv == Init => QueueInv
BY MaxAttemptsBounds
   DEF Init, QueueInv, TypeOK, HeldIsProcessing, BeatsHaveRows, Reachable,
       RequestIsOnRecord, BoundedAttempts, SpareWhileDown, InState, Exists

LEMMA EnqueueInv ==
  ASSUME QueueInv, NEW j \in Jobs, NEW p \in Priorities, NEW t \in ClockReads,
         NEW fl \in Requests, Enqueue(j, p, t, fl)
  PROVE  QueueInv'
<1> DEFINE r == Enqueued(rows[j], p, t, fl)
<1> USE DEF QueueInv, Enqueue
<1>1. t \in Nat /\ rows[j] \in Row \cup {NULL}
  BY DEF ClockReads, TypeOK
<1>2. /\ r \in Row
      /\ InState(j, "processing") =>
           /\ r.state = "processing" /\ r.dirty
           /\ r.owner = rows[j].owner /\ r.lease = rows[j].lease
           /\ r.attempts = rows[j].attempts
      /\ ~InState(j, "processing") =>
           r.state = "pending" /\ r.nextAt = t /\ r.attempts = 0
  BY <1>1, EnqueuedRow DEF InState, Exists
<1>3. rows' = [rows EXCEPT ![j] = r]
  OBVIOUS
<1> HIDE DEF r
<1>4. TypeOK'
  BY <1>2, <1>3 DEF TypeOK
<1>5. rows'[j] = r /\ \A i \in Jobs : i # j => rows'[i] = rows[i]
  BY <1>3 DEF TypeOK
<1>6. HeldIsProcessing'
  BY <1>2, <1>5 DEF HeldIsProcessing, HeldRow, InState, Exists, TypeOK, Held
<1>7. BeatsHaveRows'
  BY <1>2, <1>5 DEF BeatsHaveRows, Exists, TypeOK, Beat
<1>8. Reachable'
  BY <1>1, <1>2, <1>5 DEF Reachable, InState, Exists
<1>9. RequestIsOnRecord'
  BY <1>2, <1>5 DEF RequestIsOnRecord, InState, Exists, TypeOK
<1>10. BoundedAttempts' /\ SpareWhileDown'
  BY <1>2, <1>5, MaxAttemptsBounds
     DEF BoundedAttempts, SpareWhileDown, InState, Exists, TypeOK, MaxAttempts
<1> QED BY <1>4, <1>6, <1>7, <1>8, <1>9, <1>10

LEMMA LeaseInv ==
  ASSUME QueueInv, NEW w \in Workers, NEW j \in Jobs, NEW t \in ClockReads, Lease(w, j, t)
  PROVE  QueueInv'
<1> DEFINE r == Leased(rows[j], w, t)
           held == [job |-> j, attempt |-> rows[j].attempts + 1,
                    flags |-> rows[j].flags, since |-> now]
<1> USE DEF QueueInv, Lease
<1>1. t \in Nat /\ rows[j] \in Row /\ rows[j].state = "pending"
  BY DEF ClockReads, TypeOK, ReadyAt, InState, Exists
<1>2. /\ r \in Row
      /\ r.state = "processing" /\ r.owner = w /\ r.lease # NULL
      /\ r.attempts = rows[j].attempts + 1
  BY <1>1, LeasedRow
<1>3. held \in Held /\ held # NULL /\ r # NULL
  BY <1>1, <1>2 DEF Held, Row, TypeOK
<1>4. rows' = [rows EXCEPT ![j] = r] /\ work' = [work EXCEPT ![w] = held]
  OBVIOUS
<1>5. held.job = j /\ held.attempt = rows[j].attempts + 1
  OBVIOUS
<1> HIDE DEF r, held
<1>6. TypeOK'
  BY <1>2, <1>3, <1>4 DEF TypeOK
<1>7. /\ rows'[j] = r /\ \A i \in Jobs : i # j => rows'[i] = rows[i]
      /\ work'[w] = held /\ \A v \in Workers : v # w => work'[v] = work[v]
  BY <1>4 DEF TypeOK
<1>8. \A v \in Workers : work[v] # NULL => work[v].job \in Jobs /\ work[v].job # j
  BY <1>1 DEF HeldIsProcessing, InState, TypeOK, Held
<1>9. HeldIsProcessing'
  BY <1>2, <1>3, <1>5, <1>7, <1>8 DEF HeldIsProcessing, HeldRow, InState, Exists
<1>10. BeatsHaveRows'
  BY <1>3, <1>7 DEF BeatsHaveRows, Exists, TypeOK, Beat
<1>11. Reachable'
  BY <1>2, <1>7 DEF Reachable, InState, Exists
<1>12. RequestIsOnRecord'
  BY <1>7 DEF RequestIsOnRecord, InState, Exists, TypeOK
<1>13. BoundedAttempts' /\ SpareWhileDown'
  BY <1>1, <1>2, <1>7, MaxAttemptsBounds
     DEF BoundedAttempts, SpareWhileDown, InState, Exists, TypeOK, Row, MaxAttempts
<1> QED BY <1>6, <1>9, <1>10, <1>11, <1>12, <1>13

LEMMA HeartbeatInv ==
  ASSUME QueueInv
  PROVE  /\ \A w \in Workers : HeartbeatStart(w) => QueueInv'
         /\ \A b \in beats : HeartbeatWrite(b) => QueueInv'
<1> USE DEF QueueInv
<1>1. ASSUME NEW w \in Workers, HeartbeatStart(w)
      PROVE  QueueInv'
  <2> USE <1>1 DEF HeartbeatStart
  <2>1. work[w].job \in Jobs /\ Exists(work[w].job) /\ now + LeaseTTL \in Nat
    BY DEF TypeOK, Held, HeldIsProcessing, InState
  <2>2. TypeOK'
    BY <2>1 DEF TypeOK, Beat
  <2>3. BeatsHaveRows'
    BY <2>1 DEF BeatsHaveRows, Exists
  <2> QED BY <2>2, <2>3
          DEF HeldIsProcessing, HeldRow, Reachable, RequestIsOnRecord, BoundedAttempts,
              SpareWhileDown, InState, Exists, MaxAttempts
<1>2. ASSUME NEW b \in beats, HeartbeatWrite(b)
      PROVE  QueueInv'
  <2> DEFINE j == b.job
             r == [rows[j] EXCEPT !.lease = b.until]
  <2> USE <1>2 DEF HeartbeatWrite
  <2>1. j \in Jobs /\ b.until \in Nat /\ rows[j] \in Row /\ rows[j] # NULL
    BY DEF TypeOK, Beat, BeatsHaveRows, Exists
  <2>2. /\ r \in Row /\ r # NULL /\ r.lease # NULL
        /\ r.state = rows[j].state /\ r.attempts = rows[j].attempts
        /\ r.nextAt = rows[j].nextAt /\ r.dirty = rows[j].dirty /\ r.owner = rows[j].owner
    BY <2>1 DEF Row
  <2>3. rows' = [rows EXCEPT ![j] = r]
    BY <2>1 DEF TypeOK
  <2> HIDE DEF r
  <2>4. TypeOK'
    BY <2>1, <2>2, <2>3 DEF TypeOK
  <2>5. rows'[j] = r /\ \A i \in Jobs : i # j => rows'[i] = rows[i]
    BY <2>1, <2>3 DEF TypeOK
  <2>6. HeldIsProcessing' /\ BeatsHaveRows' /\ Reachable'
    BY <2>1, <2>2, <2>5
       DEF HeldIsProcessing, HeldRow, BeatsHaveRows, Reachable, InState, Exists, TypeOK, Held, Beat
  <2>7. RequestIsOnRecord' /\ BoundedAttempts' /\ SpareWhileDown'
    BY <2>1, <2>2, <2>5
       DEF RequestIsOnRecord, BoundedAttempts, SpareWhileDown, InState, Exists, TypeOK, MaxAttempts
  <2> QED BY <2>4, <2>6, <2>7
<1> QED BY <1>1, <1>2

(* A worker's job and its row, as the invariant knows them. *)
LEMMA HeldFacts ==
  ASSUME QueueInv, NEW w \in Workers, work[w] # NULL
  PROVE  /\ work[w] \in Held /\ work[w].job \in Jobs
         /\ HeldRow(w) \in Row /\ HeldRow(w).state = "processing"
         /\ HeldRow(w).attempts = work[w].attempt
         /\ HeldRow(w).attempts \in Nat /\ HeldRow(w).attempts > 0
         /\ HeldRow(w).attempts <= MaxAttempts + restarts
         /\ \A v \in Workers : v # w /\ work[v] # NULL => work[v].job # work[w].job
BY DEF QueueInv, TypeOK, Held, HeldIsProcessing, HeldRow, InState, Exists, BoundedAttempts

(* Finishing a job with a row that is no longer processed, is scheduled if *)
(* it is pending again, has an attempt to spare then, and does not drop a  *)
(* request that came during the attempt.                                   *)
LEMMA FinishInv ==
  ASSUME QueueInv, NEW w \in Workers, NEW r \in Row, Finish(w, r),
         r.state # "processing",
         r.attempts <= MaxAttempts + restarts,
         r.state = "pending" => r.nextAt # NULL /\ r.attempts < MaxAttempts + restarts,
         HeldRow(w).dirty => r.state = "pending" \/ (r.state = "failed" /\ r.dirty)
  PROVE  QueueInv'
<1> DEFINE j == work[w].job
<1> USE DEF Finish
<1>1. /\ j \in Jobs /\ rows[j].state = "processing" /\ rows[j] = HeldRow(w)
      /\ \A v \in Workers : v # w /\ work[v] # NULL => work[v].job # j
  BY HeldFacts DEF HeldRow
<1>2. rows' = [rows EXCEPT ![j] = r] /\ work' = [work EXCEPT ![w] = NULL] /\ r # NULL
  OBVIOUS
<1>3. TypeOK'
  BY <1>1, <1>2 DEF QueueInv, TypeOK
<1>4. /\ rows'[j] = r /\ \A i \in Jobs : i # j => rows'[i] = rows[i]
      /\ work'[w] = NULL /\ \A v \in Workers : v # w => work'[v] = work[v]
  BY <1>1, <1>2 DEF QueueInv, TypeOK
<1> HIDE DEF j
<1>5. HeldIsProcessing'
  BY <1>1, <1>4 DEF QueueInv, HeldIsProcessing, HeldRow, InState, Exists, TypeOK, Held
<1>6. BeatsHaveRows'
  BY <1>2, <1>4 DEF QueueInv, BeatsHaveRows, Exists, TypeOK, Beat
<1>7. Reachable'
  BY <1>4 DEF QueueInv, Reachable, InState, Exists
<1>8. RequestIsOnRecord'
  BY <1>1, <1>2, <1>4 DEF QueueInv, RequestIsOnRecord, InState, Exists, TypeOK
<1>9. BoundedAttempts' /\ SpareWhileDown'
  BY <1>4 DEF QueueInv, BoundedAttempts, SpareWhileDown, InState, Exists, TypeOK, MaxAttempts
<1> QED BY <1>3, <1>5, <1>6, <1>7, <1>8, <1>9 DEF QueueInv

(* The four ways an attempt ends *)
LEMMA FinishSomeInv ==
  ASSUME QueueInv, NEW w \in Workers, FinishSome(w)
  PROVE  QueueInv'
<1> DEFINE row == HeldRow(w)
<1>0. work[w] # NULL
  BY DEF FinishSome, Complete, Retry, Defer, Fail, Finish
<1>1. /\ row \in Row /\ row.state = "processing" /\ row.attempts = work[w].attempt
      /\ row.attempts \in Nat /\ row.attempts > 0 /\ row.attempts <= MaxAttempts + restarts
      /\ work[w] \in Held /\ now \in Nat /\ restarts \in Nat
  BY <1>0, HeldFacts DEF QueueInv, TypeOK
<1>2. RetryTimes(w) \subseteq Nat
  BY DEF RetryTimes
<1> HIDE DEF row
<1>3. ASSUME NEW t \in ClockReads, Complete(w, t)
      PROVE  QueueInv'
  <2> DEFINE r == Completed(row, t)
  <2>1. t \in Nat
    BY <1>1 DEF ClockReads
  <2>2. /\ r \in Row
        /\ row.dirty => r.state = "pending" /\ r.nextAt = t /\ r.attempts = 0
        /\ ~row.dirty => r.state = "completed" /\ r.attempts = row.attempts
    BY <1>1, <2>1, CompletedRow
  <2>3. Finish(w, r)
    BY <1>3 DEF Complete, row
  <2> HIDE DEF r
  <2>4. row.dirty \in BOOLEAN /\ t # NULL
    BY <1>1, <2>1 DEF Row
  <2>5. /\ r.state # "processing" /\ r.attempts <= MaxAttempts + restarts
        /\ r.state = "pending" => r.nextAt # NULL /\ r.attempts < MaxAttempts + restarts
        /\ row.dirty => r.state = "pending"
    BY <1>1, <2>2, <2>4, MaxAttemptsBounds
  <2> QED BY <2>2, <2>3, <2>5, FinishInv DEF row
<1>4. ASSUME NEW max \in Windows, Retry(w, max)
      PROVE  QueueInv'
  <2>1. PICK t \in RetryTimes(w) : Finish(w, Released(row, "pending", t))
    BY <1>4 DEF Retry, row
  <2> DEFINE r == Released(row, "pending", t)
  <2>2. /\ r \in Row /\ r.state = "pending" /\ r.nextAt = t /\ t # NULL
        /\ r.attempts = row.attempts
    BY <1>1, <1>2, ReleasedRow DEF States
  <2>3. Finish(w, r)
    BY <2>1
  <2> HIDE DEF r
  <2>4. r.attempts < MaxAttempts + restarts
    BY <1>1, <1>4, <2>2, MaxAttemptsBounds DEF Retry
  <2>5. r.attempts <= MaxAttempts + restarts
    BY <1>1, <2>2
  <2> QED BY <2>2, <2>3, <2>4, <2>5, FinishInv
<1>5. ASSUME Defer(w)
      PROVE  QueueInv'
  <2>1. PICK t \in RetryTimes(w) : Finish(w, Deferred(row, t))
    BY <1>5 DEF Defer, row
  <2> DEFINE r == Deferred(row, t)
  <2>2. /\ r \in Row /\ r.state = "pending" /\ r.nextAt = t /\ t # NULL
        /\ r.attempts = row.attempts - 1
    BY <1>1, <1>2, DeferredRow
  <2>3. Finish(w, r)
    BY <2>1
  <2> HIDE DEF r
  <2>4. r.attempts <= MaxAttempts + restarts /\ r.attempts < MaxAttempts + restarts
    BY <1>1, <2>2, MaxAttemptsBounds
  <2> QED BY <2>2, <2>3, <2>4, FinishInv
<1>6. ASSUME Fail(w)
      PROVE  QueueInv'
  <2> DEFINE r == Released(row, "failed", NULL)
  <2>1. r \in Row /\ r.state = "failed" /\ r.attempts = row.attempts /\ r.dirty = row.dirty
    BY <1>1 DEF Released, Row, States
  <2>2. Finish(w, r)
    BY <1>6 DEF Fail, row
  <2> HIDE DEF r
  <2> QED BY <1>1, <2>1, <2>2, FinishInv DEF row
<1> QED BY <1>3, <1>4, <1>5, <1>6 DEF FinishSome

(* A worker that loses its job leaves the row as it is. *)
LEMMA AbandonInv ==
  ASSUME QueueInv, NEW w \in Workers, Abandon(w)
  PROVE  QueueInv'
<1> USE DEF QueueInv, Abandon
<1>1. TypeOK'
  BY DEF TypeOK
<1>2. \A v \in Workers : work'[v] # NULL => work'[v] = work[v]
  BY DEF TypeOK
<1>3. HeldIsProcessing'
  BY <1>2 DEF HeldIsProcessing, HeldRow, InState, Exists
<1> QED BY <1>1, <1>3
        DEF BeatsHaveRows, Reachable, RequestIsOnRecord, BoundedAttempts,
            SpareWhileDown, InState, Exists, MaxAttempts

(* An interruption drops what was in memory, and grants an attempt. *)
LEMMA StopInv ==
  ASSUME QueueInv, Stop
  PROVE  QueueInv'
<1> USE DEF QueueInv, Stop
<1>1. TypeOK'
  <2>1. work' \in [Workers -> Held \cup {NULL}]
    OBVIOUS
  <2>2. restarts' \in Nat
    BY DEF TypeOK
  <2> QED BY <2>1, <2>2 DEF TypeOK
<1>2. HeldIsProcessing' /\ BeatsHaveRows'
  BY DEF HeldIsProcessing, BeatsHaveRows
<1>3. Reachable' /\ RequestIsOnRecord'
  BY DEF Reachable, RequestIsOnRecord, InState, Exists
<1>4. \A j \in Jobs : Exists(j) =>
        rows[j].attempts \in Nat /\ rows[j].attempts <= MaxAttempts + restarts
  BY DEF BoundedAttempts, Exists, TypeOK, Row
<1>5. MaxAttempts' = MaxAttempts /\ MaxAttempts \in Nat /\ restarts \in Nat
  BY MaxAttemptsBounds DEF MaxAttempts, TypeOK
<1>6. \A j \in Jobs : Exists(j) => rows[j].attempts < MaxAttempts + (restarts + 1)
  BY <1>4, <1>5
<1>7. BoundedAttempts' /\ SpareWhileDown'
  BY <1>4, <1>5, <1>6 DEF BoundedAttempts, SpareWhileDown, InState, Exists
<1> QED BY <1>1, <1>2, <1>3, <1>7

(* Recovery reschedules the rows whose lease has expired and touches none  *)
(* that a worker holds, since none holds any while the daemon is down.     *)
LEMMA StartInv ==
  ASSUME QueueInv, Start
  PROVE  QueueInv'
<1> USE DEF QueueInv, Start
<1>1. now \in Nat /\ now # NULL /\ rows \in [Jobs -> Row \cup {NULL}]
  BY DEF TypeOK
<1>2. ASSUME NEW j \in Jobs, LeaseExpired(j)
      PROVE  /\ Recovered(rows[j]) \in Row /\ Recovered(rows[j]) # NULL
             /\ Recovered(rows[j]).state = "pending" /\ Recovered(rows[j]).nextAt = now
             /\ Recovered(rows[j]).attempts = rows[j].attempts
  <2>1. rows[j] \in Row /\ now \in Nat
    BY <1>1, <1>2 DEF LeaseExpired, InState, Exists
  <2> QED BY <2>1 DEF Recovered, Released, Row, States
<1>3. \A j \in Jobs :
        IF LeaseExpired(j) THEN rows'[j] = Recovered(rows[j]) ELSE rows'[j] = rows[j]
  OBVIOUS
<1>4. TypeOK'
  <2>1. \A j \in Jobs : (IF LeaseExpired(j) THEN Recovered(rows[j]) ELSE rows[j]) \in Row \cup {NULL}
    BY <1>1, <1>2
  <2>2. rows' \in [Jobs -> Row \cup {NULL}]
    BY <2>1
  <2> QED BY <2>2 DEF TypeOK
<1>5. \A w \in Workers : work[w] = NULL
  BY DEF HeldIsProcessing
<1>6. HeldIsProcessing'
  BY <1>5 DEF HeldIsProcessing
<1>7. BeatsHaveRows' /\ Reachable'
  BY <1>1, <1>2, <1>3 DEF BeatsHaveRows, Reachable, InState, Exists, TypeOK, Beat
<1>8. RequestIsOnRecord'
  BY <1>2, <1>3 DEF RequestIsOnRecord, InState, Exists, TypeOK
<1>9. \A j \in Jobs : rows'[j] # NULL => rows[j] # NULL /\ rows'[j].attempts = rows[j].attempts
  BY <1>2, <1>3 DEF LeaseExpired, InState, Exists
<1>10. BoundedAttempts' /\ SpareWhileDown'
  BY <1>9 DEF BoundedAttempts, SpareWhileDown, InState, Exists, MaxAttempts
<1> QED BY <1>4, <1>6, <1>7, <1>8, <1>10

LEMMA OtherInv ==
  ASSUME QueueInv, StartScanOnce \/ Tick \/ UNCHANGED vars
  PROVE  QueueInv'
<1> USE DEF QueueInv
<1>1. /\ UNCHANGED <<rows, work, beats, restarts, owed>>
      /\ up' = up \/ (up' /\ ~up)
  BY DEF StartScanOnce, Tick, vars
<1>2. TypeOK'
  <2>1. now' \in Nat
    BY DEF StartScanOnce, Tick, vars, TypeOK
  <2>2. enqueues' \in Nat
    BY DEF StartScanOnce, Tick, vars, TypeOK
  <2>3. up' \in BOOLEAN
    BY DEF StartScanOnce, Tick, vars, TypeOK
  <2> QED BY <1>1, <2>1, <2>2, <2>3 DEF TypeOK
<1>3. HeldIsProcessing'
  BY <1>1 DEF HeldIsProcessing, HeldRow, InState, Exists
<1>4. BeatsHaveRows' /\ Reachable' /\ RequestIsOnRecord'
  BY <1>1 DEF BeatsHaveRows, Reachable, RequestIsOnRecord, InState, Exists
<1>5. BoundedAttempts' /\ SpareWhileDown'
  BY <1>1 DEF BoundedAttempts, SpareWhileDown, InState, Exists, MaxAttempts
<1> QED BY <1>2, <1>3, <1>4, <1>5

LEMMA StepInv == QueueInv /\ [Next]_vars => QueueInv'
<1> SUFFICES ASSUME QueueInv, [Next]_vars
             PROVE  QueueInv'
  OBVIOUS
<1>1. CASE \E j \in Jobs, p \in Priorities, t \in ClockReads, fl \in Requests : Enqueue(j, p, t, fl)
  BY <1>1, EnqueueInv
<1>2. CASE \E w \in Workers : LeaseSome(w)
  BY <1>2, LeaseInv DEF LeaseSome
<1>3. CASE \E w \in Workers : HeartbeatStart(w)
  BY <1>3, HeartbeatInv
<1>4. CASE \E b \in beats : HeartbeatWrite(b)
  BY <1>4, HeartbeatInv
<1>5. CASE \E w \in Workers : FinishSome(w)
  BY <1>5, FinishSomeInv
<1>6. CASE \E w \in Workers : Abandon(w)
  BY <1>6, AbandonInv
<1>7. CASE Stop
  BY <1>7, StopInv
<1>8. CASE Start
  BY <1>8, StartInv
<1>9. CASE StartScanOnce \/ Tick \/ UNCHANGED vars
  BY <1>9, OtherInv
<1> QED BY <1>1, <1>2, <1>3, <1>4, <1>5, <1>6, <1>7, <1>8, <1>9 DEF Next

(* The inductive invariant of the queue. *)
THEOREM QueueInvariant == Spec => []QueueInv
BY InitInv, StepInv, PTL DEF Spec

-----------------------------------------------------------------------------
(* Every state of the queue is well formed: attempt counts do not go       *)
(* negative, leases and schedules are times or absent.                     *)
THEOREM TypeCorrect == Spec => []TypeOK
<1>1. QueueInv => TypeOK
  BY DEF QueueInv
<1> QED BY <1>1, QueueInvariant, PTL

(* A job that a worker works on is marked as processed by that worker and  *)
(* carries the number of its attempt: the attempt the worker compares with *)
(* its retry window is that of the row it will release.                    *)
THEOREM HeldJobsAreProcessing == Spec => []HeldIsProcessing
<1>1. QueueInv => HeldIsProcessing
  BY DEF QueueInv
<1> QED BY <1>1, QueueInvariant, PTL

(* Two workers never work on the same job, because its row has one owner.  *)
THEOREM LeasesAreExclusive == Spec => []ExclusiveLease
<1>1. QueueInv => ExclusiveLease
  BY DEF QueueInv, HeldIsProcessing, HeldRow, ExclusiveLease
<1> QED BY <1>1, QueueInvariant, PTL

(* No row is ever stuck: a pending one is scheduled and a processing one   *)
(* has a lease that will have expired at some later start.                 *)
THEOREM RowsStayReachable == Spec => []Reachable
<1>1. QueueInv => Reachable
  BY DEF QueueInv
<1> QED BY <1>1, QueueInvariant, PTL

(* No request for a job is forgotten without a trace in its row. *)
THEOREM RequestsStayOnRecord == Spec => []RequestIsOnRecord
<1>1. QueueInv => RequestIsOnRecord
  BY DEF QueueInv
<1> QED BY <1>1, QueueInvariant, PTL

(* The attempts at a job are bounded by the longer retry window and the    *)
(* interruptions.                                                          *)
THEOREM AttemptsAreBounded == Spec => []BoundedAttempts
<1>1. QueueInv => BoundedAttempts
  BY DEF QueueInv
<1> QED BY <1>1, QueueInvariant, PTL

(* While a worker keeps its job, no step of anybody changes the state of   *)
(* the row or the number of its attempt: a request only marks it, a late   *)
(* heartbeat only moves its lease, and recovery finds no worker at work.   *)
THEOREM OnlyTheHolderFinishes == Spec => OnlyHolderFinishes
<1> DEFINE Kept(w) == /\ rows'[work[w].job].state = "processing"
                      /\ rows'[work[w].job].attempts = HeldRow(w).attempts
<1>1. ASSUME QueueInv, [Next]_vars, NEW w \in Workers, work[w] # NULL, work'[w] = work[w]
      PROVE  Kept(w)
  <2> DEFINE k == work[w].job
  <2>1. /\ k \in Jobs /\ rows[k] \in Row /\ rows[k] # NULL /\ rows[k].state = "processing"
        /\ up /\ HeldRow(w) = rows[k]
        /\ \A v \in Workers : v # w /\ work[v] # NULL => work[v].job # k
    BY <1>1, HeldFacts DEF HeldRow, QueueInv, HeldIsProcessing
  <2>2. rows \in [Jobs -> Row \cup {NULL}] /\ work \in [Workers -> Held \cup {NULL}]
    BY <1>1 DEF QueueInv, TypeOK
  <2>3. rows' = rows => Kept(w)
    BY <2>1
  <2>4. CASE \E j \in Jobs, p \in Priorities, t \in ClockReads, fl \in Requests : Enqueue(j, p, t, fl)
    <3>1. PICK j \in Jobs, p \in Priorities, t \in ClockReads, fl \in Requests : Enqueue(j, p, t, fl)
      BY <2>4
    <3>2. CASE j # k
      BY <2>1, <2>2, <3>1, <3>2 DEF Enqueue
    <3>3. CASE j = k
      <4>1. t \in Nat
        BY <1>1 DEF ClockReads, QueueInv, TypeOK
      <4>2. rows'[k] = Enqueued(rows[k], p, t, fl)
        BY <2>1, <2>2, <3>1, <3>3 DEF Enqueue
      <4> QED BY <2>1, <4>1, <4>2, EnqueuedRow
    <3> QED BY <3>2, <3>3
  <2>5. CASE \E v \in Workers : LeaseSome(v)
    <3>1. PICK v \in Workers, j \in Jobs, t \in ClockReads : Lease(v, j, t)
      BY <2>5 DEF LeaseSome
    <3>2. j # k
      BY <2>1, <3>1 DEF Lease, ReadyAt, InState
    <3> QED BY <2>1, <2>2, <3>1, <3>2 DEF Lease
  <2>6. CASE \E b \in beats : HeartbeatWrite(b)
    <3>1. PICK b \in beats : rows' = [rows EXCEPT ![b.job].lease = b.until]
      BY <2>6 DEF HeartbeatWrite
    <3> QED BY <2>1, <2>2, <3>1 DEF Row
  <2>7. CASE \E v \in Workers : FinishSome(v)
    <3>1. PICK v \in Workers : FinishSome(v)
      BY <2>7
    <3>2. PICK r : Finish(v, r)
      BY <3>1 DEF FinishSome, Complete, Retry, Defer, Fail
    <3>3. v # w
      BY <1>1, <2>2, <3>2 DEF Finish
    <3>4. rows' = [rows EXCEPT ![work[v].job] = r] /\ work[v].job # k
      BY <2>1, <3>2, <3>3 DEF Finish
    <3> QED BY <2>1, <2>2, <3>4
  <2>8. CASE Stop
    BY <1>1, <2>8 DEF Stop
  <2>9. CASE Start
    BY <2>1, <2>9 DEF Start
  <2>10. CASE (\E v \in Workers : HeartbeatStart(v) \/ Abandon(v)) \/ StartScanOnce \/ Tick \/ UNCHANGED vars
    BY <2>3, <2>10 DEF HeartbeatStart, Abandon, StartScanOnce, Tick, vars
  <2> QED BY <1>1, <2>4, <2>5, <2>6, <2>7, <2>8, <2>9, <2>10 DEF Next
<1>2. QueueInv /\ [Next]_vars =>
        [\A w \in Workers : work[w] # NULL /\ work'[w] = work[w] => Kept(w)]_vars
  BY <1>1
<1> QED BY <1>2, QueueInvariant, PTL DEF Spec, OnlyHolderFinishes

-----------------------------------------------------------------------------
(* What follows from validated settings, for any of them: what the queue   *)
(* assumes of Delays, and that a file has one place in the library, which  *)
(* makes its path the key of its job.                                      *)
Config == INSTANCE Settings

(* The backoff is a number of seconds between the two the window names.    *)
(* That powers of two are positive integers is a hypothesis: a proof would *)
(* be by induction.                                                        *)
LEMMA BackoffType ==
  ASSUME NEW w \in Config!RetryWindow, Config!ValidWindow(w), NEW n \in Nat,
         \A k \in Nat : 2 ^ k \in Nat \ {0}
  PROVE  Config!Backoff(w, n) \in Int /\ w.initial <= Config!Backoff(w, n) /\ Config!Backoff(w, n) <= w.max
<1> DEFINE k == IF n > 1 THEN n - 1 ELSE 0
           p == 2 ^ k
<1>1. k \in Nat
  OBVIOUS
<1>2. p \in Nat \ {0}
  BY <1>1
<1>3. w.initial \in Int /\ w.max \in Int /\ 0 < w.initial /\ w.initial <= w.max
  BY DEF Config!RetryWindow, Config!ValidWindow
<1>4. Config!Backoff(w, n) = Config!Lesser(w.initial * p, w.max)
  BY DEF Config!Backoff
<1> HIDE DEF p, k
<1>5. w.initial * p \in Int /\ w.initial <= w.initial * p
  BY <1>2, <1>3
<1>6. QED
  BY <1>3, <1>4, <1>5 DEF Config!Lesser

(* A retry is scheduled after the present, and no later than the window    *)
(* says, also when it is spread: what JobQueue assumes of Delays, and what *)
(* keeps two workers from leasing a job for one and the same schedule.     *)
THEOREM RetriesLieAhead ==
  ASSUME NEW w \in Config!RetryWindow, Config!ValidWindow(w), NEW n \in Nat,
         \A k \in Nat : 2 ^ k \in Nat \ {0}
  PROVE  \A d \in Config!RetryDelays(w, n) : d \in Nat \ {0} /\ d <= 10 * w.max
<1> DEFINE b == Config!Backoff(w, n)
<1>1. w.initial \in Int /\ w.max \in Int /\ 0 < w.initial
  BY DEF Config!RetryWindow, Config!ValidWindow
<1>2. b \in Int /\ w.initial <= b /\ b <= w.max
  BY BackoffType
<1> HIDE DEF b
<1>3. ASSUME NEW jitter \in Config!Jitter
      PROVE  Config!Lesser(b * jitter, 10 * w.max) \in Nat \ {0} /\ Config!Lesser(b * jitter, 10 * w.max) <= 10 * w.max
  <2>1. jitter \in {9, 10, 11}
    BY DEF Config!Jitter
  <2>2. b * jitter \in Int /\ 0 < b * jitter
    BY <1>1, <1>2, <2>1
  <2>3. QED
    BY <1>1, <1>2, <2>2 DEF Config!Lesser
<1>4. QED
  BY <1>3 DEF Config!RetryDelays, Config!Spread, b

(* No retry follows the last attempt. *)
LEMMA AttemptsEnd ==
  ASSUME NEW w \in Config!RetryWindow, NEW n \in Nat, n >= w.attempts
  PROVE  Config!RetryDelays(w, n) = {}
BY DEF Config!RetryDelays

(* Two directories that a file is within lie within one another. *)
LEMMA AncestorsAreAChain ==
  ASSUME NEW Names, NEW a \in Seq(Names), NEW b \in Seq(Names), NEW m \in Seq(Names),
         Config!Within(a, m), Config!Within(b, m)
  PROVE  a = b \/ Config!Below(a, b) \/ Config!Below(b, a)
<1>1. Len(a) \in Nat /\ Len(b) \in Nat /\ Len(m) \in Nat
  OBVIOUS
<1>2. /\ Len(a) <= Len(m) /\ \A i \in 1 .. Len(a) : a[i] = m[i]
      /\ Len(b) <= Len(m) /\ \A i \in 1 .. Len(b) : b[i] = m[i]
  BY <1>1 DEF Config!Within, Config!Below
<1>3. CASE Len(a) < Len(b)
  BY <1>1, <1>2, <1>3 DEF Config!Below
<1>4. CASE Len(b) < Len(a)
  BY <1>1, <1>2, <1>4 DEF Config!Below
<1>5. CASE Len(a) = Len(b)
  <2>1. \A i \in 1 .. Len(a) : a[i] = b[i]
    BY <1>1, <1>2, <1>5
  <2>2. QED
    BY <1>5, <2>1
<1>6. QED
  BY <1>1, <1>3, <1>4, <1>5

(* All roots that a file matches are one directory: events, requests and   *)
(* scans that find the file below different roots differ in the name only. *)
THEOREM MatchIsUnique ==
  ASSUME NEW Names, NULL \notin Seq(Names),
         NEW roots \in Seq(Config!Root(Names)), Config!ValidRoots(roots),
         NEW media \in Seq(Names),
         NEW i \in Config!Matches(roots, media), NEW j \in Config!Matches(roots, media)
  PROVE  roots[i].target = roots[j].target
<1>1. i \in DOMAIN roots /\ j \in DOMAIN roots
  BY DEF Config!Matches
<1>2. roots[i].target \in Seq(Names) /\ roots[j].target \in Seq(Names)
  <2>1. roots[i] \in Config!Root(Names) /\ roots[j] \in Config!Root(Names)
    BY <1>1
  <2>2. roots[i].target # NULL /\ roots[j].target # NULL
    BY <1>1 DEF Config!ValidRoots
  <2>3. QED
    BY <2>1, <2>2 DEF Config!Root
<1>3. Config!Within(roots[i].target, media) /\ Config!Within(roots[j].target, media)
  BY DEF Config!Matches
<1>4. CASE i = j
  BY <1>4
<1>5. CASE i # j
  <2>1. ~Config!Below(roots[i].target, roots[j].target) /\ ~Config!Below(roots[j].target, roots[i].target)
    BY <1>1, <1>5 DEF Config!ValidRoots
  <2>2. QED
    BY <1>2, <1>3, <2>1, AncestorsAreAChain
<1>6. QED
  BY <1>4, <1>5

=============================================================================
