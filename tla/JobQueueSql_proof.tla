-------------------------- MODULE JobQueueSql_proof --------------------------
(***************************************************************************)
(* Proofs about the job queue at the granularity of its SQL statements,    *)
(* for any number of jobs, workers, producers and requests: what holds     *)
(* whatever interleaves, and that the methods of two statements are the    *)
(* contract's indivisible ones until a call has crossed a request.         *)
(*                                                                         *)
(* Base is inductive by itself.  The invariant SqlInv adds to it what a    *)
(* worker between its two statements knows, which lasts until calls cross: *)
(* of the row of its lease query, that it is as it was read, or cannot be  *)
(* leased for the time of the query; of the row it is about to complete,   *)
(* that the columns it has read are as they were.  There is one lemma per  *)
(* action for Base, and one for the rest together with the step of the     *)
(* contract.                                                               *)
(***************************************************************************)
EXTENDS JobQueueSql, FiniteSetTheorems, TLAPS
(* What a call between its statements is about, whoever else writes: rows  *)
(* are never deleted, so what was read of one still has one.               *)
CallsFit ==
  /\ now <= MaxTime
  /\ enqueues + Cardinality({l \in Enqueuers : call[l] # NULL}) <= MaxEnqueues
  /\ \A b \in beats : rows[b.job] # NULL
  /\ \A w \in Workers : work[w] # NULL => rows[work[w].job] # NULL
  /\ \A l \in Loops : call[l] # NULL =>
       /\ up /\ spawned
       /\ call[l].seen # NULL => rows[call[l].job] # NULL
  /\ \A e \in Enqueuers : call[e] # NULL => call[e].priority \in Priorities /\ call[e].flags \in Requests
  /\ \A w \in Workers : call[w] # NULL =>
       /\ call[w].seen # NULL
       /\ work[w] # NULL => call[w].job = work[w].job

(* The row that the lease query has found is, while it can still be        *)
(* leased for the time of the query, the one that was read: whoever took   *)
(* it since did so after that time, and schedules it later still.          *)
LeaseReads(w) ==
  LET c == call[w] IN
  /\ Contract!ReadyAt(c.job, c.at) =>
       /\ rows[c.job].attempts = c.seen.attempts
       /\ rows[c.job].flags = c.seen.flags
  /\ \A v \in Workers : Contract!HeldBy(v, c.job) => work[v].since >= c.at

(* The columns that the completion has read are those of the row. *)
CompleteReads(w) ==
  LET c == call[w] IN
  /\ rows[c.job].dirty = c.seen.dirty
  /\ rows[c.job].attempts = c.seen.attempts

ReadsHold ==
  \A w \in Workers : call[w] # NULL /\ ~call[w].crossed =>
    IF work[w] = NULL THEN LeaseReads(w) ELSE CompleteReads(w)

SqlInv ==
  /\ TypeOK
  /\ CallsFit
  /\ PendingIsScheduled
  /\ ~crossing => Contract!HeldIsProcessing /\ ReadsHold

-----------------------------------------------------------------------------
LEMMA SameShapes == Contract!Row = Row /\ Contract!Held = Held
BY DEF Contract!Row, Contract!Held, Contract!States, Contract!Flags, Row, Held, States, Flags

(* What the methods make of a row *)
LEMMA ReleasedRow ==
  ASSUME NEW row \in Row, NEW s \in States, NEW t \in Nat \cup {NULL}
  PROVE  LET r == Contract!Released(row, s, t) IN
           /\ r \in Row /\ r.state = s /\ r.nextAt = t
           /\ r.attempts = row.attempts /\ r.dirty = row.dirty
BY DEF Contract!Released, Row

LEMMA CompletedRow ==
  ASSUME NEW row \in Row, NEW t \in Nat
  PROVE  LET r == Contract!Completed(row, t) IN
           /\ r \in Row
           /\ row.dirty => r.state = "pending" /\ r.nextAt = t
           /\ ~row.dirty => r.state = "completed"
<1> DEFINE again == Contract!Released(row, "pending", t)
           done == Contract!Released(row, "completed", NULL)
           anew == [again EXCEPT !.dirty = FALSE, !.attempts = 0]
<1>1. again \in Row /\ again.state = "pending" /\ again.nextAt = t
  BY ReleasedRow DEF States
<1>2. done \in Row /\ done.state = "completed"
  BY DEF Contract!Released, Row, States
<1>3. Contract!Completed(row, t) = IF row.dirty THEN anew ELSE done
  BY DEF Contract!Completed
<1> HIDE DEF again, done
<1>4. anew \in Row /\ anew.state = "pending" /\ anew.nextAt = t
  BY <1>1 DEF Row
<1>5. QED
  BY <1>2, <1>3, <1>4

LEMMA DeferredRow ==
  ASSUME NEW row \in Row, NEW t \in Nat
  PROVE  LET r == Contract!Deferred(row, t) IN
           r \in Row /\ r.state = "pending" /\ r.nextAt = t
<1> DEFINE again == Contract!Released(row, "pending", t)
<1>1. again \in Row /\ again.state = "pending" /\ again.nextAt = t
  BY ReleasedRow DEF States
<1>2. Contract!Deferred(row, t) =
        [again EXCEPT !.attempts = IF again.attempts > 0 THEN again.attempts - 1 ELSE 0]
  BY DEF Contract!Deferred
<1> HIDE DEF again
<1>3. (IF again.attempts > 0 THEN again.attempts - 1 ELSE 0) \in Nat
  BY <1>1 DEF Row
<1>4. QED
  BY <1>1, <1>2, <1>3 DEF Row

LEMMA LeasedRow ==
  ASSUME NEW row \in Row, NEW w \in Workers, NEW t \in Nat, NEW n \in Nat
  PROVE  LET r == [Contract!Leased(row, w, t) EXCEPT !.attempts = n] IN
           r \in Row /\ r.state = "processing" /\ r.owner = w
<1>1. t + LeaseTTL \in Nat
  BY JobQueueAssumption
<1>2. row.attempts + 1 \in Nat
  BY DEF Row
<1>3. QED
  BY <1>1, <1>2 DEF Contract!Leased, Row, States

LEMMA EnqueuedRow ==
  ASSUME NEW row \in Row \cup {NULL}, NEW p \in Priorities, NEW t \in Nat, NEW fl \in SUBSET Flags
  PROVE  LET r == Contract!Enqueued(row, p, t, fl) IN
           /\ r \in Row /\ r.state \in {"pending", "processing"}
           /\ r.state = "pending" => r.nextAt = t
BY DEF Contract!Enqueued, Contract!Fresh, Row, States

(* What an UPDATE writes is of the row that was read, but for the lease.   *)
LEMMA OverwrittenRow ==
  ASSUME NEW row \in Row, NEW c \in Calls, c.priority \in Priorities, c.seen # NULL
  PROVE  LET r == Overwritten(row, c) IN
           /\ r \in Row /\ r.state \in {"pending", "processing"}
           /\ r.state = "pending" => r.nextAt = c.at
<1> DEFINE e == Contract!Enqueued(c.seen, c.priority, c.at, c.flags)
<1>1. e \in Row /\ e.state \in {"pending", "processing"} /\ (e.state = "pending" => e.nextAt = c.at)
  BY EnqueuedRow DEF Calls
<1>2. Overwritten(row, c) = [e EXCEPT !.owner = row.owner, !.lease = row.lease]
  BY DEF Overwritten
<1> HIDE DEF e
<1>3. QED
  BY <1>1, <1>2 DEF Row

-----------------------------------------------------------------------------
(* The rows stay rows, stay there, and stay scheduled while pending.       *)
RowsStay ==
  /\ rows' \in [Jobs -> Row \cup {NULL}]
  /\ \A j \in Jobs : rows[j] # NULL => rows'[j] # NULL
  /\ PendingIsScheduled'

LEMMA RowChanges ==
  ASSUME TypeOK, PendingIsScheduled, NEW j \in Jobs, NEW r \in Row,
         r.state = "pending" => r.nextAt # NULL,
         rows' = [rows EXCEPT ![j] = r]
  PROVE  RowsStay
<1>1. rows \in [Jobs -> Row \cup {NULL}] /\ r # NULL
  BY SameShapes, NullAssumption DEF TypeOK, Contract!TypeOK
<1>2. rows' \in [Jobs -> Row \cup {NULL}] /\ rows'[j] = r /\ \A i \in Jobs : i # j => rows'[i] = rows[i]
  BY <1>1
<1>3. PendingIsScheduled'
  BY <1>1, <1>2 DEF PendingIsScheduled, Contract!InState, Contract!Exists
<1>4. QED
  BY <1>1, <1>2, <1>3 DEF RowsStay

LEMMA RowsUnchanged ==
  ASSUME TypeOK, PendingIsScheduled, rows' = rows
  PROVE  RowsStay
BY SameShapes DEF RowsStay, TypeOK, Contract!TypeOK, PendingIsScheduled, Contract!InState, Contract!Exists

-----------------------------------------------------------------------------
(* What holds whatever crosses *)
Base == TypeOK /\ CallsFit /\ PendingIsScheduled

Busy == {e \in Enqueuers : call[e] # NULL}

LEMMA BusyIsFinite ==
  /\ IsFiniteSet(Busy) /\ Cardinality(Busy) \in Nat
  /\ IsFiniteSet(Busy') /\ Cardinality(Busy') \in Nat
<1>1. IsFiniteSet(Enqueuers) /\ Busy \subseteq Enqueuers /\ Busy' \subseteq Enqueuers
  BY JobQueueSqlAssumption DEF Busy
<1>2. IsFiniteSet(Busy) /\ IsFiniteSet(Busy')
  BY <1>1, FS_Subset
<1>3. QED
  BY <1>2, FS_CardinalityType

LEMMA InitBase == Init => Base
<1> SUFFICES ASSUME Init
             PROVE  Base
  OBVIOUS
<1>1. TypeOK
  BY JobQueueAssumption DEF Init, TypeOK, Contract!Init, Contract!TypeOK
<1>2. Busy = {}
  BY DEF Init, Busy, Loops
<1>3. enqueues + Cardinality(Busy) <= MaxEnqueues
  BY <1>2, FS_EmptySet, JobQueueAssumption DEF Init, Contract!Init
<1>4. CallsFit
  BY <1>3, JobQueueAssumption DEF CallsFit, Init, Contract!Init, Busy, Loops
<1>5. PendingIsScheduled
  BY DEF PendingIsScheduled, Init, Contract!Init, Contract!InState, Contract!Exists
<1>6. QED
  BY <1>1, <1>4, <1>5 DEF Base

(* The calls under way after a step were so before it, and crossed at most *)
(* by it.                                                                  *)
CallsEnd ==
  /\ call' \in [Loops -> Calls \cup {NULL}]
  /\ \A l \in Loops : call'[l] # NULL =>
       /\ call[l] # NULL
       /\ call'[l] = call[l] \/ call'[l] = [call[l] EXCEPT !.crossed = TRUE]

LEMMA CallKept ==
  ASSUME TypeOK, CallsEnd, NEW l \in Loops, call'[l] # NULL
  PROVE  /\ call[l] \in Calls /\ call'[l] \in Calls /\ call[l] # NULL
         /\ call'[l].job = call[l].job /\ call'[l].priority = call[l].priority
         /\ call'[l].flags = call[l].flags /\ call'[l].at = call[l].at
         /\ call'[l].seen = call[l].seen
         /\ call'[l].crossed \/ call'[l] = call[l]
BY DEF TypeOK, CallsEnd, Calls

LEMMA EndsBase ==
  ASSUME Base, RowsStay, CallsEnd,
         work' \in [Workers -> Held \cup {NULL}],
         beats' \subseteq Contract!Beat, now' \in Nat, now <= now', now' <= MaxTime,
         up' \in BOOLEAN, enqueues' \in Nat, restarts' \in Nat, owed' \subseteq Jobs,
         spawned' \in BOOLEAN, crossing' \in BOOLEAN,
         \A b \in beats' : rows'[b.job] # NULL,
         \A w \in Workers : work'[w] # NULL => rows'[work'[w].job] # NULL,
         \A w \in Workers : call'[w] # NULL => work'[w] = work[w],
         \A l \in Loops : call'[l] # NULL => up' /\ spawned',
         enqueues' + Cardinality(Busy') <= MaxEnqueues
  PROVE  Base'
<1>1. TypeOK'
  <2>1. Contract!TypeOK'
    BY SameShapes DEF Contract!TypeOK, RowsStay
  <2>2. \A l \in Loops : call'[l] # NULL => call'[l].at <= now'
    <3> SUFFICES ASSUME NEW l \in Loops, call'[l] # NULL
                 PROVE  call'[l].at <= now'
      OBVIOUS
    <3>1. call'[l].at = call[l].at /\ call[l] # NULL /\ call[l].at \in Nat
      BY CallKept DEF Base, Calls
    <3>2. QED
      BY <3>1 DEF Base, TypeOK, Contract!TypeOK
  <2>3. QED
    BY <2>1, <2>2 DEF TypeOK, CallsEnd
<1>2. CallsFit'
  <2>1. ASSUME NEW l \in Loops, call'[l] # NULL
        PROVE  /\ up' /\ spawned'
               /\ call'[l].seen # NULL => rows'[call'[l].job] # NULL
    <3>1. /\ call[l] # NULL /\ call[l] \in Calls
          /\ call'[l].job = call[l].job /\ call'[l].seen = call[l].seen
      BY <2>1, CallKept DEF Base
    <3>2. QED
      BY <2>1, <3>1 DEF Base, CallsFit, RowsStay, Calls
  <2>2. ASSUME NEW e \in Enqueuers, call'[e] # NULL
        PROVE  call'[e].priority \in Priorities /\ call'[e].flags \in Requests
    BY <2>2, CallKept DEF Base, CallsFit, Loops
  <2>3. ASSUME NEW w \in Workers, call'[w] # NULL
        PROVE  /\ call'[w].seen # NULL
               /\ work'[w] # NULL => call'[w].job = work'[w].job
    BY <2>3, CallKept DEF Base, CallsFit, Loops
  <2>4. QED
    BY <2>1, <2>2, <2>3 DEF CallsFit, Busy
<1>3. QED
  BY <1>1, <1>2 DEF Base, RowsStay

(* Fewer calls are under way than before. *)
LEMMA FewerBusy ==
  ASSUME Base, CallsEnd
  PROVE  Cardinality(Busy') <= Cardinality(Busy)
<1>1. Busy' \subseteq Busy
  BY DEF Busy, CallsEnd, Loops
<1>2. QED
  BY <1>1, BusyIsFinite, FS_Subset

-----------------------------------------------------------------------------
LEMMA BaseFacts ==
  ASSUME Base
  PROVE  /\ rows \in [Jobs -> Row \cup {NULL}] /\ work \in [Workers -> Held \cup {NULL}]
         /\ beats \subseteq Contract!Beat /\ now \in Nat /\ now <= MaxTime /\ MaxTime \in Nat
         /\ up \in BOOLEAN /\ enqueues \in Nat /\ restarts \in Nat /\ owed \subseteq Jobs
         /\ spawned \in BOOLEAN /\ crossing \in BOOLEAN
         /\ call \in [Loops -> Calls \cup {NULL}]
         /\ Cardinality(Busy) \in Nat /\ MaxEnqueues \in Nat
         /\ enqueues + Cardinality(Busy) <= MaxEnqueues
BY SameShapes, JobQueueAssumption, BusyIsFinite DEF Base, TypeOK, Contract!TypeOK, CallsFit, Busy

LEMMA HeldFacts ==
  ASSUME Base, NEW w \in Workers, work[w] # NULL
  PROVE  /\ work[w] \in Held /\ work[w].job \in Jobs /\ work[w].since \in Nat
         /\ rows[work[w].job] \in Row /\ rows[work[w].job] # NULL
BY BaseFacts DEF Base, CallsFit, Held

(* An attempt ends: the row is released, and any call of its worker over.  *)
LEMMA FinishBase ==
  ASSUME Base, NEW w \in Workers, NEW r \in Row, r.state = "pending" => r.nextAt # NULL,
         Contract!Finish(w, r), CallsEnd, call'[w] = NULL,
         spawned' = spawned, crossing' \in BOOLEAN
  PROVE  Base'
<1>1. /\ work[w] # NULL /\ rows' = [rows EXCEPT ![work[w].job] = r]
      /\ work' = [work EXCEPT ![w] = NULL]
      /\ UNCHANGED <<beats, now, up, enqueues, restarts, owed>>
  BY DEF Contract!Finish
<1>2. RowsStay
  BY <1>1, HeldFacts, RowChanges DEF Base
<1>3. /\ work' \in [Workers -> Held \cup {NULL}] /\ work'[w] = NULL
      /\ \A v \in Workers : v # w => work'[v] = work[v]
  BY <1>1, BaseFacts
<1>4. \A v \in Workers : work'[v] # NULL => rows'[work'[v].job] # NULL
  BY <1>2, <1>3, HeldFacts DEF RowsStay
<1>5. \A b \in beats' : rows'[b.job] # NULL
  BY <1>1, <1>2 DEF Base, CallsFit, RowsStay, TypeOK, Contract!TypeOK, Contract!Beat
<1>6. \A l \in Loops : call'[l] # NULL => up' /\ spawned'
  BY <1>1 DEF CallsEnd, Base, CallsFit
<1>7. enqueues' + Cardinality(Busy') <= MaxEnqueues
  BY <1>1, BaseFacts, BusyIsFinite, FewerBusy
<1>8. QED
  BY <1>1, <1>2, <1>3, <1>4, <1>5, <1>6, <1>7, BaseFacts, EndsBase

LEMMA OneStatementBase ==
  ASSUME Base, NEW w \in Workers, OneStatement(w)
  PROVE  Base'
<1>1. CallsEnd /\ call'[w] = NULL /\ spawned' = spawned /\ crossing' \in BOOLEAN
  BY BaseFacts DEF OneStatement, Idle, CallsEnd
<1>2. ASSUME NEW max \in Contract!Windows, Contract!Retry(w, max)
      PROVE  Base'
  <2>1. PICK t \in Contract!RetryTimes(w) : Contract!Finish(w, Contract!Released(Contract!HeldRow(w), "pending", t))
    BY <1>2 DEF Contract!Retry
  <2>2. Contract!HeldRow(w) \in Row
    BY <1>2, HeldFacts DEF Contract!Retry, Contract!HeldRow
  <2>3. t \in Nat /\ t # NULL
    BY JobQueueAssumption DEF Contract!RetryTimes
  <2> DEFINE r == Contract!Released(Contract!HeldRow(w), "pending", t)
  <2>4. r \in Row /\ r.nextAt = t
    BY <2>2, <2>3, ReleasedRow DEF States
  <2> HIDE DEF r
  <2>5. QED
    BY <1>1, <2>1, <2>3, <2>4, FinishBase DEF r
<1>3. ASSUME Contract!Defer(w)
      PROVE  Base'
  <2>1. PICK t \in Contract!RetryTimes(w) : Contract!Finish(w, Contract!Deferred(Contract!HeldRow(w), t))
    BY <1>3 DEF Contract!Defer
  <2>2. Contract!HeldRow(w) \in Row
    BY <1>3, HeldFacts DEF Contract!Defer, Contract!HeldRow
  <2>3. t \in Nat /\ t # NULL
    BY JobQueueAssumption DEF Contract!RetryTimes
  <2> DEFINE r == Contract!Deferred(Contract!HeldRow(w), t)
  <2>4. r \in Row /\ r.nextAt = t
    BY <2>2, <2>3, DeferredRow
  <2> HIDE DEF r
  <2>5. QED
    BY <1>1, <2>1, <2>3, <2>4, FinishBase DEF r
<1>4. ASSUME Contract!Fail(w)
      PROVE  Base'
  <2> DEFINE r == Contract!Released(Contract!HeldRow(w), "failed", NULL)
  <2>1. Contract!HeldRow(w) \in Row
    BY <1>4, HeldFacts DEF Contract!Fail, Contract!Finish, Contract!HeldRow
  <2>2. r \in Row /\ r.state = "failed"
    BY <2>1 DEF Contract!Released, Row, States
  <2>3. Contract!Finish(w, r)
    BY <1>4 DEF Contract!Fail
  <2> HIDE DEF r
  <2>4. QED
    BY <1>1, <2>2, <2>3, FinishBase
<1>5. ASSUME Contract!Abandon(w)
      PROVE  Base'
  <2>1. /\ work' = [work EXCEPT ![w] = NULL]
        /\ UNCHANGED <<rows, beats, now, up, enqueues, restarts, owed>>
    BY <1>5 DEF Contract!Abandon
  <2>2. RowsStay
    BY <2>1, RowsUnchanged DEF Base
  <2>3. /\ work' \in [Workers -> Held \cup {NULL}] /\ work'[w] = NULL
        /\ \A v \in Workers : v # w => work'[v] = work[v]
    BY <2>1, BaseFacts
  <2>4. \A v \in Workers : work'[v] # NULL => rows'[work'[v].job] # NULL
    BY <2>1, <2>3, HeldFacts
  <2>5. \A b \in beats' : rows'[b.job] # NULL
    BY <2>1 DEF Base, CallsFit
  <2>6. \A l \in Loops : call'[l] # NULL => up' /\ spawned'
    BY <1>1, <2>1 DEF CallsEnd, Base, CallsFit
  <2>7. enqueues' + Cardinality(Busy') <= MaxEnqueues
    BY <1>1, <2>1, BaseFacts, BusyIsFinite, FewerBusy
  <2>8. QED
    BY <1>1, <2>1, <2>2, <2>3, <2>4, <2>5, <2>6, <2>7, BaseFacts, EndsBase
<1>6. QED
  BY <1>2, <1>3, <1>4, <1>5 DEF OneStatement

(* A step that takes no job away and asks for none, while calls end or     *)
(* stay under way.                                                         *)
LEMMA OtherBase ==
  ASSUME Base, RowsStay, CallsEnd, UNCHANGED <<work, enqueues, owed>> ,
         beats' \subseteq Contract!Beat, \A b \in beats' : rows'[b.job] # NULL,
         now' \in Nat, now <= now', now' <= MaxTime,
         up' \in BOOLEAN, restarts' \in Nat, spawned' \in BOOLEAN, crossing' \in BOOLEAN,
         \A l \in Loops : call'[l] # NULL => up' /\ spawned'
  PROVE  Base'
<1>1. \A w \in Workers : work'[w] # NULL => rows'[work'[w].job] # NULL
  BY HeldFacts DEF RowsStay
<1>2. enqueues' + Cardinality(Busy') <= MaxEnqueues
  BY BaseFacts, BusyIsFinite, FewerBusy
<1>3. QED
  BY <1>1, <1>2, BaseFacts, EndsBase

LEMMA HeartbeatBase ==
  ASSUME Base, Heartbeat
  PROVE  Base'
<1>1. /\ CallsEnd /\ crossing' \in BOOLEAN /\ spawned' = spawned
      /\ UNCHANGED <<work, now, up, enqueues, restarts, owed>>
      /\ \A l \in Loops : call'[l] # NULL => up' /\ spawned'
  <2>1. /\ UNCHANGED <<work, now, up, enqueues, restarts, owed>>
        /\ UNCHANGED <<call, spawned, crossing>>
    BY DEF Heartbeat, Contract!HeartbeatStart, Contract!HeartbeatWrite
  <2>2. QED
    BY <2>1, BaseFacts DEF CallsEnd, Base, CallsFit
<1>2. now <= now'
  BY <1>1, BaseFacts
<1>3. ASSUME NEW w \in Workers, Contract!HeartbeatStart(w)
      PROVE  Base'
  <2>1. /\ rows' = rows /\ work[w] # NULL
        /\ beats' = beats \cup {[job |-> work[w].job, until |-> now + LeaseTTL]}
    BY <1>3 DEF Contract!HeartbeatStart
  <2>2. RowsStay
    BY <2>1, RowsUnchanged DEF Base
  <2>3. now + LeaseTTL \in Nat
    BY BaseFacts, JobQueueAssumption
  <2>4. beats' \subseteq Contract!Beat /\ \A b \in beats' : rows'[b.job] # NULL
    BY <2>1, <2>3, BaseFacts, HeldFacts DEF Contract!Beat, Base, CallsFit
  <2>5. QED
    BY <1>1, <1>2, <2>2, <2>4, BaseFacts, OtherBase
<1>4. ASSUME NEW b \in beats, Contract!HeartbeatWrite(b)
      PROVE  Base'
  <2> DEFINE r == [rows[b.job] EXCEPT !.lease = b.until]
  <2>1. b.job \in Jobs /\ b.until \in Nat /\ rows[b.job] \in Row /\ rows[b.job] # NULL
    BY BaseFacts DEF Base, CallsFit, Contract!Beat
  <2>2. /\ r \in Row /\ r.state = rows[b.job].state /\ r.nextAt = rows[b.job].nextAt
    BY <2>1 DEF Row
  <2>3. rows' = [rows EXCEPT ![b.job] = r] /\ beats' = beats \ {b}
    BY <1>4 DEF Contract!HeartbeatWrite
  <2>4. r.state = "pending" => r.nextAt # NULL
    BY <2>1, <2>2 DEF Base, PendingIsScheduled, Contract!InState, Contract!Exists
  <2> HIDE DEF r
  <2>5. RowsStay
    BY <2>1, <2>2, <2>3, <2>4, RowChanges DEF Base
  <2>6. beats' \subseteq Contract!Beat /\ \A d \in beats' : rows'[d.job] # NULL
    BY <2>3, <2>5, BaseFacts DEF Base, CallsFit, RowsStay, Contract!Beat
  <2>7. QED
    BY <1>1, <1>2, <2>5, <2>6, BaseFacts, OtherBase
<1>5. QED
  BY <1>3, <1>4 DEF Heartbeat

LEMMA StartBase ==
  ASSUME Base, Start
  PROVE  Base'
<1>1. /\ UNCHANGED <<work, beats, now, enqueues, restarts, owed, call, spawned, crossing>>
      /\ ~up /\ up'
  BY DEF Start, Contract!Start, Contract!StartScanOnce
<1>2. CallsEnd /\ \A l \in Loops : call'[l] # NULL => up' /\ spawned'
  BY <1>1, BaseFacts DEF CallsEnd, Base, CallsFit
<1>3. RowsStay
  <2>1. CASE rows' = rows
    BY <2>1, RowsUnchanged DEF Base
  <2>2. CASE Contract!Start
    <3>1. \A j \in Jobs : rows'[j] = IF Contract!LeaseExpired(j) THEN Contract!Recovered(rows[j]) ELSE rows[j]
      BY <2>2 DEF Contract!Start
    <3>2. ASSUME NEW j \in Jobs, Contract!LeaseExpired(j)
          PROVE  /\ rows'[j] \in Row /\ rows'[j] # NULL /\ rows'[j].nextAt # NULL
      <4>1. rows[j] \in Row /\ now \in Nat /\ now # NULL
        BY <3>2, BaseFacts, JobQueueAssumption DEF Contract!LeaseExpired, Contract!InState, Contract!Exists
      <4> DEFINE r == Contract!Released(rows[j], "pending", now)
      <4>2. rows'[j] = r
        BY <3>1, <3>2 DEF Contract!Recovered
      <4>3. r \in Row /\ r.nextAt = now
        BY <4>1 DEF Contract!Released, Row, States
      <4> HIDE DEF r
      <4>4. QED
        BY <4>1, <4>2, <4>3, NullAssumption
    <3>3. ASSUME NEW j \in Jobs
          PROVE  /\ rows'[j] \in Row \cup {NULL}
                 /\ rows[j] # NULL => rows'[j] # NULL
                 /\ rows'[j] # NULL /\ rows'[j].state = "pending" => rows'[j].nextAt # NULL
      BY <3>1, <3>2, BaseFacts DEF Base, PendingIsScheduled, Contract!InState, Contract!Exists
    <3>4. rows' \in [Jobs -> Row \cup {NULL}]
      BY <2>2, <3>1, <3>3 DEF Contract!Start
    <3>5. QED
      BY <3>3, <3>4 DEF RowsStay, PendingIsScheduled, Contract!InState, Contract!Exists
  <2>3. QED
    BY <2>1, <2>2 DEF Start, Contract!StartScanOnce
<1>4. beats' \subseteq Contract!Beat /\ \A b \in beats' : rows'[b.job] # NULL
  BY <1>1, <1>3, BaseFacts DEF Base, CallsFit, RowsStay, Contract!Beat
<1>5. now <= now'
  BY <1>1, BaseFacts
<1>6. QED
  BY <1>1, <1>2, <1>3, <1>4, <1>5, BaseFacts, OtherBase

LEMMA QuietBase ==
  ASSUME Base, Tick \/ Spawn \/ UNCHANGED vars
  PROVE  Base'
<1>1. /\ UNCHANGED <<rows, work, beats, up, enqueues, restarts, owed, call, crossing>>
      /\ now' = now \/ (now < MaxTime /\ now' = now + 1)
      /\ spawned' = spawned \/ spawned'
      /\ spawned' \in BOOLEAN
  BY BaseFacts DEF Tick, Spawn, Contract!Tick, vars, contract
<1>2. now' \in Nat /\ now <= now' /\ now' <= MaxTime
  BY <1>1, BaseFacts
<1>3. CallsEnd /\ \A l \in Loops : call'[l] # NULL => up' /\ spawned'
  BY <1>1, BaseFacts DEF CallsEnd, Base, CallsFit
<1>4. RowsStay
  BY <1>1, RowsUnchanged DEF Base
<1>5. beats' \subseteq Contract!Beat /\ \A b \in beats' : rows'[b.job] # NULL
  BY <1>1, BaseFacts DEF Base, CallsFit
<1>6. QED
  BY <1>1, <1>2, <1>3, <1>4, <1>5, BaseFacts, OtherBase

LEMMA StopBase ==
  ASSUME Base, Stop
  PROVE  Base'
<1>1. /\ work' = [w \in Workers |-> NULL] /\ beats' = {} /\ up' = FALSE
      /\ restarts' = restarts + 1
      /\ UNCHANGED <<rows, now, enqueues, owed, crossing>>
      /\ call' = [l \in Loops |-> NULL] /\ spawned' = FALSE
  BY DEF Stop, Contract!Stop
<1>2. RowsStay /\ CallsEnd
  BY <1>1, RowsUnchanged DEF Base, CallsEnd
<1>3. now <= now' /\ restarts' \in Nat
  BY <1>1, BaseFacts
<1>4. enqueues' + Cardinality(Busy') <= MaxEnqueues
  BY <1>1, <1>2, BaseFacts, BusyIsFinite, FewerBusy
<1>5. /\ work' \in [Workers -> Held \cup {NULL}]
      /\ \A w \in Workers : work'[w] = NULL /\ call'[w] = NULL
      /\ \A l \in Loops : call'[l] = NULL
  BY <1>1 DEF Loops
<1>6. QED
  BY <1>1, <1>2, <1>3, <1>4, <1>5, BaseFacts, EndsBase

LEMMA StartupBase ==
  ASSUME Base, NEW j \in Jobs, NEW p \in Priorities, StartupEnqueue(j, p)
  PROVE  Base'
<1> DEFINE r == Contract!Enqueued(rows[j], p, now, {})
<1>1. /\ enqueues < MaxEnqueues /\ rows' = [rows EXCEPT ![j] = r]
      /\ enqueues' = enqueues + 1 /\ owed' = owed \cup {j} /\ ~spawned
      /\ UNCHANGED <<work, beats, now, up, restarts, call, spawned, crossing>>
  BY DEF StartupEnqueue, Contract!Enqueue
<1>2. r \in Row /\ (r.state = "pending" => r.nextAt # NULL)
  <2>1. rows[j] \in Row \cup {NULL} /\ now \in Nat /\ now # NULL /\ {} \in SUBSET Flags
    BY BaseFacts, JobQueueAssumption
  <2>2. QED
    BY <2>1, EnqueuedRow
<1> HIDE DEF r
<1>3. RowsStay
  BY <1>1, <1>2, RowChanges DEF Base
<1>4. CallsEnd /\ \A l \in Loops : call'[l] = NULL
  BY <1>1, BaseFacts DEF CallsEnd, Base, CallsFit
<1>5. Cardinality(Busy') = 0
  <2>1. Busy' = {}
    BY <1>4 DEF Busy, Loops
  <2>2. QED
    BY <2>1, FS_EmptySet
<1>6. enqueues' \in Nat /\ enqueues' + Cardinality(Busy') <= MaxEnqueues
  BY <1>1, <1>5, BaseFacts
<1>7. \A w \in Workers : work'[w] # NULL => rows'[work'[w].job] # NULL
  BY <1>1, <1>3, HeldFacts DEF RowsStay
<1>8. beats' \subseteq Contract!Beat /\ \A b \in beats' : rows'[b.job] # NULL
  BY <1>1, <1>3, BaseFacts DEF Base, CallsFit, RowsStay, Contract!Beat
<1>9. now <= now' /\ owed' \subseteq Jobs
  BY <1>1, BaseFacts
<1>10. QED
  BY <1>1, <1>3, <1>4, <1>6, <1>7, <1>8, <1>9, BaseFacts, EndsBase

-----------------------------------------------------------------------------
(* A method begins with its SELECT. *)
LEMMA SelectBase ==
  ASSUME Base, NEW l \in Loops, Idle(l), NEW c \in Calls, Begin(l, c),
         UNCHANGED <<contract, spawned, crossing>>,
         c.at = now, c.seen = rows[c.job],
         l \in Enqueuers => /\ c.priority \in Priorities /\ c.flags \in Requests
                            /\ enqueues + Cardinality(Busy) < MaxEnqueues,
         l \in Workers => /\ c.seen # NULL
                          /\ work[l] # NULL => c.job = work[l].job
  PROVE  Base'
<1>1. /\ call' = [call EXCEPT ![l] = c] /\ spawned /\ up /\ call[l] = NULL
      /\ UNCHANGED <<rows, work, beats, now, up, enqueues, restarts, owed, spawned, crossing>>
  BY DEF Begin, Idle, contract
<1>2. /\ call' \in [Loops -> Calls \cup {NULL}] /\ call'[l] = c
      /\ \A k \in Loops : k # l => call'[k] = call[k]
  BY <1>1, BaseFacts
<1>3. TypeOK'
  <2>1. Contract!TypeOK'
    BY <1>1 DEF Base, TypeOK, Contract!TypeOK
  <2>2. \A k \in Loops : call'[k] # NULL => call'[k].at <= now'
    BY <1>1, <1>2, BaseFacts DEF Base, TypeOK
  <2>3. QED
    BY <1>1, <1>2, <2>1, <2>2 DEF Base, TypeOK
<1>4. enqueues' + Cardinality(Busy') <= MaxEnqueues
  <2>1. CASE l \in Enqueuers
    <3>1. Busy' = Busy \cup {l} /\ l \notin Busy
      BY <1>1, <1>2, <2>1, CallAssumption DEF Busy, Loops
    <3>2. Cardinality(Busy') = Cardinality(Busy) + 1
      BY <3>1, BusyIsFinite, FS_AddElement
    <3>3. QED
      BY <1>1, <2>1, <3>2, BaseFacts
  <2>2. CASE l \notin Enqueuers
    <3>1. Busy' = Busy
      BY <1>2, <2>2 DEF Busy, Loops
    <3>2. QED
      BY <1>1, <3>1, BaseFacts
  <2>3. QED
    BY <2>1, <2>2
<1>5. CallsFit'
  <2>1. \A k \in Loops : call'[k] # NULL =>
          /\ up' /\ spawned'
          /\ call'[k].seen # NULL => rows'[call'[k].job] # NULL
    BY <1>1, <1>2 DEF Base, CallsFit
  <2>2. \A e \in Enqueuers : call'[e] # NULL => call'[e].priority \in Priorities /\ call'[e].flags \in Requests
    BY <1>2 DEF Base, CallsFit, Loops
  <2>3. \A w \in Workers : call'[w] # NULL =>
          /\ call'[w].seen # NULL
          /\ work'[w] # NULL => call'[w].job = work'[w].job
    BY <1>1, <1>2 DEF Base, CallsFit, Loops
  <2>4. QED
    BY <1>1, <1>4, <2>1, <2>2, <2>3 DEF Base, CallsFit, Busy
<1>6. PendingIsScheduled'
  BY <1>1 DEF Base, PendingIsScheduled, Contract!InState, Contract!Exists
<1>7. QED
  BY <1>3, <1>5, <1>6 DEF Base

LEMMA NewCall ==
  ASSUME Base, NEW j \in Jobs, NEW p \in Priorities \cup {NULL}, NEW fl \in SUBSET Flags
  PROVE  /\ Call(j, p, fl) \in Calls
         /\ Call(j, p, fl).job = j /\ Call(j, p, fl).priority = p /\ Call(j, p, fl).flags = fl
         /\ Call(j, p, fl).at = now /\ Call(j, p, fl).seen = rows[j] /\ ~Call(j, p, fl).crossed
BY BaseFacts DEF Call, Calls

LEMMA EnqueueSelectBase ==
  ASSUME Base, NEW e \in Enqueuers, NEW j \in Jobs, NEW p \in Priorities, NEW fl \in Requests,
         EnqueueSelect(e, j, p, fl)
  PROVE  Base'
<1>1. fl \in SUBSET Flags /\ e \in Loops /\ e \notin Workers
  BY JobQueueSqlAssumption DEF Flags, Loops
<1>2. enqueues + Cardinality(Busy) < MaxEnqueues
  BY DEF EnqueueSelect, Busy
<1>3. QED
  BY <1>1, <1>2, NewCall, SelectBase DEF EnqueueSelect

LEMMA WorkerSelectBase ==
  ASSUME Base, NEW w \in Workers, LeaseSelect(w) \/ CompleteSelect(w)
  PROVE  Base'
<1>1. w \in Loops /\ w \notin Enqueuers /\ {} \in SUBSET Flags
  BY JobQueueSqlAssumption DEF Loops
<1>2. CASE LeaseSelect(w)
  <2>1. PICK j \in Pick(now) : Begin(w, Call(j, NULL, {}))
    BY <1>2 DEF LeaseSelect
  <2>2. j \in Jobs /\ rows[j] # NULL
    BY DEF Pick, Contract!ReadyAt, Contract!InState, Contract!Exists
  <2>3. QED
    BY <1>1, <1>2, <2>1, <2>2, NewCall, SelectBase DEF LeaseSelect
<1>3. CASE CompleteSelect(w)
  BY <1>1, <1>3, HeldFacts, NewCall, SelectBase DEF CompleteSelect
<1>4. QED
  BY <1>2, <1>3

-----------------------------------------------------------------------------
(* A request takes effect: calls on the same row have crossed it. *)
LEMMA CrossingEnds ==
  ASSUME TypeOK, NEW l \in Loops, call[l] # NULL, EndCrossing(l)
  PROVE  /\ CallsEnd
         /\ call'[l] = NULL
         /\ \A k \in Loops : k # l => (call'[k] = NULL <=> call[k] = NULL)
         /\ \A k \in Loops : call'[k] # NULL /\ call[k].job = call[l].job => call'[k].crossed
         /\ \A k \in Loops : k # l /\ call[k] # NULL /\ call[k].job # call[l].job => call'[k] = call[k]
<1>1. call \in [Loops -> Calls \cup {NULL}]
  BY DEF TypeOK
<1>2. call' = [k \in Loops |->
        IF k = l THEN NULL
        ELSE IF On(k, call[l].job) THEN [call[k] EXCEPT !.crossed = TRUE] ELSE call[k]]
  BY DEF EndCrossing
<1>3. \A k \in Loops : On(k, call[l].job) =>
        /\ [call[k] EXCEPT !.crossed = TRUE] \in Calls
        /\ [call[k] EXCEPT !.crossed = TRUE].crossed
        /\ [call[k] EXCEPT !.crossed = TRUE] # NULL
  BY <1>1, CallAssumption DEF On, Calls
<1>4. call' \in [Loops -> Calls \cup {NULL}]
  BY <1>1, <1>2, <1>3
<1>5. QED
  BY <1>1, <1>2, <1>3, <1>4 DEF CallsEnd, On

LEMMA CallEnds ==
  ASSUME TypeOK, NEW l \in Loops, End(l)
  PROVE  /\ CallsEnd /\ call'[l] = NULL
         /\ \A k \in Loops : k # l => call'[k] = call[k]
BY DEF TypeOK, End, CallsEnd

LEMMA EnqueueWriteBase ==
  ASSUME Base, NEW e \in Enqueuers, EnqueueWrite(e)
  PROVE  Base'
<1> DEFINE c == call[e]
           j == c.job
<1>1. /\ c \in Calls /\ c # NULL /\ j \in Jobs /\ c.at \in Nat /\ c.at # NULL
      /\ c.priority \in Priorities /\ c.flags \in SUBSET Flags /\ e \in Loops /\ up /\ spawned
      /\ c.seen # NULL => rows[j] \in Row
  BY BaseFacts, JobQueueAssumption DEF EnqueueWrite, Pending, Base, CallsFit, Calls, Loops
<1>2. /\ CallsEnd /\ call'[e] = NULL /\ \A k \in Loops : k # e => (call'[k] = NULL <=> call[k] = NULL)
  BY <1>1, CrossingEnds DEF EnqueueWrite, Base
<1>3. UNCHANGED <<work, beats, now, up, restarts, spawned>> /\ crossing' \in BOOLEAN
  BY BaseFacts DEF EnqueueWrite
<1>4. Cardinality(Busy) = Cardinality(Busy') + 1
  <2>1. Busy = Busy' \cup {e} /\ e \notin Busy'
    BY <1>1, <1>2 DEF Busy, Loops
  <2>2. QED
    BY <2>1, BusyIsFinite, FS_AddElement
<1>5. RowsStay /\ owed' \subseteq Jobs /\ enqueues' \in Nat /\ enqueues' <= enqueues + 1
  <2>1. CASE UNCHANGED <<rows, owed, enqueues>>
    BY <2>1, RowsUnchanged, BaseFacts DEF Base
  <2>2. ASSUME rows' = [rows EXCEPT ![j] = Contract!Fresh(c.priority, c.at, c.flags)],
               owed' = owed \cup {j}, enqueues' = enqueues + 1
        PROVE  RowsStay /\ owed' \subseteq Jobs /\ enqueues' \in Nat /\ enqueues' <= enqueues + 1
    <3> DEFINE r == Contract!Fresh(c.priority, c.at, c.flags)
    <3>1. r \in Row /\ r.nextAt = c.at
      BY <1>1 DEF Contract!Fresh, Row, States
    <3> HIDE DEF r
    <3>2. RowsStay
      BY <1>1, <2>2, <3>1, RowChanges DEF Base, r
    <3>3. QED
      BY <1>1, <2>2, <3>2, BaseFacts
  <2>3. ASSUME rows' = [rows EXCEPT ![j] = Overwritten(@, c)], c.seen # NULL,
               owed' = owed \cup {j}, enqueues' = enqueues + 1
        PROVE  RowsStay /\ owed' \subseteq Jobs /\ enqueues' \in Nat /\ enqueues' <= enqueues + 1
    <3> DEFINE r == Overwritten(rows[j], c)
    <3>1. r \in Row /\ (r.state = "pending" => r.nextAt = c.at)
      BY <1>1, <2>3, OverwrittenRow
    <3>2. rows' = [rows EXCEPT ![j] = r]
      BY <2>3
    <3> HIDE DEF r
    <3>3. RowsStay
      BY <1>1, <3>1, <3>2, RowChanges DEF Base
    <3>4. QED
      BY <1>1, <2>3, <3>3, BaseFacts
  <2>4. QED
    BY <2>1, <2>2, <2>3 DEF EnqueueWrite
<1> HIDE DEF c, j
<1>6. enqueues' + Cardinality(Busy') <= MaxEnqueues
  BY <1>4, <1>5, BaseFacts, BusyIsFinite
<1>7. \A w \in Workers : work'[w] # NULL => rows'[work'[w].job] # NULL
  BY <1>3, <1>5, HeldFacts DEF RowsStay
<1>8. beats' \subseteq Contract!Beat /\ \A b \in beats' : rows'[b.job] # NULL
  BY <1>3, <1>5, BaseFacts DEF Base, CallsFit, RowsStay, Contract!Beat
<1>9. \A l \in Loops : call'[l] # NULL => up' /\ spawned'
  BY <1>1, <1>3
<1>10. now <= now'
  BY <1>3, BaseFacts
<1>11. QED
  BY <1>2, <1>3, <1>5, <1>6, <1>7, <1>8, <1>9, <1>10, BaseFacts, EndsBase

LEMMA TakeLeaseBase ==
  ASSUME Base, NEW w \in Workers, work[w] = NULL, NEW j \in Jobs, NEW seen \in Row, NEW t \in Nat,
         rows[j] # NULL, TakeLease(w, j, seen, t), End(w), crossing' \in BOOLEAN,
         up, spawned, UNCHANGED <<beats, now, up, enqueues, restarts, spawned>>
  PROVE  Base'
<1> DEFINE r == [Contract!Leased(rows[j], w, t) EXCEPT !.attempts = seen.attempts + 1]
           held == [job |-> j, attempt |-> seen.attempts + 1, flags |-> seen.flags, since |-> now]
<1>1. rows[j] \in Row /\ now \in Nat /\ seen.attempts + 1 \in Nat \ {0} /\ seen.flags \in SUBSET Flags
  BY BaseFacts DEF Row
<1>2. r \in Row /\ r.state = "processing"
  BY <1>1, LeasedRow
<1>3. held \in Held /\ held.job = j
  BY <1>1 DEF Held
<1>4. /\ rows' = [rows EXCEPT ![j] = r] /\ work' = [work EXCEPT ![w] = held] /\ owed' = owed \ {j}
  BY DEF TakeLease
<1> HIDE DEF r, held
<1>5. RowsStay
  BY <1>2, <1>4, RowChanges DEF Base
<1>6. /\ work' \in [Workers -> Held \cup {NULL}] /\ work'[w] = held
      /\ \A v \in Workers : v # w => work'[v] = work[v]
  BY <1>3, <1>4, BaseFacts
<1>7. w \in Loops /\ CallsEnd /\ call'[w] = NULL
  BY CallEnds DEF Base, Loops
<1>8. \A v \in Workers : work'[v] # NULL => rows'[work'[v].job] # NULL
  BY <1>3, <1>5, <1>6, HeldFacts DEF RowsStay
<1>9. beats' \subseteq Contract!Beat /\ \A b \in beats' : rows'[b.job] # NULL
  BY <1>5, BaseFacts DEF Base, CallsFit, RowsStay, Contract!Beat
<1>10. enqueues' + Cardinality(Busy') <= MaxEnqueues
  BY <1>7, BaseFacts, BusyIsFinite, FewerBusy
<1>11. now <= now' /\ owed' \subseteq Jobs
  BY <1>4, BaseFacts
<1>12. QED
  BY <1>5, <1>6, <1>7, <1>8, <1>9, <1>10, <1>11, BaseFacts, EndsBase

LEMMA LeaseUpdateBase ==
  ASSUME Base, NEW w \in Workers, LeaseUpdate(w)
  PROVE  Base'
<1> DEFINE c == call[w]
<1>1. /\ c \in Calls /\ c.at \in Nat /\ c.job \in Jobs /\ c.seen \in Row /\ c.seen # NULL
      /\ rows[c.job] # NULL /\ w \in Loops
  BY BaseFacts DEF LeaseUpdate, Pending, Base, CallsFit, Calls, Loops
<1>2. /\ work[w] = NULL /\ End(w) /\ crossing' \in BOOLEAN /\ up /\ spawned
      /\ UNCHANGED <<beats, now, up, enqueues, restarts, spawned>>
  BY BaseFacts DEF LeaseUpdate, Pending
<1>3. CASE TakeLease(w, c.job, c.seen, c.at)
  BY <1>1, <1>2, <1>3, TakeLeaseBase
<1>4. ASSUME NEW j \in Pick(c.at), TakeLease(w, j, rows[j], c.at)
      PROVE  Base'
  <2>1. j \in Jobs /\ rows[j] # NULL /\ rows[j] \in Row
    BY BaseFacts DEF Pick, Contract!ReadyAt, Contract!InState, Contract!Exists
  <2>2. QED
    BY <1>1, <1>2, <1>4, <2>1, TakeLeaseBase
<1>5. CASE UNCHANGED <<rows, work, owed>>
  <2>1. RowsStay
    BY <1>5, RowsUnchanged DEF Base
  <2>2. CallsEnd /\ \A l \in Loops : call'[l] # NULL => up' /\ spawned'
    BY <1>1, <1>2, CallEnds DEF Base
  <2>3. beats' \subseteq Contract!Beat /\ \A b \in beats' : rows'[b.job] # NULL
    BY <1>2, <1>5, BaseFacts DEF Base, CallsFit
  <2>4. now <= now'
    BY <1>2, BaseFacts
  <2>5. QED
    BY <1>2, <1>5, <2>1, <2>2, <2>3, <2>4, BaseFacts, OtherBase
<1>6. QED
  BY <1>3, <1>4, <1>5 DEF LeaseUpdate

LEMMA CompleteUpdateBase ==
  ASSUME Base, NEW w \in Workers, CompleteUpdate(w)
  PROVE  Base'
<1> DEFINE c == call[w]
           read == [rows[c.job] EXCEPT !.dirty = c.seen.dirty, !.attempts = c.seen.attempts]
           done == Contract!Completed(read, c.at)
<1>1. /\ c \in Calls /\ c # NULL /\ c.at \in Nat /\ c.at # NULL /\ c.seen \in Row
      /\ rows[c.job] \in Row /\ w \in Loops
  BY BaseFacts, JobQueueAssumption DEF CompleteUpdate, Pending, Base, CallsFit, Calls, Loops
<1>2. read \in Row
  BY <1>1 DEF Row
<1>3. Contract!Finish(w, done) /\ spawned' = spawned /\ crossing' \in BOOLEAN
  BY BaseFacts DEF CompleteUpdate
<1>4. CallsEnd /\ call'[w] = NULL
  BY <1>1, CallEnds, CrossingEnds DEF CompleteUpdate, Base
<1> HIDE DEF read
<1>5. done \in Row /\ (done.state = "pending" => done.nextAt # NULL)
  <2>1. read.dirty \in BOOLEAN
    BY <1>2 DEF Row
  <2>2. QED
    BY <1>1, <1>2, <2>1, CompletedRow
<1> HIDE DEF done
<1>6. QED
  BY <1>3, <1>4, <1>5, FinishBase

LEMMA StepBase == Base /\ [Next]_vars => Base'
<1> SUFFICES ASSUME Base, [Next]_vars
             PROVE  Base'
  OBVIOUS
<1>1. ASSUME NEW w \in Workers,
             LeaseSelect(w) \/ LeaseUpdate(w) \/ CompleteSelect(w) \/ CompleteUpdate(w) \/ OneStatement(w)
      PROVE  Base'
  BY <1>1, WorkerSelectBase, LeaseUpdateBase, CompleteUpdateBase, OneStatementBase
<1>2. ASSUME NEW e \in Enqueuers, NEW j \in Jobs, NEW p \in Priorities, NEW fl \in Requests,
             EnqueueSelect(e, j, p, fl)
      PROVE  Base'
  BY <1>2, EnqueueSelectBase
<1>3. ASSUME NEW e \in Enqueuers, EnqueueWrite(e)
      PROVE  Base'
  BY <1>3, EnqueueWriteBase
<1>4. ASSUME NEW j \in Jobs, NEW p \in Priorities, StartupEnqueue(j, p)
      PROVE  Base'
  BY <1>4, StartupBase
<1>5. CASE Heartbeat \/ Stop \/ Start
  BY <1>5, HeartbeatBase, StopBase, StartBase
<1>6. CASE Tick \/ Spawn \/ UNCHANGED vars
  BY <1>6, QuietBase
<1>7. QED
  BY <1>1, <1>2, <1>3, <1>4, <1>5, <1>6 DEF Next

-----------------------------------------------------------------------------
(* Until calls cross, the queue is that of its contract, and what a worker *)
(* has read holds.                                                         *)
Clear == Base /\ Contract!HeldIsProcessing /\ ReadsHold

Follows == (Contract!Next \/ UNCHANGED contract) /\ Contract!HeldIsProcessing' /\ ReadsHold'

LEMMA Holder ==
  ASSUME Clear, NEW w \in Workers, work[w] # NULL
  PROVE  /\ work[w] \in Held /\ work[w].job \in Jobs /\ work[w].since \in Nat /\ up
         /\ rows[work[w].job] \in Row /\ rows[work[w].job] # NULL
         /\ rows[work[w].job].state = "processing" /\ rows[work[w].job].owner = w
         /\ rows[work[w].job].attempts = work[w].attempt
BY HeldFacts DEF Clear, Contract!HeldIsProcessing, Contract!InState, Contract!Exists, Contract!HeldRow

LEMMA Exclusive ==
  ASSUME Clear, NEW v \in Workers, NEW w \in Workers, work[v] # NULL, work[w] # NULL,
         work[v].job = work[w].job
  PROVE  v = w
BY Holder

LEMMA Reader ==
  ASSUME Clear, NEW l \in Loops, call[l] # NULL
  PROVE  /\ call[l] \in Calls /\ call[l].job \in Jobs /\ call[l].at \in Nat /\ call[l].at <= now
         /\ call[l].at \in Contract!ClockReads
         /\ call[l].seen \in Row \cup {NULL} /\ call[l].flags \in SUBSET Flags
         /\ call[l].seen # NULL => rows[call[l].job] \in Row /\ rows[call[l].job] # NULL
<1>1. /\ call[l] \in Calls /\ call[l].job \in Jobs /\ call[l].at \in Nat /\ call[l].at <= now
      /\ call[l].seen \in Row \cup {NULL} /\ call[l].flags \in SUBSET Flags
  BY BaseFacts DEF Clear, Base, TypeOK, Calls
<1>2. call[l].seen # NULL => rows[call[l].job] \in Row /\ rows[call[l].job] # NULL
  BY <1>1, BaseFacts DEF Clear, Base, CallsFit
<1>3. call[l].at \in 0 .. now /\ now <= call[l].at + Lag
  <2>1. now \in Nat /\ now <= MaxTime /\ MaxTime \in Nat /\ MaxTime <= Lag /\ Lag \in Nat
    BY BaseFacts, JobQueueAssumption, JobQueueSqlAssumption DEF Clear
  <2> DEFINE t == call[l].at
  <2>2. t \in Nat /\ t <= now
    BY <1>1
  <2> HIDE DEF t
  <2>3. t \in 0 .. now /\ now <= t + Lag
    BY <2>1, <2>2
  <2>4. QED
    BY <2>3 DEF t
<1>4. QED
  BY <1>1, <1>2, <1>3 DEF Contract!ClockReads

LEMMA ReaderOfWorker ==
  ASSUME Clear, NEW w \in Workers, call[w] # NULL
  PROVE  /\ w \in Loops /\ call[w].seen \in Row /\ call[w].seen # NULL
         /\ rows[call[w].job] \in Row /\ rows[call[w].job] # NULL
         /\ work[w] # NULL => call[w].job = work[w].job
         /\ ~call[w].crossed => IF work[w] = NULL THEN LeaseReads(w) ELSE CompleteReads(w)
BY Reader DEF Clear, Base, CallsFit, ReadsHold, Loops

(* Those who keep their job keep it as it was. *)
LEMMA HoldersStay ==
  ASSUME Clear,
         \A w \in Workers : work'[w] # NULL =>
           /\ work'[w] = work[w] /\ up'
           /\ rows'[work[w].job] # NULL
           /\ rows'[work[w].job].state = rows[work[w].job].state
           /\ rows'[work[w].job].owner = rows[work[w].job].owner
           /\ rows'[work[w].job].attempts = rows[work[w].job].attempts
  PROVE  Contract!HeldIsProcessing'
<1> SUFFICES ASSUME NEW w \in Workers, work'[w] # NULL
             PROVE  /\ up'
                    /\ rows'[work'[w].job] # NULL /\ rows'[work'[w].job].state = "processing"
                    /\ rows'[work'[w].job].owner = w
                    /\ rows'[work'[w].job].attempts = work'[w].attempt
  BY DEF Contract!HeldIsProcessing, Contract!InState, Contract!Exists, Contract!HeldRow
<1>1. QED
  BY Holder

Leasable(row, t) == row # NULL /\ row.state = "pending" /\ row.nextAt # NULL /\ row.nextAt <= t

LEMMA ReadyRows == \A j, t : Contract!ReadyAt(j, t) <=> Leasable(rows[j], t)
BY DEF Contract!ReadyAt, Contract!InState, Contract!Exists, Leasable

(* What a worker has read holds after a step that it has not crossed, when *)
(* the row of its job has not changed, or cannot be leased any more.       *)
LEMMA ReadsStay ==
  ASSUME Clear, CallsEnd,
         \A w \in Workers : call'[w] # NULL => work'[w] = work[w],
         \A w \in Workers : call'[w] # NULL /\ ~call'[w].crossed /\ work[w] # NULL =>
           /\ rows'[call[w].job].dirty = rows[call[w].job].dirty
           /\ rows'[call[w].job].attempts = rows[call[w].job].attempts,
         \A w \in Workers : call'[w] # NULL /\ ~call'[w].crossed /\ work[w] = NULL =>
           /\ Leasable(rows'[call[w].job], call[w].at) =>
                /\ Leasable(rows[call[w].job], call[w].at)
                /\ rows'[call[w].job].attempts = rows[call[w].job].attempts
                /\ rows'[call[w].job].flags = rows[call[w].job].flags
           /\ \A v \in Workers : work'[v] # NULL /\ work'[v].job = call[w].job =>
                work'[v] = work[v] \/ work'[v].since >= call[w].at
  PROVE  ReadsHold'
<1> SUFFICES ASSUME NEW w \in Workers, call'[w] # NULL, ~call'[w].crossed
             PROVE  IF work'[w] = NULL THEN LeaseReads(w)' ELSE CompleteReads(w)'
  BY DEF ReadsHold
<1>1. call'[w] = call[w] /\ call[w] # NULL /\ ~call[w].crossed /\ work'[w] = work[w]
  BY CallKept DEF Loops, Clear, Base
<1>2. IF work[w] = NULL THEN LeaseReads(w) ELSE CompleteReads(w)
  BY <1>1, ReaderOfWorker
<1>3. CASE work[w] # NULL
  BY <1>1, <1>2, <1>3 DEF CompleteReads
<1>4. CASE work[w] = NULL
  <2>1. Leasable(rows'[call[w].job], call[w].at) =>
          /\ rows'[call[w].job].attempts = call[w].seen.attempts
          /\ rows'[call[w].job].flags = call[w].seen.flags
    BY <1>1, <1>2, <1>4, ReadyRows DEF LeaseReads
  <2>2. ASSUME NEW v \in Workers, work'[v] # NULL, work'[v].job = call[w].job
        PROVE  work'[v].since >= call[w].at
    BY <1>1, <1>2, <1>4, <2>2 DEF LeaseReads, Contract!HeldBy
  <2>3. LeaseReads(w)'
    BY <1>1, <2>1, <2>2
       DEF LeaseReads, Contract!HeldBy, Leasable, Contract!ReadyAt, Contract!InState, Contract!Exists
  <2>4. QED
    BY <1>1, <1>4, <2>3
<1>5. QED
  BY <1>3, <1>4

LEMMA HeartbeatFollows ==
  ASSUME Clear, Heartbeat
  PROVE  Follows
<1>1. UNCHANGED <<work, now, up, call>>
  BY DEF Heartbeat, Contract!HeartbeatStart, Contract!HeartbeatWrite
<1>2. Contract!Next
  BY DEF Heartbeat, Contract!Next
<1>3. ASSUME NEW j \in Jobs, rows[j] # NULL
      PROVE  /\ rows'[j] # NULL /\ rows'[j].state = rows[j].state /\ rows'[j].owner = rows[j].owner
             /\ rows'[j].attempts = rows[j].attempts /\ rows'[j].nextAt = rows[j].nextAt
             /\ rows'[j].flags = rows[j].flags /\ rows'[j].dirty = rows[j].dirty
  <2>1. CASE rows' = rows
    BY <1>3, <2>1
  <2>2. ASSUME NEW b \in beats, Contract!HeartbeatWrite(b)
        PROVE  /\ rows'[j] # NULL /\ rows'[j].state = rows[j].state /\ rows'[j].owner = rows[j].owner
               /\ rows'[j].attempts = rows[j].attempts /\ rows'[j].nextAt = rows[j].nextAt
               /\ rows'[j].flags = rows[j].flags /\ rows'[j].dirty = rows[j].dirty
    <3> DEFINE r == [rows[b.job] EXCEPT !.lease = b.until]
    <3>1. b.job \in Jobs /\ b.until \in Nat /\ rows[b.job] \in Row
      BY BaseFacts DEF Clear, Base, CallsFit, Contract!Beat
    <3>2. /\ r \in Row /\ r # NULL
          /\ r.state = rows[b.job].state /\ r.owner = rows[b.job].owner
          /\ r.attempts = rows[b.job].attempts /\ r.nextAt = rows[b.job].nextAt
          /\ r.flags = rows[b.job].flags /\ r.dirty = rows[b.job].dirty
      BY <3>1, NullAssumption DEF Row
    <3>3. rows' = [rows EXCEPT ![b.job] = r]
      BY <2>2 DEF Contract!HeartbeatWrite
    <3> HIDE DEF r
    <3>4. rows'[j] = IF j = b.job THEN r ELSE rows[j]
      BY <3>3, BaseFacts DEF Clear
    <3>5. QED
      BY <1>3, <3>2, <3>4
  <2>3. QED
    BY <2>1, <2>2 DEF Heartbeat, Contract!HeartbeatStart
<1>4. CallsEnd
  BY <1>1, BaseFacts DEF CallsEnd, Clear
<1>5. Contract!HeldIsProcessing'
  BY <1>1, <1>3, Holder, HoldersStay
<1>6. ASSUME NEW w \in Workers, call'[w] # NULL
      PROVE  /\ rows'[call[w].job].dirty = rows[call[w].job].dirty
             /\ rows'[call[w].job].attempts = rows[call[w].job].attempts
             /\ Leasable(rows'[call[w].job], call[w].at) =>
                  /\ Leasable(rows[call[w].job], call[w].at)
                  /\ rows'[call[w].job].flags = rows[call[w].job].flags
  <2>1. call[w].job \in Jobs /\ rows[call[w].job] # NULL
    BY <1>1, <1>6, ReaderOfWorker, Reader
  <2>2. QED
    BY <1>3, <2>1 DEF Leasable
<1>7. ReadsHold'
  BY <1>1, <1>4, <1>6, ReadsStay
<1>8. QED
  BY <1>2, <1>5, <1>7 DEF Follows

(* Nobody is between two statements. *)
LEMMA NoReaders ==
  ASSUME Clear, ~spawned \/ ~up
  PROVE  \A l \in Loops : call[l] = NULL
BY DEF Clear, Base, CallsFit

LEMMA NothingRead ==
  ASSUME \A l \in Loops : call'[l] = NULL
  PROVE  ReadsHold'
BY DEF ReadsHold, Loops

LEMMA StopFollows ==
  ASSUME Clear, Stop
  PROVE  Follows
<1>1. /\ work' = [w \in Workers |-> NULL] /\ call' = [l \in Loops |-> NULL]
  BY DEF Stop, Contract!Stop
<1>2. Contract!Next
  BY DEF Stop, Contract!Next
<1>3. Contract!HeldIsProcessing'
  BY <1>1 DEF Contract!HeldIsProcessing
<1>4. ReadsHold'
  BY <1>1, NothingRead
<1>5. QED
  BY <1>2, <1>3, <1>4 DEF Follows

LEMMA StartFollows ==
  ASSUME Clear, Start
  PROVE  Follows
<1>1. UNCHANGED <<work, call>> /\ ~up
  BY DEF Start, Contract!Start, Contract!StartScanOnce
<1>2. Contract!Next
  BY DEF Start, Contract!Next
<1>3. Contract!HeldIsProcessing'
  BY <1>1, Holder DEF Contract!HeldIsProcessing
<1>4. ReadsHold'
  BY <1>1, NoReaders, NothingRead
<1>5. QED
  BY <1>2, <1>3, <1>4 DEF Follows

LEMMA ProcessingEnqueued ==
  ASSUME NEW row \in Row, row.state = "processing", NEW p \in Priorities, NEW t \in Nat,
         NEW fl \in SUBSET Flags
  PROVE  LET r == Contract!Enqueued(row, p, t, fl) IN
           /\ r # NULL /\ r.state = row.state /\ r.owner = row.owner /\ r.attempts = row.attempts
<1>1. row # NULL
  BY NullAssumption
<1>2. Contract!Enqueued(row, p, t, fl) =
        [row EXCEPT !.priority = p, !.dirty = TRUE, !.flags = row.flags \cup fl]
  BY <1>1 DEF Contract!Enqueued
<1>3. Contract!Enqueued(row, p, t, fl) \in Row
  BY EnqueuedRow
<1>4. QED
  BY <1>2, <1>3, NullAssumption DEF Row

LEMMA StartupFollows ==
  ASSUME Clear, NEW j \in Jobs, NEW p \in Priorities, StartupEnqueue(j, p)
  PROVE  Follows
<1> DEFINE r == Contract!Enqueued(rows[j], p, now, {})
<1>1. /\ rows' = [rows EXCEPT ![j] = r] /\ ~spawned /\ UNCHANGED <<work, up, call>>
  BY DEF StartupEnqueue, Contract!Enqueue
<1>2. Contract!Next
  <2>1. now \in Contract!ClockReads
    <3>1. now \in Nat /\ Lag \in Nat
      BY BaseFacts, JobQueueAssumption DEF Clear
    <3>2. QED
      BY <3>1 DEF Contract!ClockReads
  <2>2. {} \in Requests /\ Contract!Enqueue(j, p, now, {})
    BY JobQueueSqlAssumption DEF StartupEnqueue
  <2>3. QED
    BY <2>1, <2>2 DEF Contract!Next
<1>3. ReadsHold'
  BY <1>1, NoReaders, NothingRead
<1>4. Contract!HeldIsProcessing'
  <2> SUFFICES ASSUME NEW w \in Workers, work[w] # NULL
               PROVE  /\ rows'[work[w].job] # NULL
                      /\ rows'[work[w].job].state = rows[work[w].job].state
                      /\ rows'[work[w].job].owner = rows[work[w].job].owner
                      /\ rows'[work[w].job].attempts = rows[work[w].job].attempts
    BY <1>1, Holder, HoldersStay
  <2>1. CASE work[w].job # j
    BY <1>1, <2>1, Holder, BaseFacts DEF Clear
  <2>2. CASE work[w].job = j
    <3>1. rows[j] \in Row /\ rows[j] # NULL /\ rows[j].state = "processing"
      BY <2>2, Holder
    <3>2. /\ r # NULL /\ r.state = rows[j].state /\ r.owner = rows[j].owner
          /\ r.attempts = rows[j].attempts
      BY <3>1, BaseFacts, ProcessingEnqueued DEF Clear
    <3>3. rows'[j] = r
      BY <1>1, BaseFacts DEF Clear
    <3>4. QED
      BY <2>2, <3>2, <3>3
  <2>3. QED
    BY <2>1, <2>2
<1>5. QED
  BY <1>2, <1>3, <1>4 DEF Follows

(* Nothing happens to rows or work. *)
LEMMA NothingMoves ==
  ASSUME Clear, UNCHANGED <<rows, work, call, up>>
  PROVE  Contract!HeldIsProcessing' /\ ReadsHold'
<1>1. CallsEnd
  BY BaseFacts DEF CallsEnd, Clear
<1>2. Contract!HeldIsProcessing'
  BY Holder, HoldersStay
<1>3. ReadsHold'
  BY <1>1, ReadsStay
<1>4. QED
  BY <1>2, <1>3

LEMMA QuietFollows ==
  ASSUME Clear, Tick \/ Spawn \/ UNCHANGED vars
  PROVE  Follows
<1>1. UNCHANGED <<rows, work, call, up>>
  BY DEF Tick, Spawn, Contract!Tick, vars, contract
<1>2. Contract!HeldIsProcessing' /\ ReadsHold'
  BY <1>1, NothingMoves
<1>3. Contract!Next \/ UNCHANGED contract
  BY DEF Tick, Spawn, Contract!Next, vars
<1>4. QED
  BY <1>2, <1>3 DEF Follows

LEMMA SelectFollows ==
  ASSUME Clear, NEW l \in Loops, NEW c \in Calls, Idle(l), Begin(l, c),
         UNCHANGED <<contract, spawned, crossing>>,
         l \in Workers => IF work[l] = NULL
                          THEN /\ c.seen = rows[c.job] /\ rows[c.job] # NULL
                               /\ rows[c.job].state = "pending"
                          ELSE c.seen = rows[c.job]
  PROVE  Follows
<1>1. UNCHANGED <<rows, work, up>>
  BY DEF contract
<1>2. /\ call'[l] = c /\ \A k \in Loops : k # l => call'[k] = call[k]
  BY BaseFacts DEF Begin, Clear
<1>3. Contract!HeldIsProcessing'
  BY <1>1, Holder, HoldersStay
<1>4. ReadsHold'
  <2> SUFFICES ASSUME NEW w \in Workers, call'[w] # NULL, ~call'[w].crossed
               PROVE  IF work'[w] = NULL THEN LeaseReads(w)' ELSE CompleteReads(w)'
    BY DEF ReadsHold
  <2>1. CASE w # l
    <3>1. call'[w] = call[w]
      BY <1>2, <2>1 DEF Loops
    <3>2. QED
      BY <1>1, <3>1, ReaderOfWorker
         DEF LeaseReads, CompleteReads, Contract!HeldBy, Contract!ReadyAt, Contract!InState, Contract!Exists
  <2>2. CASE w = l
    <3>1. CASE work[w] # NULL
      BY <1>1, <1>2, <2>2, <3>1 DEF CompleteReads
    <3>2. CASE work[w] = NULL
      <4>1. \A v \in Workers : work[v] # NULL => work[v].job # c.job
        BY <2>2, <3>2, Holder
      <4>2. LeaseReads(w)'
        BY <1>1, <1>2, <2>2, <3>2, <4>1 DEF LeaseReads, Contract!HeldBy
      <4>3. QED
        BY <1>1, <3>2, <4>2
    <3>3. QED
      BY <3>1, <3>2
  <2>3. QED
    BY <2>1, <2>2
<1>5. QED
  BY <1>3, <1>4 DEF Follows

LEMMA SelectsFollow ==
  ASSUME Clear
  PROVE  /\ \A e \in Enqueuers, j \in Jobs, p \in Priorities, fl \in Requests :
              EnqueueSelect(e, j, p, fl) => Follows
         /\ \A w \in Workers : LeaseSelect(w) \/ CompleteSelect(w) => Follows
<1>1. ASSUME NEW e \in Enqueuers, NEW j \in Jobs, NEW p \in Priorities, NEW fl \in Requests,
             EnqueueSelect(e, j, p, fl)
      PROVE  Follows
  <2>1. e \in Loops /\ e \notin Workers /\ fl \in SUBSET Flags
    BY JobQueueSqlAssumption DEF Loops, Flags
  <2>2. QED
    BY <1>1, <2>1, NewCall, SelectFollows DEF EnqueueSelect, Clear
<1>2. ASSUME NEW w \in Workers, LeaseSelect(w)
      PROVE  Follows
  <2>1. PICK j \in Pick(now) : Begin(w, Call(j, NULL, {}))
    BY <1>2 DEF LeaseSelect
  <2>2. j \in Jobs /\ rows[j] # NULL /\ rows[j].state = "pending" /\ w \in Loops /\ {} \in SUBSET Flags
    BY DEF Pick, Contract!ReadyAt, Contract!InState, Contract!Exists, Loops
  <2>3. QED
    BY <1>2, <2>1, <2>2, NewCall, SelectFollows DEF LeaseSelect, Clear
<1>3. ASSUME NEW w \in Workers, CompleteSelect(w)
      PROVE  Follows
  <2>1. w \in Loops /\ {} \in SUBSET Flags /\ work[w] # NULL /\ work[w].job \in Jobs
    BY <1>3, Holder DEF CompleteSelect, Loops
  <2>2. QED
    BY <1>3, <2>1, NewCall, SelectFollows DEF CompleteSelect, Clear
<1>4. QED
  BY <1>1, <1>2, <1>3

-----------------------------------------------------------------------------
(* An attempt ends: its row is held by nobody else, and who has read it    *)
(* has crossed or finds it not to be leased for the time of its query.     *)
LEMMA FinishStays ==
  ASSUME Clear, NEW w \in Workers, NEW r \in Row, work[w] # NULL,
         rows' = rows \/ rows' = [rows EXCEPT ![work[w].job] = r],
         work' = [work EXCEPT ![w] = NULL], up' = up, CallsEnd, call'[w] = NULL,
         \A v \in Workers : call'[v] # NULL /\ ~call'[v].crossed /\ call[v].job = work[w].job =>
           ~Leasable(rows'[work[w].job], call[v].at)
  PROVE  Contract!HeldIsProcessing' /\ ReadsHold'
<1> DEFINE j == work[w].job
<1>1. j \in Jobs /\ \A i \in Jobs : i # j => rows'[i] = rows[i]
  BY Holder, BaseFacts DEF Clear
<1>2. work'[w] = NULL /\ \A v \in Workers : v # w => work'[v] = work[v]
  BY BaseFacts DEF Clear
<1>3. ASSUME NEW v \in Workers, work'[v] # NULL
      PROVE  work'[v] = work[v] /\ up' /\ work[v].job \in Jobs /\ work[v].job # j
  BY <1>2, <1>3, Holder, Exclusive
<1>4. Contract!HeldIsProcessing'
  BY <1>1, <1>3, Holder, HoldersStay
<1>5. ASSUME NEW v \in Workers, call'[v] # NULL
      PROVE  /\ work'[v] = work[v] /\ call[v] # NULL /\ call[v].job \in Jobs
             /\ work[v] # NULL => rows'[call[v].job] = rows[call[v].job]
  <2>1. call[v] # NULL /\ v # w
    BY <1>5 DEF CallsEnd, Loops
  <2>2. work[v] # NULL => call[v].job = work[v].job
    BY <2>1, ReaderOfWorker
  <2>3. QED
    BY <1>1, <1>2, <1>3, <2>1, <2>2, Reader DEF Loops
<1>6. ASSUME NEW v \in Workers, call'[v] # NULL, ~call'[v].crossed, work[v] = NULL
      PROVE  /\ Leasable(rows'[call[v].job], call[v].at) => rows'[call[v].job] = rows[call[v].job]
             /\ \A u \in Workers : work'[u] # NULL => work'[u] = work[u]
  BY <1>1, <1>2, <1>5, <1>6
<1>7. ReadsHold'
  BY <1>5, <1>6, ReadsStay
<1>8. QED
  BY <1>4, <1>7

LEMMA OneStatementFollows ==
  ASSUME Clear, NEW w \in Workers, OneStatement(w)
  PROVE  Follows
<1>1. UNCHANGED call /\ call[w] = NULL
  BY DEF OneStatement, Idle
<1>2. CallsEnd
  BY <1>1, BaseFacts DEF CallsEnd, Clear
<1>3. Contract!Next
  BY DEF OneStatement, Contract!Next, Contract!FinishSome
<1>4. work[w] # NULL
  BY DEF OneStatement, Contract!Retry, Contract!Defer, Contract!Fail, Contract!Finish, Contract!Abandon
<1> DEFINE j == work[w].job
           row == rows[j]
<1>5. /\ work[w] \in Held /\ j \in Jobs /\ row \in Row /\ row # NULL /\ row.state = "processing"
      /\ work[w].since \in Nat
  BY <1>4, Holder
<1>6. ASSUME NEW v \in Workers, call[v] # NULL, ~call[v].crossed, call[v].job = j
      PROVE  call[v].at \in Nat /\ work[w].since >= call[v].at
  <2>1. work[v] = NULL
    BY <1>1, <1>4, <1>6, ReaderOfWorker, Exclusive
  <2>2. LeaseReads(v)
    BY <1>6, <2>1, ReaderOfWorker
  <2>3. v \in Loops
    BY DEF Loops
  <2>4. QED
    BY <1>4, <1>6, <2>2, <2>3, Reader DEF LeaseReads, Contract!HeldBy
(* Either the row keeps its state, or it is not ready for anybody who has  *)
(* read it.                                                                *)
<1>7. ASSUME NEW r \in Row, Contract!Finish(w, r),
             r.state = "pending" => r.nextAt \in Nat /\ r.nextAt > work[w].since
      PROVE  Follows
  <2>1. /\ rows' = [rows EXCEPT ![j] = r] /\ work' = [work EXCEPT ![w] = NULL] /\ up' = up
    BY <1>7 DEF Contract!Finish
  <2>2. rows'[j] = r
    BY <1>5, <2>1, BaseFacts DEF Clear
  <2>3. ASSUME NEW v \in Workers, call'[v] # NULL, ~call'[v].crossed, call[v].job = j
        PROVE  ~Leasable(rows'[j], call[v].at)
    BY <1>1, <1>5, <1>6, <1>7, <2>2, <2>3 DEF Leasable
  <2> HIDE DEF j
  <2>4. Contract!HeldIsProcessing' /\ ReadsHold'
    BY <1>1, <1>2, <1>4, <2>1, <2>3, FinishStays DEF j
  <2>5. QED
    BY <1>3, <2>4 DEF Follows
<1>8. ASSUME NEW t \in Contract!RetryTimes(w)
      PROVE  t \in Nat /\ t > work[w].since
  <2>1. PICK s \in work[w].since .. now, d \in Delays : t = s + d
    BY DEF Contract!RetryTimes
  <2>2. s \in Int /\ s >= work[w].since /\ d \in Nat /\ d > 0 /\ t \in 0 .. MaxTime
    BY <1>5, BaseFacts, JobQueueAssumption DEF Clear, Contract!RetryTimes
  <2>3. QED
    BY <1>5, <2>1, <2>2
<1>9. ASSUME NEW max \in Contract!Windows, Contract!Retry(w, max)
      PROVE  Follows
  <2>1. PICK t \in Contract!RetryTimes(w) : Contract!Finish(w, Contract!Released(row, "pending", t))
    BY <1>9 DEF Contract!Retry, Contract!HeldRow
  <2> DEFINE r == Contract!Released(row, "pending", t)
  <2>2. r \in Row /\ r.nextAt = t
    BY <1>5, <1>8 DEF Contract!Released, Row, States
  <2> HIDE DEF r
  <2>3. QED
    BY <1>7, <1>8, <2>1, <2>2 DEF r
<1>10. ASSUME Contract!Defer(w)
       PROVE  Follows
  <2>1. PICK t \in Contract!RetryTimes(w) : Contract!Finish(w, Contract!Deferred(row, t))
    BY <1>10 DEF Contract!Defer, Contract!HeldRow
  <2> DEFINE r == Contract!Deferred(row, t)
  <2>2. r \in Row /\ r.nextAt = t
    BY <1>5, <1>8, DeferredRow
  <2> HIDE DEF r
  <2>3. QED
    BY <1>7, <1>8, <2>1, <2>2 DEF r
<1>11. ASSUME Contract!Fail(w)
       PROVE  Follows
  <2> DEFINE r == Contract!Released(row, "failed", NULL)
  <2>1. r \in Row /\ r.state = "failed"
    BY <1>5 DEF Contract!Released, Row, States
  <2>2. Contract!Finish(w, r)
    BY <1>11 DEF Contract!Fail, Contract!HeldRow
  <2> HIDE DEF r
  <2>3. QED
    BY <1>7, <2>1, <2>2
<1>12. ASSUME Contract!Abandon(w)
       PROVE  Follows
  <2>1. rows' = rows /\ work' = [work EXCEPT ![w] = NULL] /\ up' = up
    BY <1>12 DEF Contract!Abandon
  <2>2. \A v \in Workers : ~Leasable(rows'[j], call[v].at)
    BY <1>5, <2>1 DEF Leasable
  <2> HIDE DEF j
  <2>3. Contract!HeldIsProcessing' /\ ReadsHold'
    BY <1>1, <1>2, <1>4, <1>5, <2>1, <2>2, FinishStays DEF j
  <2>4. QED
    BY <1>3, <2>3 DEF Follows
<1>13. QED
  BY <1>9, <1>10, <1>11, <1>12 DEF OneStatement

LEMMA CompleteUpdateFollows ==
  ASSUME Clear, NEW w \in Workers, CompleteUpdate(w), ~crossing'
  PROVE  Follows
<1> DEFINE c == call[w]
           row == rows[c.job]
           done == Contract!Completed(row, c.at)
<1>1. /\ c # NULL /\ work[w] # NULL /\ ~c.crossed /\ w \in Loops
      /\ IF c.seen.dirty THEN EndCrossing(w) ELSE End(w)
  BY DEF CompleteUpdate, Pending, Loops
<1>2. /\ row \in Row /\ c.job = work[w].job /\ c.seen \in Row /\ CompleteReads(w)
  BY <1>1, ReaderOfWorker
<1>3. row.dirty = c.seen.dirty /\ row.attempts = c.seen.attempts
  BY <1>2 DEF CompleteReads
<1>4. [row EXCEPT !.dirty = c.seen.dirty, !.attempts = c.seen.attempts] = row
  <2> HIDE DEF c, row
  <2>1. QED
    BY <1>2, <1>3 DEF Row
<1>5. Contract!Finish(w, done)
  BY <1>4 DEF CompleteUpdate
<1>6. c.at \in Contract!ClockReads /\ c.at \in Nat
  BY <1>1, Reader
<1>7. Contract!Next
  <2>1. Contract!Complete(w, c.at)
    BY <1>2, <1>5 DEF Contract!Complete, Contract!HeldRow
  <2>2. QED
    BY <1>6, <2>1 DEF Contract!Next, Contract!FinishSome
<1>8. done \in Row /\ (~row.dirty => done.state = "completed")
  <2> HIDE DEF c, row
  <2>1. row.dirty \in BOOLEAN
    BY <1>2 DEF Row
  <2>2. QED
    BY <1>2, <1>6, <2>1, CompletedRow
<1>9. /\ CallsEnd /\ call'[w] = NULL
      /\ row.dirty => \A v \in Workers : call'[v] # NULL /\ call[v].job = c.job => call'[v].crossed
  BY <1>1, <1>3, CrossingEnds, CallEnds DEF Clear, Base, Loops
<1>10. rows' = [rows EXCEPT ![work[w].job] = done] /\ work' = [work EXCEPT ![w] = NULL] /\ up' = up
  BY <1>5 DEF Contract!Finish
<1>11. rows'[work[w].job] = done
  BY <1>1, <1>10, Holder, BaseFacts DEF Clear
<1>12. ASSUME NEW v \in Workers, call'[v] # NULL, ~call'[v].crossed, call[v].job = work[w].job
       PROVE  ~Leasable(rows'[work[w].job], call[v].at)
  BY <1>2, <1>8, <1>9, <1>11, <1>12 DEF Leasable
<1> HIDE DEF c, row, done
<1>13. Contract!HeldIsProcessing' /\ ReadsHold'
  BY <1>1, <1>8, <1>9, <1>10, <1>12, FinishStays
<1>14. QED
  BY <1>7, <1>13 DEF Follows

(* When the columns that were read have not changed, the UPDATE writes     *)
(* what the contract makes of the row.                                     *)
LEMMA OverwritesWhatIsThere ==
  ASSUME NEW row \in Row, NEW c \in Calls, c.seen # NULL, Columns(row) = Columns(c.seen),
         c.priority \in Priorities
  PROVE  Overwritten(row, c) = Contract!Enqueued(row, c.priority, c.at, c.flags)
<1>1. PICK seen \in Row : seen = c.seen
  BY DEF Calls
<1>2. PICK p \in Priorities, t \in Nat, fl \in SUBSET Flags : p = c.priority /\ t = c.at /\ fl = c.flags
  BY DEF Calls
<1>3. /\ row.state = seen.state /\ row.attempts = seen.attempts /\ row.nextAt = seen.nextAt
      /\ row.dirty = seen.dirty /\ row.flags = seen.flags
  BY <1>1 DEF Columns
<1>4. row # NULL /\ seen # NULL
  BY NullAssumption
<1>5. Overwritten(row, c) = [Contract!Enqueued(seen, p, t, fl) EXCEPT !.owner = row.owner, !.lease = row.lease]
  BY <1>1, <1>2 DEF Overwritten
<1>6. CASE row.state = "processing"
  <2> DEFINE e(x) == [x EXCEPT !.priority = p, !.dirty = TRUE, !.flags = x.flags \cup fl]
  <2>1. Contract!Enqueued(seen, p, t, fl) = e(seen) /\ Contract!Enqueued(row, p, t, fl) = e(row)
    BY <1>3, <1>4, <1>6 DEF Contract!Enqueued
  <2>2. e(row) = [e(seen) EXCEPT !.owner = row.owner, !.lease = row.lease]
    BY <1>3 DEF Row
  <2>3. QED
    BY <1>2, <1>5, <2>1, <2>2
<1>7. CASE row.state # "processing"
  <2> DEFINE e(x) == [Contract!Fresh(p, t, fl \cup x.flags) EXCEPT !.owner = x.owner, !.lease = x.lease]
  <2>1. Contract!Enqueued(seen, p, t, fl) = e(seen) /\ Contract!Enqueued(row, p, t, fl) = e(row)
    BY <1>3, <1>4, <1>7 DEF Contract!Enqueued
  <2>2. e(row) = [e(seen) EXCEPT !.owner = row.owner, !.lease = row.lease]
    BY <1>3 DEF Row, Contract!Fresh
  <2>3. QED
    BY <1>2, <1>5, <2>1, <2>2
<1>8. QED
  BY <1>6, <1>7

LEMMA EnqueueWriteFollows ==
  ASSUME Clear, NEW e \in Enqueuers, EnqueueWrite(e), ~crossing'
  PROVE  Follows
<1> DEFINE c == call[e]
           j == c.job
           fresh == Contract!Enqueued(rows[j], c.priority, c.at, c.flags)
<1>1. /\ e \in Loops /\ c # NULL /\ up /\ UNCHANGED <<work, beats, now, up, restarts>>
      /\ EndCrossing(e) /\ (c.seen # NULL => Columns(rows[j]) = Columns(c.seen))
  BY DEF EnqueueWrite, Pending, Changed, Loops
<1>2. /\ c \in Calls /\ j \in Jobs /\ c.at \in Nat /\ c.at \in Contract!ClockReads
      /\ c.seen \in Row \cup {NULL} /\ (c.seen # NULL => rows[j] \in Row /\ rows[j] # NULL)
      /\ c.priority \in Priorities /\ c.flags \in Requests /\ c.flags \in SUBSET Flags
  BY <1>1, Reader DEF Clear, Base, CallsFit, Flags
<1>3. /\ CallsEnd
      /\ \A k \in Loops : call'[k] # NULL /\ call[k].job = j => call'[k].crossed
  BY <1>1, CrossingEnds DEF Clear, Base
<1>4. enqueues < MaxEnqueues
  <2>1. e \in Busy
    BY <1>1 DEF Busy
  <2>2. Cardinality(Busy) # 0
    BY <2>1, BusyIsFinite, FS_EmptySet
  <2>3. QED
    BY <2>2, BaseFacts DEF Clear
(* What is written is what the contract makes of the row.                  *)
<1>5. CASE UNCHANGED <<rows, owed, enqueues>>
  <2>1. Contract!HeldIsProcessing'
    BY <1>1, <1>5, Holder, HoldersStay
  <2>2. ReadsHold'
    BY <1>1, <1>3, <1>5, ReadsStay
  <2>3. UNCHANGED contract
    BY <1>1, <1>5 DEF contract
  <2>4. QED
    BY <2>1, <2>2, <2>3 DEF Follows
<1>6. ASSUME rows' = [rows EXCEPT ![j] = fresh], owed' = owed \cup {j}, enqueues' = enqueues + 1
      PROVE  Follows
  <2>1. Contract!Enqueue(j, c.priority, c.at, c.flags)
    BY <1>1, <1>4, <1>6 DEF Contract!Enqueue
  <2>2. Contract!Next
    BY <1>2, <2>1 DEF Contract!Next
  <2>3. rows'[j] = fresh /\ \A i \in Jobs : i # j => rows'[i] = rows[i]
    BY <1>2, <1>6, BaseFacts DEF Clear
  <2>4. ASSUME NEW w \in Workers, work[w] # NULL
        PROVE  /\ rows'[work[w].job] # NULL
               /\ rows'[work[w].job].state = rows[work[w].job].state
               /\ rows'[work[w].job].owner = rows[work[w].job].owner
               /\ rows'[work[w].job].attempts = rows[work[w].job].attempts
    <3>1. CASE work[w].job # j
      BY <2>3, <2>4, <3>1, Holder
    <3>2. CASE work[w].job = j
      <4>1. rows[j] \in Row /\ rows[j].state = "processing"
        BY <2>4, <3>2, Holder
      <4>2. /\ fresh # NULL /\ fresh.state = rows[j].state /\ fresh.owner = rows[j].owner
            /\ fresh.attempts = rows[j].attempts
        BY <1>2, <4>1, ProcessingEnqueued
      <4>3. QED
        BY <2>3, <3>2, <4>2
    <3>3. QED
      BY <3>1, <3>2
  <2>5. Contract!HeldIsProcessing'
    BY <1>1, <2>4, Holder, HoldersStay
  <2>6. ASSUME NEW w \in Workers, call'[w] # NULL, ~call'[w].crossed
        PROVE  rows'[call[w].job] = rows[call[w].job]
    <3>1. call[w] # NULL /\ w \in Loops
      BY <1>3, <2>6 DEF CallsEnd, Loops
    <3>2. call[w].job # j /\ call[w].job \in Jobs
      BY <1>3, <2>6, <3>1, Reader
    <3>3. QED
      BY <2>3, <3>2
  <2> HIDE DEF c, j, fresh
  <2>7. ReadsHold'
    BY <1>1, <1>3, <2>6, ReadsStay
  <2>8. QED
    BY <2>2, <2>5, <2>7 DEF Follows
<1>7. CASE c.seen = NULL /\ rows[j] = NULL
  BY <1>5, <1>6, <1>7 DEF EnqueueWrite, Contract!Enqueued
<1>8. CASE c.seen # NULL
  <2>1. Overwritten(rows[j], c) = fresh
    BY <1>1, <1>2, <1>8, OverwritesWhatIsThere
  <2>2. QED
    BY <1>5, <1>6, <1>8, <2>1 DEF EnqueueWrite
<1>9. QED
  BY <1>5, <1>7, <1>8 DEF EnqueueWrite

(* A worker takes the job: whoever else has read it does not find it ready.*)
LEMMA TakeLeaseFollows ==
  ASSUME Clear, NEW w \in Workers, work[w] = NULL, NEW j \in Jobs, NEW seen \in Row,
         NEW t \in Contract!ClockReads, Contract!ReadyAt(j, t),
         seen.attempts = rows[j].attempts, seen.flags = rows[j].flags,
         TakeLease(w, j, seen, t), End(w),
         up, UNCHANGED <<beats, now, up, enqueues, restarts>>
  PROVE  Follows
<1> DEFINE r == Contract!Leased(rows[j], w, t)
           held == [job |-> j, attempt |-> rows[j].attempts + 1, flags |-> rows[j].flags, since |-> now]
<1>1. /\ rows[j] \in Row /\ rows[j] # NULL /\ rows[j].state = "pending"
      /\ rows[j].attempts \in Nat /\ t \in Nat /\ now \in Nat
  BY BaseFacts DEF Contract!ReadyAt, Contract!InState, Contract!Exists, Contract!ClockReads, Clear, Row
<1>2. /\ r \in Row /\ r # NULL /\ r.state = "processing" /\ r.owner = w
      /\ r.attempts = rows[j].attempts + 1
  <2>1. t + LeaseTTL \in Nat
    BY <1>1, JobQueueAssumption
  <2> DEFINE row == rows[j]
  <2>2. row \in Row /\ row.attempts + 1 \in Nat
    BY <1>1
  <2> HIDE DEF row
  <2>3. LET l == Contract!Leased(row, w, t) IN
          /\ l \in Row /\ l.state = "processing" /\ l.owner = w /\ l.attempts = row.attempts + 1
    BY <2>1, <2>2 DEF Contract!Leased, Row, States
  <2>4. QED
    BY <2>3, NullAssumption DEF row
<1>3. [r EXCEPT !.attempts = seen.attempts + 1] = r
  <2>1. seen.attempts + 1 = r.attempts
    BY <1>2
  <2> HIDE DEF r
  <2>2. QED
    BY <1>2, <2>1 DEF Row
<1>4. /\ rows' = [rows EXCEPT ![j] = r] /\ work' = [work EXCEPT ![w] = held] /\ owed' = owed \ {j}
  BY <1>3 DEF TakeLease
<1>5. Contract!Next
  <2>1. Contract!Lease(w, j, t)
    BY <1>4 DEF Contract!Lease
  <2>2. QED
    BY <2>1 DEF Contract!Next, Contract!LeaseSome
<1>6. /\ held.job = j /\ held.attempt = r.attempts /\ held.since = now
  BY <1>2
<1> HIDE DEF r, held
<1>7. /\ rows'[j] = r /\ \A i \in Jobs : i # j => rows'[i] = rows[i]
      /\ work'[w] = held /\ \A v \in Workers : v # w => work'[v] = work[v]
  BY <1>4, BaseFacts DEF Clear
<1>8. Contract!HeldIsProcessing'
  <2> SUFFICES ASSUME NEW v \in Workers, work'[v] # NULL
               PROVE  /\ up'
                      /\ rows'[work'[v].job] # NULL /\ rows'[work'[v].job].state = "processing"
                      /\ rows'[work'[v].job].owner = v
                      /\ rows'[work'[v].job].attempts = work'[v].attempt
    BY DEF Contract!HeldIsProcessing, Contract!InState, Contract!Exists, Contract!HeldRow
  <2>1. CASE v = w
    BY <1>2, <1>6, <1>7, <2>1
  <2>2. CASE v # w
    BY <1>1, <1>7, <2>2, Holder
  <2>3. QED
    BY <2>1, <2>2
<1>9. w \in Loops /\ CallsEnd /\ call'[w] = NULL
  BY CallEnds DEF Clear, Base, Loops
<1>10. ASSUME NEW v \in Workers, call'[v] # NULL
       PROVE  /\ v # w /\ work'[v] = work[v] /\ call[v] # NULL
              /\ call[v].job \in Jobs /\ call[v].at <= now
              /\ work[v] # NULL => call[v].job = work[v].job /\ call[v].job # j
  <2>1. v # w /\ call[v] # NULL /\ v \in Loops
    BY <1>9, <1>10 DEF CallsEnd, Loops
  <2>2. work[v] # NULL => call[v].job = work[v].job /\ call[v].job # j
    BY <1>1, <2>1, Holder, ReaderOfWorker
  <2>3. QED
    BY <1>7, <2>1, <2>2, Reader
<1>11. ASSUME NEW v \in Workers, call'[v] # NULL, ~call'[v].crossed
       PROVE  /\ work[v] # NULL => rows'[call[v].job] = rows[call[v].job]
              /\ Leasable(rows'[call[v].job], call[v].at) => rows'[call[v].job] = rows[call[v].job]
              /\ \A u \in Workers : work'[u] # NULL => work'[u] = work[u] \/ work'[u].since >= call[v].at
  <2>1. Leasable(rows'[call[v].job], call[v].at) => call[v].job # j
    BY <1>2, <1>7 DEF Leasable
  <2>2. \A u \in Workers : work'[u] = work[u] \/ work'[u].since = now
    BY <1>6, <1>7
  <2>3. QED
    BY <1>7, <1>10, <1>11, <2>1, <2>2
<1>12. ReadsHold'
  BY <1>9, <1>10, <1>11, ReadsStay
<1>13. QED
  BY <1>5, <1>8, <1>12 DEF Follows

LEMMA LeaseUpdateFollows ==
  ASSUME Clear, NEW w \in Workers, LeaseUpdate(w), ~crossing'
  PROVE  Follows
<1> DEFINE c == call[w]
<1>1. /\ c # NULL /\ work[w] = NULL /\ End(w) /\ up /\ UNCHANGED <<beats, now, up, enqueues, restarts>>
      /\ c.crossed => ~StillReady(c)
  BY DEF LeaseUpdate, Pending
<1>2. c.job \in Jobs /\ c.seen \in Row /\ c.at \in Contract!ClockReads
  BY <1>1, Reader, ReaderOfWorker
<1>3. CASE StillReady(c) /\ TakeLease(w, c.job, c.seen, c.at)
  <2>1. c.seen.attempts = rows[c.job].attempts /\ c.seen.flags = rows[c.job].flags
    BY <1>1, <1>3, ReaderOfWorker DEF LeaseReads, StillReady
  <2>2. QED
    BY <1>1, <1>2, <1>3, <2>1, TakeLeaseFollows DEF StillReady
<1>4. ASSUME NEW j \in Pick(c.at), TakeLease(w, j, rows[j], c.at)
      PROVE  Follows
  <2>1. j \in Jobs /\ Contract!ReadyAt(j, c.at) /\ rows[j] \in Row
    BY BaseFacts DEF Pick, Contract!ReadyAt, Contract!InState, Contract!Exists, Clear
  <2>2. QED
    BY <1>1, <1>2, <1>4, <2>1, TakeLeaseFollows
<1>5. CASE UNCHANGED <<rows, work, owed>>
  <2>1. w \in Loops /\ CallsEnd
    BY <1>1, CallEnds DEF Clear, Base, Loops
  <2>2. Contract!HeldIsProcessing'
    BY <1>1, <1>5, Holder, HoldersStay
  <2>3. ReadsHold'
    BY <1>5, <2>1, ReadsStay
  <2>4. UNCHANGED contract
    BY <1>1, <1>5 DEF contract
  <2>5. QED
    BY <2>2, <2>3, <2>4 DEF Follows
<1>6. QED
  BY <1>3, <1>4, <1>5 DEF LeaseUpdate

LEMMA StepFollows == Clear /\ [Next]_vars /\ ~crossing' => Follows
<1> SUFFICES ASSUME Clear, [Next]_vars, ~crossing'
             PROVE  Follows
  OBVIOUS
<1>1. ASSUME NEW w \in Workers,
             LeaseSelect(w) \/ LeaseUpdate(w) \/ CompleteSelect(w) \/ CompleteUpdate(w) \/ OneStatement(w)
      PROVE  Follows
  BY <1>1, SelectsFollow, LeaseUpdateFollows, CompleteUpdateFollows, OneStatementFollows
<1>2. ASSUME NEW e \in Enqueuers, NEW j \in Jobs, NEW p \in Priorities, NEW fl \in Requests,
             EnqueueSelect(e, j, p, fl)
      PROVE  Follows
  BY <1>2, SelectsFollow
<1>3. ASSUME NEW e \in Enqueuers, EnqueueWrite(e)
      PROVE  Follows
  BY <1>3, EnqueueWriteFollows
<1>4. ASSUME NEW j \in Jobs, NEW p \in Priorities, StartupEnqueue(j, p)
      PROVE  Follows
  BY <1>4, StartupFollows
<1>5. CASE Heartbeat \/ Stop \/ Start
  BY <1>5, HeartbeatFollows, StopFollows, StartFollows
<1>6. CASE Tick \/ Spawn \/ UNCHANGED vars
  BY <1>6, QuietFollows
<1>7. QED
  BY <1>1, <1>2, <1>3, <1>4, <1>5, <1>6 DEF Next

-----------------------------------------------------------------------------
(* A call that has crossed a request leaves its mark. *)
LEMMA CrossingStays == [Next]_vars /\ crossing => crossing'
BY DEF Next, vars, StartupEnqueue, Spawn, EnqueueSelect, EnqueueWrite, LeaseSelect, LeaseUpdate,
       CompleteSelect, CompleteUpdate, OneStatement, Heartbeat, Stop, Start, Tick

LEMMA InitSql == Init => SqlInv
<1> SUFFICES ASSUME Init
             PROVE  SqlInv
  OBVIOUS
<1>1. Base
  BY InitBase
<1>2. Contract!HeldIsProcessing /\ ReadsHold
  BY DEF Init, Contract!Init, Contract!HeldIsProcessing, ReadsHold, Loops
<1>3. QED
  BY <1>1, <1>2 DEF SqlInv, Base

LEMMA StepSql == SqlInv /\ [Next]_vars => SqlInv' /\ (crossing' \/ Contract!Next \/ UNCHANGED contract)
<1> SUFFICES ASSUME SqlInv, [Next]_vars
             PROVE  SqlInv' /\ (crossing' \/ Contract!Next \/ UNCHANGED contract)
  OBVIOUS
<1>1. Base'
  BY StepBase DEF SqlInv, Base
<1>2. ASSUME ~crossing'
      PROVE  Follows
  <2>1. Clear
    BY <1>2, CrossingStays DEF SqlInv, Base, Clear
  <2>2. QED
    BY <1>2, <2>1, StepFollows
<1>3. QED
  BY <1>1, <1>2 DEF SqlInv, Base, Follows

(* Whatever interleaves between the statements of the methods, the tables  *)
(* are well formed, and what was read of a row is of a row that is there;  *)
(* until calls cross, what a worker has read is still what its row says.   *)
THEOREM SqlInvariant == Spec => []SqlInv
<1>1. SqlInv /\ [Next]_vars => SqlInv'
  BY StepSql
<1> QED BY <1>1, InitSql, PTL DEF Spec

(* Rows, jobs in memory and calls under way are well formed, and no call   *)
(* is ahead of the clock.                                                  *)
THEOREM TypeCorrect == Spec => []TypeOK
<1>1. SqlInv => TypeOK
  BY DEF SqlInv
<1> QED BY <1>1, SqlInvariant, PTL

(* Whatever interleaves, and whatever crosses, every method leaves a       *)
(* pending row scheduled: the lease query finds it sooner or later.        *)
THEOREM PendingStaysScheduled == Spec => []PendingIsScheduled
<1>1. SqlInv => PendingIsScheduled
  BY DEF SqlInv
<1> QED BY <1>1, SqlInvariant, PTL

(* Up to the first call that crosses a request, the methods of two         *)
(* statements are together the contract's indivisible ones.                *)
THEOREM MethodsKeepTheContract == Spec => ImplementsContract
<1>1. Init => Contract!Init
  BY DEF Init
<1>2. SqlInv /\ [Next]_vars => [crossing' \/ Contract!Next]_contract
  BY StepSql
<1>3. QED
  BY <1>1, <1>2, SqlInvariant, PTL DEF Spec, ImplementsContract

(* Two workers never work on the same job unless calls have crossed: the   *)
(* conditional UPDATE is enough between workers, restarts and heartbeats.  *)
THEOREM WorkersExclude == Spec => [](crossing \/ ExclusiveLease)
<1>1. SqlInv => crossing \/ ExclusiveLease
  <2> SUFFICES ASSUME SqlInv, ~crossing
               PROVE  Contract!ExclusiveLease
    BY DEF ExclusiveLease
  <2>1. Clear
    BY DEF SqlInv, Clear, Base
  <2>2. QED
    BY <2>1, Exclusive DEF Contract!ExclusiveLease
<1> QED BY <1>1, SqlInvariant, PTL
-----------------------------------------------------------------------------
(* The proofs about the queue are about a copy of its definitions: a step  *)
(* by one is a step by the other.                                          *)
QueueProof == INSTANCE JobQueue_proof

LEMMA SameProducers ==
  \A j, p, t, fl : Contract!Enqueue(j, p, t, fl) => QueueProof!Enqueue(j, p, t, fl)
BY DEF Contract!Enqueue, QueueProof!Enqueue, Contract!Enqueued, QueueProof!Enqueued,
       Contract!Fresh, QueueProof!Fresh

LEMMA SameLease == \A w : Contract!LeaseSome(w) => QueueProof!LeaseSome(w)
<1>1. Contract!ClockReads = QueueProof!ClockReads
  BY DEF Contract!ClockReads, QueueProof!ClockReads
<1>2. \A w, j, t : Contract!Lease(w, j, t) => QueueProof!Lease(w, j, t)
  BY DEF Contract!Lease, QueueProof!Lease, Contract!ReadyAt, QueueProof!ReadyAt, Contract!InState,
         QueueProof!InState, Contract!Exists, QueueProof!Exists, Contract!Leased, QueueProof!Leased
<1>3. QED
  BY <1>1, <1>2 DEF Contract!LeaseSome, QueueProof!LeaseSome

LEMMA SameFinish ==
  \A w : Contract!FinishSome(w) \/ Contract!Abandon(w) => QueueProof!FinishSome(w) \/ QueueProof!Abandon(w)
<1>1. Contract!ClockReads = QueueProof!ClockReads /\ Contract!Windows = QueueProof!Windows
  BY DEF Contract!ClockReads, QueueProof!ClockReads, Contract!Windows, QueueProof!Windows
<1>2. \A w : /\ Contract!HeldRow(w) = QueueProof!HeldRow(w)
             /\ Contract!RetryTimes(w) = QueueProof!RetryTimes(w)
  BY DEF Contract!HeldRow, QueueProof!HeldRow, Contract!RetryTimes, QueueProof!RetryTimes
<1>3. \A row, s, t : Contract!Released(row, s, t) = QueueProof!Released(row, s, t)
  BY DEF Contract!Released, QueueProof!Released
<1>4. \A w, row : Contract!Finish(w, row) => QueueProof!Finish(w, row)
  BY DEF Contract!Finish, QueueProof!Finish
<1>5. \A w, t : Contract!Complete(w, t) => QueueProof!Complete(w, t)
  BY <1>2, <1>3, <1>4 DEF Contract!Complete, QueueProof!Complete, Contract!Completed, QueueProof!Completed
<1>6. \A w, max : Contract!Retry(w, max) => QueueProof!Retry(w, max)
  BY <1>2, <1>3, <1>4 DEF Contract!Retry, QueueProof!Retry
<1>7. \A w : Contract!Defer(w) => QueueProof!Defer(w)
  BY <1>2, <1>3, <1>4 DEF Contract!Defer, QueueProof!Defer, Contract!Deferred, QueueProof!Deferred
<1>8. \A w : Contract!Fail(w) => QueueProof!Fail(w)
  BY <1>2, <1>3, <1>4 DEF Contract!Fail, QueueProof!Fail
<1>9. \A w : Contract!Abandon(w) => QueueProof!Abandon(w)
  BY DEF Contract!Abandon, QueueProof!Abandon
<1>10. QED
  BY <1>1, <1>5, <1>6, <1>7, <1>8, <1>9 DEF Contract!FinishSome, QueueProof!FinishSome

LEMMA SameHeartbeat ==
  /\ \A w : Contract!HeartbeatStart(w) => QueueProof!HeartbeatStart(w)
  /\ \A b : Contract!HeartbeatWrite(b) => QueueProof!HeartbeatWrite(b)
<1>1. Contract!Cardinality(beats) = QueueProof!Cardinality(beats)
  BY Zenon DEF Contract!Cardinality, QueueProof!Cardinality
<1>2. QED
  BY <1>1 DEF Contract!HeartbeatStart, QueueProof!HeartbeatStart, Contract!HeartbeatWrite,
              QueueProof!HeartbeatWrite

LEMMA SameLife ==
  Contract!Stop \/ Contract!Start \/ Contract!StartScanOnce \/ Contract!Tick =>
    QueueProof!Stop \/ QueueProof!Start \/ QueueProof!StartScanOnce \/ QueueProof!Tick
<1>1. \A j : Contract!LeaseExpired(j) = QueueProof!LeaseExpired(j)
  BY DEF Contract!LeaseExpired, QueueProof!LeaseExpired, Contract!InState, QueueProof!InState,
         Contract!Exists, QueueProof!Exists
<1>2. \A row : Contract!Recovered(row) = QueueProof!Recovered(row)
  BY DEF Contract!Recovered, QueueProof!Recovered, Contract!Released, QueueProof!Released
<1>3. Contract!Start => QueueProof!Start
  BY <1>1, <1>2 DEF Contract!Start, QueueProof!Start
<1>4. QED
  BY <1>3 DEF Contract!Stop, QueueProof!Stop, Contract!StartScanOnce, QueueProof!StartScanOnce,
              Contract!Tick, QueueProof!Tick

LEMMA SameQueue == [Contract!Next]_contract => [QueueProof!Next]_contract
<1>1. Contract!ClockReads = QueueProof!ClockReads
  BY DEF Contract!ClockReads, QueueProof!ClockReads
<1>2. QED
  BY <1>1, SameProducers, SameLease, SameFinish, SameHeartbeat, SameLife
     DEF Contract!Next, QueueProof!Next

LEMMA QueueNull == NULL \notin Workers \cup QueueProof!Row \cup QueueProof!Held
<1>1. QueueProof!Row = Row /\ QueueProof!Held = Held
  BY DEF QueueProof!Row, QueueProof!Held, QueueProof!States, QueueProof!Flags, Row,
         Held, States, Flags
<1>2. QED
  BY <1>1, NullAssumption

(* So what the queue promises, its statements keep until calls cross: a    *)
(* row under work has a lease that runs out and a pending one a schedule,  *)
(* a request made during an attempt stays on record, and attempts stay     *)
(* bounded, however the statements of the methods interleave with those of *)
(* others, heartbeats, stops and restarts.                                 *)
THEOREM StatementsKeepTheQueue ==
  Spec => [](crossing \/ (Contract!Reachable /\ Contract!RequestIsOnRecord /\ Contract!BoundedAttempts))
<1> DEFINE Kept == ~crossing => QueueProof!QueueInv
<1>1. Init => Kept
  <2>1. Contract!Init => QueueProof!Init
    BY DEF Contract!Init, QueueProof!Init
  <2> QED BY <2>1, JobQueueAssumption, QueueNull, QueueProof!InitInv DEF Init
<1>2. SqlInv /\ Kept /\ [Next]_vars => Kept'
  <2> SUFFICES ASSUME SqlInv, Kept, [Next]_vars, ~crossing'
               PROVE  QueueProof!QueueInv'
    OBVIOUS
  <2>1. ~crossing
    BY CrossingStays DEF SqlInv, Base
  <2>2. [Contract!Next]_contract
    BY StepSql
  <2>3. [QueueProof!Next]_contract
    BY <2>2, SameQueue
  <2> QED BY <2>1, <2>3, JobQueueAssumption, QueueNull, QueueProof!StepInv DEF QueueProof!vars, contract
<1>3. Kept => crossing \/ (Contract!Reachable /\ Contract!RequestIsOnRecord /\ Contract!BoundedAttempts)
  <2> SUFFICES ASSUME QueueProof!QueueInv
               PROVE  Contract!Reachable /\ Contract!RequestIsOnRecord /\ Contract!BoundedAttempts
    OBVIOUS
  <2>1. \A j, state : QueueProof!InState(j, state) = Contract!InState(j, state)
    BY DEF QueueProof!InState, Contract!InState, QueueProof!Exists, Contract!Exists
  <2>2. /\ \A j : QueueProof!Exists(j) = Contract!Exists(j)
        /\ QueueProof!MaxAttempts = Contract!MaxAttempts
    BY DEF QueueProof!Exists, Contract!Exists, QueueProof!MaxAttempts, Contract!MaxAttempts
  <2>3. Contract!Reachable /\ Contract!RequestIsOnRecord
    BY <2>1 DEF QueueProof!QueueInv, QueueProof!Reachable, Contract!Reachable,
                QueueProof!RequestIsOnRecord, Contract!RequestIsOnRecord
  <2>4. Contract!BoundedAttempts
    BY <2>1, <2>2 DEF QueueProof!QueueInv, QueueProof!BoundedAttempts, Contract!BoundedAttempts
  <2> QED BY <2>3, <2>4
<1> HIDE DEF Kept
<1> QED BY <1>1, <1>2, <1>3, SqlInvariant, PTL DEF Spec

====
