---------------------------- MODULE JobQueueSql ----------------------------
(***************************************************************************)
(* The job queue of infrastructure/persistence/repository.py at the        *)
(* granularity of its SQL statements.                                      *)
(*                                                                         *)
(* Every repository method runs in a thread of its own on a pooled         *)
(* connection.  A SELECT does not open a transaction on such a connection, *)
(* the first UPDATE or INSERT does: between the two statements of          *)
(* enqueue_path, lease_next_ready_job and complete_job any other           *)
(* connection may write.  The remaining methods are one statement, which   *)
(* the write lock of SQLite makes indivisible; they are the contract's own *)
(* actions.                                                                *)
(*                                                                         *)
(* The variables of the contract, JobQueue, are kept under their names, so *)
(* the refinement mapping is the identity: a method takes effect with its  *)
(* last statement.  It departs from the contract only when calls have      *)
(* crossed: a request, or the completion that makes a new request of a     *)
(* dirty job, has changed a row between two statements of another call,    *)
(* which then writes what it had read.  The startup scan, which runs       *)
(* before any loop is spawned, crosses nothing; a job it marks dirty may,  *)
(* when it is completed.                                                   *)
(***************************************************************************)
EXTENDS JobQueueConstants

CONSTANTS
  Enqueuers    \* loops that enqueue beside the workers: stability, control, reconciliation

(* The startup scan asks without flags, and nothing bounds how long a      *)
(* thread takes from one statement to the next.                            *)
ASSUME JobQueueSqlAssumption ==
  /\ Enqueuers \cap Workers = {}
  /\ IsFiniteSet(Enqueuers)
  /\ {} \in Requests
  /\ MaxTime <= Lag

VARIABLES
  rows, work, beats, now, up, enqueues, restarts, owed,
  call,        \* the method a loop has begun and not ended: its arguments and what it read
  spawned,     \* the loops run: the start-up scan is over
  crossing     \* history: a call has written what it had read before a request changed it

contract == <<rows, work, beats, now, up, enqueues, restarts, owed>>
vars == <<contract, call, spawned, crossing>>

Contract == INSTANCE JobQueue

Loops == Workers \cup Enqueuers

(* What a method keeps between its statements: its arguments, the time it  *)
(* read from the clock, and the row its SELECT returned; crossed is        *)
(* history, a request has changed the row since.                           *)
Calls ==
  [job      : Jobs,
   priority : Priorities \cup {NULL},
   flags    : SUBSET Flags,
   at       : Nat,
   seen     : Row \cup {NULL},
   crossed  : BOOLEAN]

ASSUME CallAssumption == NULL \notin Calls

TypeOK ==
  /\ Contract!TypeOK
  /\ spawned \in BOOLEAN /\ crossing \in BOOLEAN
  /\ call \in [Loops -> Calls \cup {NULL}]
  /\ \A l \in Loops : call[l] # NULL => call[l].at <= now

Init == Contract!Init /\ call = [l \in Loops |-> NULL] /\ spawned = FALSE /\ crossing = FALSE

(* passed the end of the lease for the time *)
SlipCall(j, p, fl) ==
  [job |-> j, priority |-> p, flags |-> fl, at |-> now + LeaseTTL, seen |-> rows[j], crossed |-> FALSE]

Call(j, p, fl) ==
  [job |-> j, priority |-> p, flags |-> fl, at |-> now, seen |-> rows[j], crossed |-> FALSE]

Idle(l) == spawned /\ up /\ call[l] = NULL
Begin(l, c) == call' = [call EXCEPT ![l] = c]
End(l) == call' = [call EXCEPT ![l] = NULL]
Pending(l) == spawned /\ up /\ call[l] # NULL

-----------------------------------------------------------------------------
(* Before the loops are spawned nothing else touches the database. *)
StartupEnqueue(j, p) ==
  /\ ~spawned
  /\ Contract!Enqueue(j, p, now, {})
  /\ UNCHANGED <<call, spawned, crossing>>

Spawn == up /\ ~spawned /\ spawned' = TRUE /\ UNCHANGED <<contract, call, crossing>>

(* enqueue_path: SELECT *)
EnqueueSelect(e, j, p, fl) ==
  /\ Idle(e)
  /\ enqueues + Cardinality({l \in Enqueuers : call[l] # NULL}) < MaxEnqueues
  /\ Begin(e, Call(j, p, fl))
  /\ UNCHANGED <<contract, spawned, crossing>>

(* the schedule is not among the columns that are set *)
SlipOverwritten(row, c) ==
  [Contract!Enqueued(c.seen, c.priority, c.at, c.flags) EXCEPT
     !.owner = row.owner, !.lease = row.lease, !.nextAt = row.nextAt]

(* The columns that the UPDATE sets are computed from the row that was     *)
(* read; owner and lease are not among them.                               *)
Overwritten(row, c) ==
  [Contract!Enqueued(c.seen, c.priority, c.at, c.flags) EXCEPT !.owner = row.owner, !.lease = row.lease]

(* The row has changed in a column that what is written is computed from. *)
Columns(row) == <<row.state, row.attempts, row.nextAt, row.dirty, row.flags>>
Changed(c) == Columns(rows[c.job]) # Columns(c.seen)

On(l, j) == call[l] # NULL /\ call[l].job = j

(* A request takes effect: whoever is between two statements on the row    *)
(* has crossed it.                                                         *)
EndCrossing(l) ==
  call' = [k \in Loops |->
    IF k = l THEN NULL
    ELSE IF On(k, call[l].job) THEN [call[k] EXCEPT !.crossed = TRUE] ELSE call[k]]

(* enqueue_path: INSERT, which fails when the row has appeared meanwhile,  *)
(* or UPDATE.                                                              *)
EnqueueWrite(e) ==
  /\ Pending(e)
  /\ LET c == call[e] IN
       \/ /\ c.seen = NULL /\ rows[c.job] # NULL
          /\ UNCHANGED <<rows, owed, enqueues>>
       \/ /\ c.seen = NULL /\ rows[c.job] = NULL
          /\ rows' = [rows EXCEPT ![c.job] = Contract!Fresh(c.priority, c.at, c.flags)]
          /\ owed' = owed \cup {c.job}
          /\ enqueues' = enqueues + 1
       \/ /\ c.seen # NULL
          /\ rows' = [rows EXCEPT ![c.job] = Overwritten(@, c)]
          /\ owed' = owed \cup {c.job}
          /\ enqueues' = enqueues + 1
  /\ EndCrossing(e)
  /\ crossing' = (crossing \/ (call[e].seen # NULL /\ Changed(call[e])))
  /\ UNCHANGED <<work, beats, now, up, restarts, spawned>>

-----------------------------------------------------------------------------
(* ORDER BY priority, next_attempt_at (created_at, the last tie-break, is  *)
(* left open)                                                              *)
Before(i, j) ==
  \/ rows[i].priority < rows[j].priority
  \/ rows[i].priority = rows[j].priority /\ rows[i].nextAt < rows[j].nextAt

(* The rows the lease query can return for time t. *)
Pick(t) ==
  {j \in Jobs : /\ Contract!ReadyAt(j, t)
                /\ \A i \in Jobs : Contract!ReadyAt(i, t) => ~Before(i, j)}

(* lease_next_ready_job: SELECT *)
LeaseSelect(w) ==
  /\ Idle(w)
  /\ work[w] = NULL
  /\ \E j \in Pick(now) : Begin(w, Call(j, NULL, {}))
  /\ UNCHANGED <<contract, spawned, crossing>>

(* The attempt count is the one that was read, plus one. *)
TakeLease(w, j, seen, t) ==
  /\ rows' = [rows EXCEPT ![j] = [Contract!Leased(@, w, t) EXCEPT !.attempts = seen.attempts + 1]]
  /\ work' = [work EXCEPT ![w] = [job |-> j, attempt |-> seen.attempts + 1,
                                          flags |-> seen.flags, since |-> now]]
  /\ owed' = owed \ {j}

(* the state is checked, the schedule is not *)
SlipStillReady(c) == Contract!InState(c.job, "pending")

(* The condition in the UPDATE's WHERE clause *)
StillReady(c) == Contract!ReadyAt(c.job, c.at)

(* lease_next_ready_job: UPDATE ... WHERE the row is still ready.  When it *)
(* is not, the transaction the UPDATE has opened keeps the write lock, so  *)
(* the loop's next SELECT and UPDATE are one step.                         *)
LeaseUpdate(w) ==
  /\ Pending(w)
  /\ work[w] = NULL
  /\ LET c == call[w] IN
       \/ StillReady(c) /\ TakeLease(w, c.job, c.seen, c.at)
       \/ /\ ~StillReady(c)
          /\ \E j \in Pick(c.at) : TakeLease(w, j, rows[j], c.at)
       \/ /\ ~StillReady(c)
          /\ Pick(c.at) = {}
          /\ UNCHANGED <<rows, work, owed>>
  /\ End(w)
  /\ crossing' = (crossing \/ (call[w].crossed /\ StillReady(call[w])))
  /\ UNCHANGED <<beats, now, up, enqueues, restarts, spawned>>

-----------------------------------------------------------------------------
(* complete_job: SELECT dirty, attempt_count *)
CompleteSelect(w) ==
  /\ Idle(w)
  /\ work[w] # NULL
  /\ Begin(w, Call(work[w].job, NULL, {}))
  /\ UNCHANGED <<contract, spawned, crossing>>

(* complete_job: UPDATE, from the two columns that were read *)
CompleteUpdate(w) ==
  /\ Pending(w)
  /\ work[w] # NULL
  /\ LET c == call[w]
         done == Contract!Completed([rows[c.job] EXCEPT !.dirty = c.seen.dirty,
                                                        !.attempts = c.seen.attempts], c.at)
     IN  /\ Contract!Finish(w, done)
         /\ IF c.seen.dirty THEN EndCrossing(w) ELSE End(w)
  /\ crossing' = (crossing \/ call[w].crossed)
  /\ UNCHANGED spawned

(* The methods of one statement *)
OneStatement(w) ==
  /\ Idle(w)
  /\ \/ \E max \in Contract!Windows : Contract!Retry(w, max)
     \/ Contract!Defer(w) \/ Contract!Fail(w) \/ Contract!Abandon(w)
  /\ UNCHANGED <<call, spawned, crossing>>

-----------------------------------------------------------------------------
Heartbeat ==
  /\ spawned
  /\ \/ \E w \in Workers : Contract!HeartbeatStart(w)
     \/ \E b \in beats : Contract!HeartbeatWrite(b)
  /\ UNCHANGED <<call, spawned, crossing>>

Stop ==
  /\ Contract!Stop
  /\ call' = [l \in Loops |-> NULL]
  /\ spawned' = FALSE
  /\ UNCHANGED crossing

Start == (Contract!Start \/ Contract!StartScanOnce) /\ UNCHANGED <<call, spawned, crossing>>

Tick == Contract!Tick /\ UNCHANGED <<call, spawned, crossing>>

Next ==
  \/ \E j \in Jobs, p \in Priorities : StartupEnqueue(j, p)
  \/ \E e \in Enqueuers, j \in Jobs, p \in Priorities, fl \in Requests : EnqueueSelect(e, j, p, fl)
  \/ \E e \in Enqueuers : EnqueueWrite(e)
  \/ \E w \in Workers :
       LeaseSelect(w) \/ LeaseUpdate(w) \/ CompleteSelect(w) \/ CompleteUpdate(w) \/ OneStatement(w)
  \/ Heartbeat \/ Spawn \/ Stop \/ Start \/ Tick

Spec == Init /\ [][Next]_vars

-----------------------------------------------------------------------------
(* Workers, heartbeats, restarts and producers share the queue as its      *)
(* contract says up to the first call that crosses a request: a producer's *)
(* write, or the completion that turns a dirty job into a new one.  Then   *)
(* what it has read is written back.  Otherwise the conditional UPDATE of  *)
(* the lease serialises workers, and an attempt count read before another  *)
(* worker's whole attempt is never written, because a retry is scheduled   *)
(* after the time the lease query was made for.                            *)
ImplementsContract == Contract!Init /\ [][crossing' \/ Contract!Next]_contract

(* Whatever interleaves, a pending row is scheduled: the lease query finds *)
(* it sooner or later.                                                     *)
PendingIsScheduled ==
  \A j \in Jobs : Contract!InState(j, "pending") => rows[j].nextAt # NULL

(* Two workers never work on the same job                                  *)
(* (tests/integration/test_repository.py,                                  *)
(* test_repository_does_not_double_lease_same_job).                        *)
ExclusiveLease == Contract!ExclusiveLease

=============================================================================
