------------------------------ MODULE JobQueue ------------------------------
(***************************************************************************)
(* The job queue of infrastructure/persistence/repository.py as its users  *)
(* see it: every repository method is one indivisible step.  The clients   *)
(* are the producers (startup scan, stability, reconciliation and control  *)
(* loops), which enqueue; the worker loops, which lease a job, work on it  *)
(* under a heartbeat and finish it; and the runtime, which stops, crashes, *)
(* starts and recovers expired leases.                                     *)
(*                                                                         *)
(* This is the contract: JobQueueSql.tla splits the methods into their SQL *)
(* statements and is compared with it.  Definitions whose name begins with *)
(* Slip are mistakes that could be made in the definition that follows;    *)
(* model checking notices them.                                            *)
(*                                                                         *)
(* Time is a counter.  The delay before a retry is any member of Delays    *)
(* (the backoff and its jitter are abstracted, its strictly positive value *)
(* is not).  A row's flags are the set of those of its three flag columns  *)
(* that are true.                                                          *)
(*                                                                         *)
(* Any ready job may be leased: the order of the lease query is that of    *)
(* JobQueueSql.tla, but no promise, since a more urgent job can become     *)
(* ready between the query and the update that takes the lease.            *)
(***************************************************************************)
EXTENDS JobQueueConstants

VARIABLES
  rows,       \* the jobs table: NULL where no row has been inserted
  work,       \* what each worker loop is processing, NULL when idle
  beats,      \* heartbeat writes handed to a thread and not yet executed
  now,        \* the clock
  up,         \* the runtime holds the instance lock and runs its loops
  enqueues,   \* requests made so far
  restarts,   \* stops and crashes so far
  owed        \* history: jobs asked for and not leased since

vars == <<rows, work, beats, now, up, enqueues, restarts, owed>>

Beat == [job : Jobs, until : Nat]

TypeOK ==
  /\ rows \in [Jobs -> Row \cup {NULL}]
  /\ work \in [Workers -> Held \cup {NULL}]
  /\ beats \subseteq Beat
  /\ now \in Nat
  /\ up \in BOOLEAN
  /\ enqueues \in Nat
  /\ restarts \in Nat
  /\ owed \subseteq Jobs

-----------------------------------------------------------------------------
Exists(j) == rows[j] # NULL
InState(j, s) == Exists(j) /\ rows[j].state = s
HeldBy(w, j) == work[w] # NULL /\ work[w].job = j
IsHeld(j) == \E w \in Workers : HeldBy(w, j)

MaxAttempts == IF FileAttempts < ProviderAttempts THEN ProviderAttempts ELSE FileAttempts

(* The two retry windows: errors of the file system and unexpected ones,   *)
(* transient failures of the provider.                                     *)
Windows == {FileAttempts, ProviderAttempts}

(* whatever its state *)
SlipReadyAt(j, t) == Exists(j) /\ rows[j].nextAt # NULL /\ rows[j].nextAt <= t

(* The row can be leased by a call that read the clock at time t. *)
ReadyAt(j, t) == InState(j, "pending") /\ rows[j].nextAt # NULL /\ rows[j].nextAt <= t

(* The times a call that takes effect now may have read from the clock. *)
ClockReads == {t \in 0 .. now : now <= t + Lag}

-----------------------------------------------------------------------------
Init ==
  /\ rows = [j \in Jobs |-> NULL]
  /\ work = [w \in Workers |-> NULL]
  /\ beats = {}
  /\ now = 0
  /\ up = TRUE
  /\ enqueues = 0
  /\ restarts = 0
  /\ owed = {}

(* A new row, or a request for a job that nobody is working on. *)
Fresh(p, t, fl) ==
  [state |-> "pending", priority |-> p, attempts |-> 0, nextAt |-> t,
   dirty |-> FALSE, flags |-> fl, owner |-> NULL, lease |-> NULL]

(* a job being processed starts over, too *)
SlipEnqueued(row, p, t, fl) ==
  IF row = NULL THEN Fresh(p, t, fl)
  ELSE [Fresh(p, t, fl \cup row.flags) EXCEPT !.owner = row.owner, !.lease = row.lease]

(* What enqueue_path makes of the row it finds: a job being processed is   *)
(* only marked dirty, any other starts over.  Flags once asked for stay.   *)
Enqueued(row, p, t, fl) ==
  IF row = NULL THEN Fresh(p, t, fl)
  ELSE IF row.state = "processing"
    THEN [row EXCEPT !.priority = p, !.dirty = TRUE, !.flags = @ \cup fl]
  ELSE [Fresh(p, t, fl \cup row.flags) EXCEPT !.owner = row.owner, !.lease = row.lease]

Enqueue(j, p, t, fl) ==
  /\ up
  /\ enqueues < MaxEnqueues
  /\ rows' = [rows EXCEPT ![j] = Enqueued(@, p, t, fl)]
  /\ enqueues' = enqueues + 1
  /\ owed' = owed \cup {j}
  /\ UNCHANGED <<work, beats, now, up, restarts>>

Leased(row, w, t) ==
  [row EXCEPT !.state = "processing", !.attempts = @ + 1,
              !.owner = w, !.lease = t + LeaseTTL]

(* An idle worker takes a job that was ready at time t, when it read the   *)
(* clock.                                                                  *)
Lease(w, j, t) ==
  /\ up
  /\ work[w] = NULL
  /\ ReadyAt(j, t)
  /\ rows' = [rows EXCEPT ![j] = Leased(@, w, t)]
  /\ work' = [work EXCEPT ![w] = [job |-> j, attempt |-> rows[j].attempts + 1,
                                          flags |-> rows[j].flags, since |-> now]]
  /\ owed' = owed \ {j}
  /\ UNCHANGED <<beats, now, up, enqueues, restarts>>

(* The heartbeat task of the worker hands a write to a thread ...          *)
HeartbeatStart(w) ==
  /\ up
  /\ work[w] # NULL
  /\ Cardinality(beats) < MaxBeats
  /\ beats' = beats \cup {[job |-> work[w].job, until |-> now + LeaseTTL]}
  /\ UNCHANGED <<rows, work, now, up, enqueues, restarts, owed>>

(* ... which cannot be recalled: it may land after the job is finished,    *)
(* and updates the row whatever its state and owner.                       *)
HeartbeatWrite(b) ==
  /\ up
  /\ beats' = beats \ {b}
  /\ rows' = [rows EXCEPT ![b.job].lease = b.until]
  /\ UNCHANGED <<work, now, up, enqueues, restarts, owed>>

-----------------------------------------------------------------------------
(* The four ways an attempt ends.  Each releases the lease. *)
Released(row, s, t) == [row EXCEPT !.state = s, !.nextAt = t, !.owner = NULL, !.lease = NULL]

(* what was asked for during the attempt is taken as answered *)
SlipCompletedDirty(row, t) == [Released(row, "completed", NULL) EXCEPT !.dirty = FALSE]

(* the new request inherits the attempts of the old one *)
SlipCompletedCount(row, t) ==
  IF row.dirty THEN [Released(row, "pending", t) EXCEPT !.dirty = FALSE]
  ELSE Released(row, "completed", NULL)

Completed(row, t) ==
  IF row.dirty
    THEN [Released(row, "pending", t) EXCEPT !.dirty = FALSE, !.attempts = 0]
    ELSE Released(row, "completed", NULL)

(* refunded twice *)
SlipDeferredTwice(row, t) == [Released(row, "pending", t) EXCEPT !.attempts = @ - 2]

(* back to pending, but never scheduled *)
SlipDeferredUnscheduled(row, t) ==
  [Released(row, "pending", NULL) EXCEPT !.attempts = IF @ > 0 THEN @ - 1 ELSE 0]

(* The lease's attempt is refunded. *)
Deferred(row, t) ==
  [Released(row, "pending", t) EXCEPT !.attempts = IF @ > 0 THEN @ - 1 ELSE 0]

Finish(w, row) ==
  /\ up
  /\ work[w] # NULL
  /\ rows' = [rows EXCEPT ![work[w].job] = row]
  /\ work' = [work EXCEPT ![w] = NULL]
  /\ UNCHANGED <<beats, now, up, enqueues, restarts, owed>>

HeldRow(w) == rows[work[w].job]

(* written, preserved and noop outcomes *)
Complete(w, t) == Finish(w, Completed(HeldRow(w), t))

(* The times at which a worker can decide to try again: after a delay      *)
(* counted from a moment since it leased the job.                          *)
RetryTimes(w) == {t + d : t \in work[w].since .. now, d \in Delays} \cap 0 .. MaxTime

(* A transient failure, while the attempts of its window last. *)
Retry(w, max) ==
  /\ work[w] # NULL
  /\ work[w].attempt < max
  /\ \E t \in RetryTimes(w) : Finish(w, Released(HeldRow(w), "pending", t))

(* The circuit breaker is open: provider_throttled. *)
Defer(w) ==
  /\ work[w] # NULL
  /\ \E t \in RetryTimes(w) : Finish(w, Deferred(HeldRow(w), t))

(* Terminal outcomes, a missing or invalid file, exhausted retries. *)
Fail(w) == Finish(w, Released(HeldRow(w), "failed", NULL))

(* The call that should finish the job is refused, and so is the one that   *)
(* process_next makes of that error: the worker loop fails and starts over *)
(* without the job.                                                        *)
Abandon(w) ==
  /\ Faults
  /\ up
  /\ work[w] # NULL
  /\ work' = [work EXCEPT ![w] = NULL]
  /\ UNCHANGED <<rows, beats, now, up, enqueues, restarts, owed>>

-----------------------------------------------------------------------------
(* A crash, or a stop: cancelling a worker loop raises CancelledError,     *)
(* which process_next does not handle, so the row keeps its lease.         *)
Stop ==
  /\ up
  /\ restarts < MaxRestarts
  /\ up' = FALSE
  /\ work' = [w \in Workers |-> NULL]
  /\ beats' = {}
  /\ restarts' = restarts + 1
  /\ UNCHANGED <<rows, now, enqueues, owed>>

LeaseExpired(j) == InState(j, "processing") /\ rows[j].lease # NULL /\ rows[j].lease < now

(* back to pending, but never scheduled *)
SlipRecovered(row) == Released(row, "pending", NULL)

Recovered(row) == Released(row, "pending", now)

(* The daemon starts and recovers the jobs whose lease has expired. *)
Start ==
  /\ ~up
  /\ up' = TRUE
  /\ rows' = [j \in Jobs |-> IF LeaseExpired(j) THEN Recovered(rows[j]) ELSE rows[j]]
  /\ UNCHANGED <<work, beats, now, enqueues, restarts, owed>>

(* A one-off scan takes the instance lock and works without recovering. *)
StartScanOnce ==
  /\ ~up
  /\ up' = TRUE
  /\ UNCHANGED <<rows, work, beats, now, enqueues, restarts, owed>>

Tick ==
  /\ now < MaxTime
  /\ now' = now + 1
  /\ UNCHANGED <<rows, work, beats, up, enqueues, restarts, owed>>

-----------------------------------------------------------------------------
FinishSome(w) ==
  \/ \E t \in ClockReads : Complete(w, t)
  \/ \E max \in Windows : Retry(w, max)
  \/ Defer(w)
  \/ Fail(w)

LeaseSome(w) == \E j \in Jobs, t \in ClockReads : Lease(w, j, t)

Next ==
  \/ \E j \in Jobs, p \in Priorities, t \in ClockReads, fl \in Requests : Enqueue(j, p, t, fl)
  \/ \E w \in Workers : LeaseSome(w) \/ HeartbeatStart(w) \/ FinishSome(w) \/ Abandon(w)
  \/ \E b \in beats : HeartbeatWrite(b)
  \/ Stop \/ Start \/ StartScanOnce \/ Tick

Spec == Init /\ [][Next]_vars

(* The worker loops never stop polling, an attempt ends (its I/O has       *)
(* timeouts), the container restarts the daemon (restart: unless-stopped)  *)
(* and time passes.  Nothing makes anybody enqueue, stop or beat.          *)
Fairness ==
  /\ \A w \in Workers : WF_vars(LeaseSome(w)) /\ WF_vars(FinishSome(w))
  /\ WF_vars(Start)
  /\ WF_vars(Tick)

FairSpec == Spec /\ Fairness

-----------------------------------------------------------------------------
(* Two workers never work on the same job. *)
ExclusiveLease ==
  \A v, w \in Workers : v # w /\ work[v] # NULL /\ work[w] # NULL => work[v].job # work[w].job

(* While a worker works on a job, its row says so, and with what attempt.  *)
HeldIsProcessing ==
  \A w \in Workers : work[w] # NULL =>
    /\ up
    /\ InState(work[w].job, "processing")
    /\ HeldRow(w).owner = w
    /\ HeldRow(w).attempts = work[w].attempt

(* A processing row always carries a lease that time can run out, so that  *)
(* some later start recovers it; a pending one is scheduled, so that the   *)
(* lease query finds it.  A row that broke either would be stuck for good. *)
Reachable ==
  \A j \in Jobs :
    /\ InState(j, "processing") => rows[j].lease # NULL
    /\ InState(j, "pending") => rows[j].nextAt # NULL

(* A request is never forgotten silently: until an attempt has started     *)
(* after it, its job is pending, is being processed and marked dirty, or   *)
(* failed with the mark still set.                                         *)
RequestIsOnRecord ==
  \A j \in owed :
    \/ InState(j, "pending")
    \/ InState(j, "processing") /\ rows[j].dirty
    \/ InState(j, "failed") /\ rows[j].dirty

(* A job is attempted at most as often as its longer retry window allows,  *)
(* and once more for every interruption; what waits for another attempt    *)
(* has one left.                                                           *)
BoundedAttempts ==
  \A j \in Jobs : Exists(j) =>
    /\ rows[j].attempts <= MaxAttempts + restarts
    /\ InState(j, "pending") => rows[j].attempts < MaxAttempts + restarts

(* Only its worker ends an attempt that is under way: while a worker holds *)
(* a job, no step of anybody else changes the row's state or its attempts. *)
OnlyHolderFinishes ==
  [][\A w \in Workers : work[w] # NULL /\ work'[w] = work[w] =>
       /\ rows'[work[w].job].state = "processing"
       /\ rows'[work[w].job].attempts = HeldRow(w).attempts]_vars

(* A job that waits is taken up, however many restarts come between. *)
PendingIsLeased == \A j \in Jobs : InState(j, "pending") ~> ~InState(j, "pending")

(* Interrupted work is taken up again after a restart.                     *)
(* (docs/operations.md, "Startup Recovery")                                *)
InterruptedWorkResumes ==
  \A j \in Jobs :
    (InState(j, "processing") /\ ~IsHeld(j)) ~> (~InState(j, "processing") \/ IsHeld(j))

=============================================================================
