# Versarr: TLA+ specifications

Versarr is a daemon that puts `.lrc` lyrics files next to the tracks of a music
library. It watches the library, keeps a queue of jobs in SQLite, looks lyrics
up at LRCLIB, and writes sidecar files, while its users edit the same
directory. The modules here specify its core, are model-checked by TLC on small
instances, and carry proofs that TLAPS checks.

## The system

All of the daemon is one asyncio process. Its loops (two workers by default, a
stability loop, a control loop, a reconciliation loop, a metrics loop) run
under a supervisor that repeats a step that has raised. Every call on the
repository and every file operation runs in a thread
(`asyncio.to_thread`), so that *every `await` is a point where the others go on*
and *every SQL statement may be separated from the next one of its method by
statements of other connections*: a `SELECT` opens no write transaction in
this set-up, only the first `UPDATE` or `INSERT` does.

| component | state | operations | interacts with |
| --- | --- | --- | --- |
| job policy (`job_policy.py`) | none | `decide` | called by the worker |
| job queue (`repository.py`, table `jobs`) | state, priority, schedule, lease, attempt count, dirty, flags | enqueue, lease, heartbeat, complete, retry, defer, fail, recover | stability, reconciliation and control loops enqueue, workers lease and finish, start-up recovers |
| enrichment worker (`JobProcessor`) | the attempt under way, its heartbeat task | `process_next`, `_process_job` | queue, policy, provider, sidecar files, provenance, cooldowns |
| sidecar writer | files | atomic replace, hash | users edit the same files |
| circuit breaker (`ResilientProvider`) | failures, trips, end of window, probe flag | `fetch` by every worker | worker, provider; a throttled job is deferred |
| request pacer | next slot, lock | `wait` | provider client |
| LRCLIB client | none | get, search as a fallback, judging of answers | pacer, circuit |
| watcher, stability detector | observed paths, stamps, probes, remembered texts | `observe`, `poll_ready_paths`, `remember_sidecar_hash` | file system events in, queue out, worker remembers what it writes |
| reconciliation (`ReconciliationService`) | snapshots, tombstones | `scan_root`: at start, periodic, full | files, snapshots that workers record, queue |
| control requests | table `control_requests` | insert (command line), poll, claim, complete, fail | control loop, queue, full scans |
| runtime lifecycle (`bootstrap.py`) | tasks, instance lock | start, stop, scan-once | all of the above |
| instance lock | the lock file | acquire, release | daemon, one-off scans |
| supervisor | failure counts, tasks | run, back off, stop, `healthy` | all loops, `/health`, `/ready` |
| settings | none | validation | retry delays, root matching |
| gap report | none, reads snapshots and jobs | `list_directory_gap_summaries` | command line |
| metadata reader, normalization, hashing, migrations, metrics, command line | | | |

What is hard about it, and what makes each part correct:

- **Queue**: two statements of one method with those of other methods between
  them; heartbeats that land late; finishing calls that fail; crashes in any
  of it. Correct when no job is worked on twice at once, no request for it is
  forgotten, no row is stuck, and attempts are bounded.
- **Worker against user**: what was read before the lookup is old when the
  file is written, and a crash can separate a file from its record. Correct
  when the user's text is replaced only with the consent it takes, a sidecar
  the user removed stays away, and the daemon knows its own files.
- **Circuit and pacer**: answers arrive out of order with the openings and
  closings of the circuit, and callers are cancelled while they hold the
  pacer's lock. Correct when somebody can always come to probe, windows are as
  long as promised, requests are spaced, and every lookup ends.
- **Discovery**: events during the stat of a file, and events of the daemon's
  own texts, which come before or after it remembers them. Correct when files
  are quiet when they are handed over, none is forgotten, and no edit of a user
  passes for the daemon's text.
- **Reconciliation**: a scan works on a listing, records and facts that age
  while it runs. Correct when it misses no file that lies still, when stored
  state, report and library converge, and when passes come to rest.
- **Control**: claim first, execute then. Correct when each request is
  executed at most once, in order, and in the end.
- **Runtime**: loops that fail, die or lose their cancellation, against start,
  stop, crash and other users of the lock. Correct when no loop runs without
  the lock, `/ready` tells the truth, and a stop comes to its end.

The full list of hazards, each at its line, with the properties about it, is in
`PROJECT.json`.

## Modules

```
JobPolicy --------> Enrichment <------ JobQueue <------ Settings (delays)
                     policy, queue        ^
                                          | contract
                                      JobQueueSql (two-statement methods)

Circuit <---------- Provider --------> Lrclib
         implements            judges
Control <---------- Runtime           Discovery      Reconciliation
         control loop
```

The proofs of a module are in `<module>_proof`. Those of JobPolicy, Circuit and
Settings are in the proof modules of the components that use them: Enrichment,
Provider and JobQueue. `JobQueueConstants`, `ControlConstants` and
`CircuitConstants` hold the parameters, and what is assumed of them, that a
module shares with the one that uses it.

`MC*` modules give constants their values for TLC. Definitions called `Slip...`
are mistakes that could be made in the definition that follows them: replacing
the one by the other must break a property, and `PROJECT.json` pairs each
property with such a mistake. Variables marked *history* exist for the
properties only.

**JobPolicy** is `decide()` as a function of records of facts, rung by rung.

**JobQueue** is the contract of the table `jobs`: one action per repository
method, taken as indivisible, with the worker's protocol around it (`Lease`,
`Complete`, `Retry`, `Defer`, `Fail`, and `Abandon` when the finishing calls
are refused). A heartbeat is two actions, so that its write can land after the
end of its attempt. `Stop` drops what is in memory; `Start` recovers rows whose
lease has expired, `StartScanOnce` does not. `Tick` moves a bounded clock;
callers read it before they call, up to `Lag` earlier.

**JobQueueSql** splits `enqueue_path`, `lease_next_ready_job` and `complete_job`
at their statements. It uses JobQueue twice: as the library of row
transformations, and as the contract it is compared with. `crossing` marks the
first step that writes back what a request has changed since it was read.

**Enrichment** extends the queue with `_process_job`, an action per `await`:
`Snapshot`, `ReadHash`, `DecideWhat`, `Fetch`, `Write`, `Record`, `Finish`, with
an `Error` at each, over sidecar files, provenance, cooldowns and divergence
marks. Users write and delete sidecars at any time. Texts are model values, and
the hash of a text is the text.

**Circuit** is `ResilientProvider` with any number of callers under way. Time
is what is left of the window. `Success`, `Failure(c, retryAfter)` and `Raised`
are the three ways a call ends.

**Lrclib** is what the client makes of a response, as functions: `GetResult`
and `SearchResult` over `HttpFailure`, `RetryAfter`, `Score` and `Best`.

**Provider** is a lookup from `fetch` to its result: it is let out by the
breaker (`LetOut`), waits in the pacer's queue (`Sleep`, `Send`), is answered
(`GetAnswered`, `SearchAnswered`, `Unanswered`), or queues again for the search
(`FallBack`); `Raised` is an exception or a cancellation wherever it waits. What
an answer means is Lrclib's, what it does to the breaker Circuit's, and Provider
implements Circuit with the refinement mapping `CallOf`.

**Discovery** is the event handler, the detector and the hand-over. A poll
uses the clock as of its beginning, and is split at its awaits: `Probe` starts
the stat, `Stat` is the thread, `Gone`, `Changed` and `Same` are what the loop
does next. Times are ages, cut off where comparisons no longer tell them apart.
The handler of a sidecar's event is split likewise: `Notice`, `ReadHash` (the
thread), `Ignore` or `Differs`, against `WriteSidecar` and `Remember` of the
workers and `EditSidecar` of users. A sidecar has a text of the daemon's, one of
the user's, or one of the user's that is not UTF-8: hashing the last raises an
error that the handler does not catch (`HandlerDies`).

**Reconciliation** is `scan_root` split at `List`, `ReadRecords`, `ReadFacts`,
`QueueOne` and `EndScan`, for the incremental loop and full scans at once,
against attempts that record snapshots and users who change files, sidecars and
the mount. Size and mtime are a stamp. The queue is a coarse copy of
JobQueue's: what that module shows of it is not repeated. `Report` is the gap
report, a function of snapshots and jobs.

**Control** is the table of requests and `drain_once`, split at `Poll`, `Claim`,
`Execute` (one file), `Complete` and `Fail`.

**Runtime** is the life of the process: `start` (`Launch`, `AcquireLock`,
`Spawn`), `stop` (`BeginStop`, `Cancel`, `TasksEnded`, `Release`), its failures
(`LockRefused`, `StartFails`, `StopRaises`, `Crash`), and each loop under the
supervisor (`Worked`, `StepEnds`, `StepRaises`, `Retries`, `CancelLands`,
`CancelIsLost`). The control loop's work is Control's, step by step. Of the
other loops any number can be given by `Workers`; what their steps do is in the
other modules. `Healthy` and `Ready` are what `/health` and `/ready` answer.

**Settings** is the validators of retry windows, leases and roots, and what is
computed from them: `RetryDelays`, which JobQueue takes as a constant, and
`MatchRoot`.

## What is checked

Runs that pass:

| run | shows |
| --- | --- |
| `queue_workers` | leases are exclusive, no row is stuck, requests stay on record, attempts are bounded, only the holder changes a row under work; a pending job is leased in the end |
| `sql` | with racing producers, the two-statement methods implement JobQueue up to the first crossing (`ImplementsContract`), and beyond it a pending row still has a schedule |
| `enrichment` | consent for every replaced text, respected deletions, known own files, for two tracks with one sidecar path |
| `provider` | requests are spaced and lookups end; open means failing, windows are bounded; a probe always comes to go out; all of it implements Circuit |
| `discovery` | files handed over were quiet and seen unchanged; changes are tracked, and queued once they stop; no edit of a sidecar passes for the daemon's own text (of an edit that is not UTF-8, see `bootstrap.py:327` below) |
| `reconciliation` | files that lie still are not missed; stored state and gap report converge to the library and passes come to rest; all provided that restarts find expired leases (`queue_quick_restart` shows the other case) and that a job's finishing call or the one after it succeeds (`Abandon` of JobQueue is the other case) |
| `runtime` | no loop runs without the lock, ready means working, stops end, health returns; control requests are executed at most once, in the order in which their rows appear, completed only in full, and taken up in the end |

`queue_workers` also evaluates `Settings` (the delays of a validated window are
what JobQueue assumes; a file matches roots of one directory only), and
`provider` a search with several candidates.

Runs that show a disagreement between the code and what the repository says of
it; each has an entry under `findings` in `PROJECT.json` with the quotation:

| run | what happens |
| --- | --- |
| `queue_quick_restart` | a restart before the lease has expired leaves the interrupted job in processing: recovery ran once, too early |
| `sql_double_lease` | a producer writes back the `pending` it read before a lease; two workers share the job |
| `enrichment_late_edit` | a sidecar made during the lookup is replaced |
| `control_forgotten` | a request claimed when the daemon ends stays claimed |
| `supervisor_gives_up` | after 1025 failures in a row, about 17 hours, the delay overflows a float and the loop ends for good |

None of these repairs itself without another restart, a new request for the
same file, or at all.

The models also behave in the following ways, which differ from what a document
or a comment says, or which a maintainer would want to know of. They have no
run of their own. The properties above are stated so that they hold beside
them.

| line | what happens |
| --- | --- |
| `repository.py:268-283` | a request made during an attempt that fails for good stays marked dirty in a failed row, and is not answered (`RequestIsOnRecord` has that case) |
| `repository.py:114` | as in `sql_double_lease`, over a row that has been released: it is `processing` again without a lease, and neither leased nor recovered |
| `repository.py:200-207` | a request between the two statements of `complete_job` is overwritten |
| `repository.py:158` | a lease whose SELECT came before the completion that made a dirty job a new one writes the old attempt count over the new one's |
| `repository.py:107-109` | the flags of a forced rescan are never cleared, so that a later plain request of the track may replace an edit (`UserTextIsSafe` goes by the flags of the row) |
| `repository.py:113` | a re-enqueue resets the attempt count on which the repair of provenance after a torn write depends; the file then passes for the user's |
| `resilient_provider.py:115` | a late success closes the circuit within its window |
| `resilient_provider.py:126` | a late failure shortens a window set by a `Retry-After` |
| `stability.py:50` | a file that comes back while its failing stat is awaited is forgotten (`unanswered` in Discovery gives it up) |
| `bootstrap.py:277` | files ready in one poll are lost when the enqueue of one fails (given up likewise) |
| `bootstrap.py:327` | while a text of the daemon's is remembered for a sidecar, an edit of it that is not UTF-8 ends the handler of its event: `sidecar.py:66` raises `UnicodeDecodeError`, which is no `OSError`, and nobody looks at the handler's outcome (`watcher.py:40`). The edit is not noticed, nor is any later event of that text; incremental passes only compare whether a sidecar is there, so that the file is evaluated again when it or the sidecar changes once more, or by a full scan (`HandlerDies` in Discovery gives the edit up) |
| `repository.py:466` | polls go by `requested_at`, which is set before the row is inserted: a younger request whose row is committed sooner can be taken up before an older one (Control numbers the rows in the order of that time) |
| `stability.py:56` | the first of the two probes need not have been quiet |
| `scanner.py:23` | a sidecar's event counts for one of several tracks of the same name, whichever extension comes first |
| `lrclib.py:109` | a 404 of the search is read for its body, and counts as a transient failure when that is no list |
| `lrclib.py:144` | a refusal such as 403 closes the circuit, as any answer does |
| `resilient_provider.py:114` | an answer to a request sent before the circuit opened clears the probe's flag, so that two probes can be under way |
| `settings.py:143` | two names of one directory pass as two roots: its files have two jobs and two provenance rows each |
| `sidecar.py:33` | a text is normalized a second time when it is written; the repair of provenance compares it with one normalized once |
| `supervision.py:53` | awaiting a loop that has died raises in `stop`: provider and lock are left to the end of the process |
| `services.py:516` | a worker can lose its cancellation while it awaits its heartbeat; it ends when its step does |
| `services.py:158` | a file evaluated between listing and end of a scan is marked deleted, until the next pass (`Converges`) |
| `services.py:200` | a pending job whose file has no snapshot is queued again by every pass, its attempts reset |

### Bounds

Each bound is a constant, named with its meaning where it is declared.

- *Two jobs, two workers, one or two producers.* Methods touch one row and the
  lease query compares rows pairwise; every race found is between two parties.
- *Attempts 2 and 1*: a first and a last attempt of the longer window, and a
  window that is exhausted at once. *Time 2 to 3* with lease and delays of 1:
  before, at and after an expiry, with one re-lease. *Restarts 1*, *beats 1*,
  *enqueues 1 to 3*: each may happen around everything else; the proofs lift
  the bounds for the safety of the queue.
- *Enrichment*: two texts, two edits, plain and overwriting requests (the
  consent to replace manual edits is proved of `decide` for all flags), and one
  sidecar path for both tracks, so that each finds the other's writes: an own
  file, an edit of it, the text put back or removed.
- *Provider*: three callers (a probe and two stragglers), a threshold above
  one, two trips, windows up to the cap, an interval of two ticks and every
  class of response.
- *Discovery*: two files and two changes suffice for a change before, during
  and after a probe; a poll may last a tick, as long as `Quiet` and `Gap`. One
  sidecar with two writes or edits: the daemon's and the user's in either order,
  so also an edit, UTF-8 or not, before or after the daemon remembers its text.
- *Reconciliation*: one file, a pass and a full scan, three acts of users, one
  fault. Paths do not interact in `scan_root`, except by order.
- *Runtime*: a worker and the control loop, two requests with a poll limited to
  one, three failures with a threshold and an overflow at two and three, and two
  stops, crashes or other holders of the lock.

`CHECK_DEADLOCK FALSE` is set where the clock and the counters run out, which
only the bounds make happen.

### Fairness

The runs with liveness properties use weak fairness of the daemon's own steps, never of users,
crashes, errors or optional steps:

- workers, stability and control loops poll for ever under the supervisor
  (`supervision.py:57-75`), and the reconciliation loop begins pass after pass;
- attempts and scans go on: provider calls have timeouts, thread calls return;
- a stopped daemon starts again (`restart: unless-stopped` in
  `docs/deployment.md`), finitely often in a run;
- clocks tick; in Discovery the event loop runs the coroutines scheduled on it;
- in Provider, deferred jobs come back and requests have a timeout;
- in Runtime, whoever else holds the lock lets go of it.

In the queue a job is not deferred for ever within the bound on time; on a
provider that never answers it would be, as intended.

## What is proved

`JobQueue_proof`, for every number of jobs, workers, attempts, delays, lease
times, restarts and heartbeats:

- `QueueInvariant`: `QueueInv` is inductive. `ExclusiveLease` is not by itself:
  it follows from `HeldIsProcessing` (a row names one owner), which survives
  recovery only because nothing is held while the daemon is down
  (`HeldIsProcessing` includes `up`), and late heartbeats only because they
  never create a row (`BeatsHaveRows`). `BoundedAttempts` needs
  `SpareWhileDown`: a crash leaves room for the attempt that recovery gives
  back.
- From it: `TypeCorrect`, `LeasesAreExclusive`, `HeldJobsAreProcessing`,
  `RowsStayReachable`, `RequestsStayOnRecord`, `AttemptsAreBounded`, and the
  action property `OnlyTheHolderFinishes`.

`JobQueueSql_proof`, for any workers, producers, jobs, requests and times:

- `SqlInvariant`: `SqlInv` is inductive. It joins `Base` (the types;
  `CallsFit`: what a call is about is still there; `PendingIsScheduled`), which
  holds whatever crosses, and, as long as nothing has crossed, `HeldIsProcessing`
  of the contract and `ReadsHold`: the row that a lease query has found is as it
  was read, or no longer leasable for the time of the query, and the row that is
  about to be completed is as it was read, unless the call is marked `crossed`.
- `MethodsKeepTheContract`: up to the first crossing every statement is a whole
  method of JobQueue (the last of its method) or changes nothing of it (the
  first). `WorkersExclude` follows: the conditional UPDATE of a lease is
  enough between workers. By `StatementsKeepTheQueue` rows stay reachable,
  requests on record and attempts bounded up to there, because `QueueInv` is
  carried through the contract. `TypeCorrect` and `PendingStaysScheduled` need no such
  restriction.
- The proof is in two halves for that reason: `StepBase` for every step,
  `StepFollows` for the steps that are clear of crossings. It assumes
  `MaxTime <= Lag` (in the contract a call may have read the clock at any
  earlier time: nothing bounds a thread between two statements) and
  `{} \in Requests` (the startup scan asks without flags).
- A producer beside the workers is not the only thing that crosses. A job that
  the startup scan marked dirty and that is recovered and completed as dirty
  becomes a new job under the SELECT of another worker's lease call, with no
  producer at all: the completion counts as a crossing too.

`Enrichment_proof`, for any tracks, sidecars, texts, workers, edits and crashes:

- `KeepsTheQueue`: the worker is one of the clients that JobQueue allows, so that
  its invariant holds here, in particular `Exclusive` (one holder of a job, none
  while the daemon is down).
- `EnrichmentInvariant`: with `Exclusive`, `EnrichmentInv` is inductive. Its parts
  are the types, `AttemptsAreSound` (the provenance an attempt has read is that
  of the table, marks apart, because only the holder of a job records it; and
  an attempt that is past its decision has the consent for what it saw), and
  `OwnSidecarIsKept`, which is stronger than the property: the provenance that
  knows a text must not be about to be overwritten by another attempt.
- From it: `UserTextStays`, `AbsenceStays`, `OwnSidecarsAreKnown`, `TypeCorrect`.

Of JobPolicy it has, for every combination of facts and every attempt number:
`DecideDecides` (one decision, at most one mark), `WritesHaveConsent`,
`EditsAreMarked` (an edit of an own sidecar is marked by every decision about
it, and nothing else is) and `LookupsStay` (more consent, a later attempt or the
end of a cooldown never take a lookup back). The rungs act on each other: that
no cooldown hides an edit, for one, holds because the flags that pass the one
rung pass the other. `enrichment` runs the function between its steps.

`Reconciliation_proof`, for any files, callers, changes and faults:
`ReconciliationInv` is inductive, and gives `TypeCorrect` and `NoFileIsMissed`.
A scan decides by a record that may have been replaced since; that it misses
nothing rests on `AttemptsKnow` (no attempt under way can replace a snapshot of
the file as it is by an older one, as stamps are not used twice and a file has
one attempt at a time) and on `ScansKnow` (so what the scan has read of an
undisturbed file is no newer than what is on record).

`Provider_proof`: `ImplementsBreaker`, for any callers, interval and responses:
under `CallOf` every step of a lookup is one of Circuit or a stutter, because a
lookup that goes on keeps its role (`SameCall`) and every failure carries a
`Retry-After` the breaker reckons with (`FailuresHaveRetryAfter`). So Circuit's
theorems hold of lookups (`ProbesAreUnderWay`, `OpenMeansFailures`,
`WindowsAreBounded`). They rest on `CircuitInvariant`, of Circuit alone: the
flag, the failures and the window agree. Besides the constants' types it is
assumed that powers of two are naturals (`PowersAreNaturals`), a fact about
arithmetic whose proof is by induction over data.
`RequestsAreSpaced` rests on `SlotInv`: the wait for the slot and the time since
the last request make up the interval. `GetMatchesTheSong` and
`SearchMatchesTheSong`: a match has title and artist of the track, since no
other sum of scores reaches the threshold. That a best candidate exists in any
set of them is proved of the ranks of scores, of which there are finitely many.
`TypeCorrect` needs that the pacer's queue holds nobody twice (`QueueOK`); a
caller that gives up leaves it by the place it has (`RemoveAt`).

`Control_proof`: `ControlInv` is inductive for any number of requests, errors
and restarts. `AtMostOnce` and `CompletedIsDone` rest on what a drain knows of
the request it executes, `OldestFirst` on the order of the queue a poll has
taken: nothing pending is older than what is in it.

`Discovery_proof`: `DiscoveryInv` joins the types, `PollIsTracked` (a file in a
poll that is not yet looked at is in the detector, or has been found gone) and
`AwaitedWasQuiet` (a file whose stat is awaited was quiet when the poll began,
and only an event since can have taken that back), with `ChangeIsTracked` and
`EditIsNoticed`. From it: `TypeCorrect`, `ChangesStayTracked`,
`ReadyFilesWereQuiet`, `EditsAreNoticed`. The last says of an edit that is not
observed that an event or a handler of it is left, or that a handler has died of
its text (`HandlerDiesInv`), which only a text that is not UTF-8 can bring about.

`Runtime_proof`: `LifeInv` says which phase goes with which lock, flags and
loops, and `StepInv` which counts and which drain with a loop. From them:
`LoopsWorkUnderLock`, `ReadyIsTrue` and `TypeCorrect`, for any number of workers,
failures and stops. To the control requests, all that happens outside the
control loop is that a drain ends (`StepOfDrain`), so that `ControlInv` holds
throughout the life of the daemon, with `RequestsAreExecutedOnce`,
`CompletedRequestsAreDone` and `OldestRequestsFirst`.

Two instances of one module are different to the prover: the lemmas called
`Same...` only say that their definitions agree.

Of Settings, `JobQueue_proof` has `RetriesLieAhead`, with the hypothesis that
powers of two are positive naturals, and `MatchIsUnique`.

Every invariant and every action property that a run checks is the property of
a theorem. Only model-checked are the liveness properties, as fairness and
`ENABLED` are beyond the prover, and the liveness part of `ImplementsCircuit`
(its safety part is `ImplementsBreaker`).

`JobQueue_proof` is about methods as indivisible steps, and `JobQueueSql_proof`
carries it to the statements up to a crossing. What can happen beyond one is
what `sql_double_lease` shows.

## Not modelled

- In the handler of events: errors of `exists()`, of the sidecar or of the media
  file it is matched with. They end the handler as `HandlerDies` does.
- Thread calls under way when the daemon stops, that land after the lock has
  been let go.
- Sleeps that end early, by the resolution of a clock: the pacer's interval
  holds up to that.
- Tag parsing, text normalization and hashing: functions of texts, which the
  models tell apart by their hash.
- Metrics, logging, `scan_state`, the texts the command line prints: they only
  report. In the gap report, failed jobs, cooldowns and marks, which are counted
  the way pending jobs are.
- Migrations and connections, apart from how statements interleave: steps
  before anything else runs.
- Validators of single numbers and of patterns in the settings.

## Plan

The order was: the queue's contract and its proof, its statements, the policy
and the worker against the user, the circuit, then the three sources of jobs;
after that the lookup as a whole, the runtime around the loops, the suppression
of own events, the report, the settings, and the proofs of each. Next:

1. Discovery, Control and Reconciliation composed with JobQueue instead of its
   coarse copies: an abstract *every change is evaluated* that all three
   sources implement together. What is listed above as given up in Discovery is
   then picked up by Reconciliation, and the composition can promise it.
2. JobQueueSql against a weaker contract that says what still holds beyond a
   crossing, and thread calls that outlive a stop.
3. Proofs: that JobQueue implements a queue as coarse as Reconciliation's, and
   what still holds of JobQueueSql beyond a crossing.
