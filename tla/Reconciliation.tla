--------------------------- MODULE Reconciliation ---------------------------
(***************************************************************************)
(* Comparing a library root with the stored state: scan_root               *)
(* (application/services.py) against the files, the snapshots that         *)
(* attempts record, and the jobs (infrastructure/persistence).             *)
(*                                                                         *)
(* The reconciliation loop makes incremental passes, the control loop full *)
(* scans, both at once at times, and workers process what they queue.  A   *)
(* scan works on what it has read: a listing, then the records, then the   *)
(* facts of the files; at the end, snapshots of files that were not listed *)
(* become tombstones.                                                      *)
(*                                                                         *)
(* Size and mtime of a file are a stamp, renewed by every change; lyrics   *)
(* in tags, which nothing here changes, are left out.  The queue is        *)
(* abstracted from JobQueue: no leases, attempts or times, and completed   *)
(* and failed jobs differ only in whether revisit_after_seconds have       *)
(* passed since.                                                           *)
(*                                                                         *)
(* It is assumed that no row stays processing without an attempt: every    *)
(* restart is one that finds expired leases (JobQueue has the other case,  *)
(* which its InterruptedWorkResumes shows), and of the calls that finish a *)
(* job one succeeds (JobQueue's Abandon is the other case).                *)
(*                                                                         *)
(* Definitions whose name begins with Slip are mistakes that could be made *)
(* in the definition that follows; model checking notices them.            *)
(***************************************************************************)
EXTENDS Naturals, FiniteSets

CONSTANTS
  Paths,      \* media files below the root
  Passes,     \* callers of scan_root: incremental
  FullScans,  \* callers of scan_root: with evaluate_all
  MaxActs,    \* bound: what users do
  MaxFaults,  \* bound: errors and restarts
  NULL        \* no file, no row, nothing under way

ASSUME ReconciliationAssumption ==
  /\ MaxActs \in Nat
  /\ MaxFaults \in Nat
  /\ Passes \cap FullScans = {}

VARIABLES
  file,     \* the stamp of each file, NULL when it is not there
  side,     \* whether its sidecar is there
  mounted,  \* whether the root is
  heard,    \* files with a change that the watcher has yet to queue
  snap,     \* track_snapshots
  job,      \* jobs: state
  dirty,    \* jobs: the files whose row is dirty
  work,     \* the attempt at each file
  scan,     \* the scan of each caller
  acts, faults  \* counters for the bounds

world == <<file, side, mounted, heard, acts>>
queue == <<job, dirty, work>>
vars == <<world, snap, queue, scan, faults>>

Scans == Passes \cup FullScans
Stamps == 1 .. MaxActs
JobStates == {"none", "pending", "processing", "settled", "stale"}
Snapshot == [stamp : Stamps, side : BOOLEAN, deleted : BOOLEAN]

(* An attempt that has read the file knows its stamp, or that it is gone.  *)
Attempt ==
  [stage : {"read", "record", "decide", "missing"}, stamp : Stamps \cup {NULL}, side : BOOLEAN]

Scan ==
  [stage  : {"records", "facts", "queue"},
   listed : SUBSET Paths,
   snaps  : [Paths -> Snapshot \cup {NULL}],  \* the records read
   jobs   : [Paths -> JobStates],
   todo   : SUBSET Paths,                     \* files to queue
   still  : SUBSET Paths]                     \* history: listed, neither changed nor failed since

ASSUME NullAssumption == NULL \notin Nat \cup Snapshot \cup Attempt \cup Scan

TypeOK ==
  /\ file \in [Paths -> Stamps \cup {NULL}]
  /\ side \in [Paths -> BOOLEAN]
  /\ mounted \in BOOLEAN
  /\ heard \subseteq Paths
  /\ snap \in [Paths -> Snapshot \cup {NULL}]
  /\ job \in [Paths -> JobStates]
  /\ dirty \subseteq Paths
  /\ work \in [Paths -> Attempt \cup {NULL}]
  /\ \A p \in Paths : work[p] # NULL <=> job[p] = "processing"
  /\ scan \in [Scans -> Scan \cup {NULL}]
  /\ acts \in 0 .. MaxActs
  /\ faults \in 0 .. MaxFaults

Init ==
  /\ file = [p \in Paths |-> NULL]
  /\ side = [p \in Paths |-> FALSE]
  /\ mounted = TRUE
  /\ heard = {}
  /\ snap = [p \in Paths |-> NULL]
  /\ job = [p \in Paths |-> "none"]
  /\ dirty = {}
  /\ work = [p \in Paths |-> NULL]
  /\ scan = [s \in Scans |-> NULL]
  /\ acts = 0
  /\ faults = 0

Present(p) == mounted /\ file[p] # NULL

-----------------------------------------------------------------------------
(* Users change the library. *)
Act == acts < MaxActs /\ acts' = acts + 1

Disturb(paths) == scan' = [s \in Scans |->
  IF scan[s] = NULL THEN NULL ELSE [scan[s] EXCEPT !.still = @ \ paths]]

Change(p) ==
  /\ Act
  /\ mounted
  /\ file' = [file EXCEPT ![p] = acts + 1]
  /\ heard' = heard \cup {p}
  /\ Disturb({p})
  /\ UNCHANGED <<side, mounted, snap, queue, faults>>

Remove(p) ==
  /\ Act
  /\ Present(p)
  /\ file' = [file EXCEPT ![p] = NULL]
  /\ Disturb({p})
  /\ UNCHANGED <<side, mounted, heard, snap, queue, faults>>

EditSidecar(p) ==
  /\ Act
  /\ mounted
  /\ side' = [side EXCEPT ![p] = ~@]
  /\ Disturb({p})
  /\ UNCHANGED <<file, mounted, heard, snap, queue, faults>>

MountOrUnmount ==
  /\ Act
  /\ mounted' = ~mounted
  /\ Disturb(Paths)
  /\ UNCHANGED <<file, side, heard, snap, queue, faults>>

-----------------------------------------------------------------------------
(* enqueue_path: back to pending, or dirty while it is processed. *)

(* back to pending, whatever its state *)
SlipEnqueue(p) ==
  /\ job' = [job EXCEPT ![p] = "pending"]
  /\ dirty' = dirty \ {p}
  /\ UNCHANGED work

Enqueue(p) ==
  /\ job' = [job EXCEPT ![p] = IF @ = "processing" THEN @ ELSE "pending"]
  /\ dirty' = IF job[p] = "processing" THEN dirty \cup {p} ELSE dirty \ {p}
  /\ UNCHANGED work

(* The watcher's change, once stable, is queued (Discovery). *)
Notice(p) ==
  /\ p \in heard
  /\ heard' = heard \ {p}
  /\ Enqueue(p)
  /\ UNCHANGED <<file, side, mounted, acts, snap, scan, faults>>

(* revisit_after_seconds since the job was last updated *)
Age(p) ==
  /\ job[p] = "settled"
  /\ job' = [job EXCEPT ![p] = "stale"]
  /\ UNCHANGED <<world, snap, dirty, work, scan, faults>>

-----------------------------------------------------------------------------
(* An attempt *)
Lease(p) ==
  /\ job[p] = "pending"
  /\ job' = [job EXCEPT ![p] = "processing"]
  /\ work' = [work EXCEPT ![p] = [stage |-> "read", stamp |-> NULL, side |-> FALSE]]
  /\ UNCHANGED <<world, snap, dirty, scan, faults>>

At(p, stage) == work[p] # NULL /\ work[p].stage = stage

(* read_snapshot, which raises FileNotFoundError when the file is gone *)
Read(p) ==
  /\ At(p, "read")
  /\ work' = [work EXCEPT ![p] =
       IF Present(p) THEN [stage |-> "record", stamp |-> file[p], side |-> side[p]]
       ELSE [@ EXCEPT !.stage = "missing"]]
  /\ UNCHANGED <<world, snap, job, dirty, scan, faults>>

(* the sidecar is not noted *)
SlipRecorded(p) == [stamp |-> work[p].stamp, side |-> FALSE, deleted |-> FALSE]

Recorded(p) == [stamp |-> work[p].stamp, side |-> work[p].side, deleted |-> FALSE]

Record(p) ==
  /\ At(p, "record")
  /\ snap' = [snap EXCEPT ![p] = Recorded(p)]
  /\ work' = [work EXCEPT ![p].stage = "decide"]
  /\ UNCHANGED <<world, job, dirty, scan, faults>>

(* A file without a sidecar may get one. *)
Write(p) ==
  /\ At(p, "decide")
  /\ ~work[p].side
  /\ mounted
  /\ side' = [side EXCEPT ![p] = TRUE]
  /\ work' = [work EXCEPT ![p].side = TRUE]
  /\ UNCHANGED <<file, mounted, heard, acts, snap, job, dirty, scan, faults>>

Complete(p) ==
  /\ At(p, "decide")
  /\ job' = [job EXCEPT ![p] = IF p \in dirty THEN "pending" ELSE "settled"]
  /\ dirty' = dirty \ {p}
  /\ work' = [work EXCEPT ![p] = NULL]
  /\ UNCHANGED <<world, snap, scan, faults>>

Fail(p) ==
  /\ At(p, "missing")
  /\ job' = [job EXCEPT ![p] = "settled"]
  /\ work' = [work EXCEPT ![p] = NULL]
  /\ Disturb({p})
  /\ UNCHANGED <<world, snap, dirty, faults>>

(* Another error, at any await: the job is retried, or has failed.  That   *)
(* the call which says so is refused as well is left out (see above).      *)
Error(p) ==
  /\ faults < MaxFaults
  /\ faults' = faults + 1
  /\ work[p] # NULL
  /\ \E state \in {"pending", "settled"} : job' = [job EXCEPT ![p] = state]
  /\ work' = [work EXCEPT ![p] = NULL]
  /\ Disturb({p})
  /\ UNCHANGED <<world, snap, dirty>>

-----------------------------------------------------------------------------
(* scan_root *)

(* FilesystemScanner.scan; below a root that is not there, it finds nothing. *)
List(s) ==
  /\ scan[s] = NULL
  /\ LET listed == {p \in Paths : Present(p)}
     IN scan' = [scan EXCEPT ![s] =
          [stage  |-> IF s \in FullScans THEN "queue" ELSE "records",
           listed |-> listed,
           snaps  |-> [p \in Paths |-> NULL],
           jobs   |-> [p \in Paths |-> "none"],
           todo   |-> IF s \in FullScans THEN listed ELSE {},
           still  |-> listed]]
  /\ UNCHANGED <<snap, queue, faults>>

Pass(s) == s \in Passes /\ List(s) /\ UNCHANGED world

(* A full scan is asked for (Control). *)
FullScan(s) == s \in FullScans /\ List(s) /\ Act /\ UNCHANGED <<file, side, mounted, heard>>

Scanning(s, stage) == scan[s] # NULL /\ scan[s].stage = stage

(* list_reconciliation_records *)
ReadRecords(s) ==
  /\ Scanning(s, "records")
  /\ scan' = [scan EXCEPT ![s].stage = "facts", ![s].snaps = snap, ![s].jobs = job]
  /\ UNCHANGED <<world, snap, queue, faults>>

(* jobs already queued are left alone, changed file or not *)
SlipNeedsEvaluation(record, state, stamp, sidecar) ==
  \/ record = NULL
  \/ /\ state \notin {"pending", "processing"}
     /\ \/ record.deleted
        \/ state = "none"
        \/ record.stamp # stamp
        \/ record.side # sidecar
        \/ ~record.side /\ state = "stale"

(* _needs_evaluation, given the record and the facts of a file *)
NeedsEvaluation(record, state, stamp, sidecar) ==
  \/ record = NULL
  \/ record.deleted
  \/ state = "none"
  \/ record.stamp # stamp
  \/ record.side # sidecar
  \/ ~record.side /\ state = "stale"

(* _read_file_facts; a file that is gone by now is passed over. *)
ReadFacts(s) ==
  /\ Scanning(s, "facts")
  /\ LET Needed(p) == /\ Present(p)
                      /\ NeedsEvaluation(scan[s].snaps[p], scan[s].jobs[p], file[p], side[p])
     IN scan' = [scan EXCEPT ![s].stage = "queue",
                             ![s].todo = {p \in scan[s].listed : Needed(p)}]
  /\ UNCHANGED <<world, snap, queue, faults>>

QueueOne(s, p) ==
  /\ Scanning(s, "queue")
  /\ p \in scan[s].todo
  /\ Enqueue(p)
  /\ scan' = [scan EXCEPT ![s].todo = @ \ {p}]
  /\ UNCHANGED <<world, snap, faults>>

(* the files that are gone are not marked *)
SlipTombstoned(p, listed) ==
  IF snap[p] = NULL THEN NULL ELSE [snap[p] EXCEPT !.deleted = @ /\ p \notin listed]

(* mark_missing_snapshots_deleted *)
Tombstoned(p, listed) ==
  IF snap[p] = NULL THEN NULL ELSE [snap[p] EXCEPT !.deleted = @ \/ p \notin listed]

EndScan(s) ==
  /\ Scanning(s, "queue")
  /\ scan[s].todo = {}
  /\ snap' = IF mounted THEN [p \in Paths |-> Tombstoned(p, scan[s].listed)] ELSE snap
  /\ scan' = [scan EXCEPT ![s] = NULL]
  /\ UNCHANGED <<world, queue, faults>>

(* Any step of a scan may raise, and that ends it. *)
ScanFails(s) ==
  /\ faults < MaxFaults
  /\ faults' = faults + 1
  /\ scan[s] # NULL
  /\ scan' = [scan EXCEPT ![s] = NULL]
  /\ UNCHANGED <<world, snap, queue>>

(* The daemon ends and starts again when its leases have expired; what the *)
(* watcher had not queued is lost.                                         *)
Restart ==
  /\ faults < MaxFaults
  /\ faults' = faults + 1
  /\ job' = [p \in Paths |-> IF job[p] = "processing" THEN "pending" ELSE job[p]]
  /\ work' = [p \in Paths |-> NULL]
  /\ scan' = [s \in Scans |-> NULL]
  /\ heard' = {}
  /\ UNCHANGED <<file, side, mounted, acts, snap, dirty>>

-----------------------------------------------------------------------------
ScanStep(s) ==
  \/ ReadRecords(s) \/ ReadFacts(s) \/ EndScan(s)
  \/ \E p \in Paths : QueueOne(s, p)

AttemptStep(p) == Lease(p) \/ Read(p) \/ Record(p) \/ Complete(p) \/ Fail(p)

Next ==
  \/ \E p \in Paths : \/ Change(p) \/ Remove(p) \/ EditSidecar(p)
                      \/ Notice(p) \/ Age(p)
                      \/ AttemptStep(p) \/ Write(p) \/ Error(p)
  \/ \E s \in Scans : Pass(s) \/ FullScan(s) \/ ScanStep(s) \/ ScanFails(s)
  \/ MountOrUnmount
  \/ Restart

Spec == Init /\ [][Next]_vars

(* Passes begin again and again, scans and attempts go on to their end.    *)
Fairness ==
  /\ \A s \in Passes : WF_vars(Pass(s))
  /\ \A s \in Scans : WF_vars(ScanStep(s))
  /\ \A p \in Paths : WF_vars(AttemptStep(p))

FairSpec == Spec /\ Fairness

-----------------------------------------------------------------------------
(* The snapshot is of the file as it is, or an attempt that sees it is     *)
(* queued, or under way: it has yet to read the file, has read it as it    *)
(* is, or will be made again.                                              *)
Current(p) == snap[p] # NULL /\ snap[p].stamp = file[p]

Covered(p) ==
  \/ Current(p)
  \/ job[p] = "pending"
  \/ /\ work[p] # NULL
     /\ \/ p \in dirty
        \/ work[p].stage = "read"
        \/ work[p].stage \in {"record", "decide"} /\ work[p].stamp = file[p]

(* A file that lies there unchanged from the listing of a scan to its end, *)
(* and whose attempts do not fail, is not missed: the stored state has it  *)
(* as it is, or an attempt that sees it is queued or under way.  A row     *)
(* that stays processing without an attempt, which is assumed away above,  *)
(* would hold for ever what a scan queues.                                 *)
ScanMissesNothing ==
  [][\A s \in Scans : EndScan(s) => \A p \in scan[s].still : Covered(p)]_vars

(* The gap report (lyrics-gaps), of the directory that all Paths are in:   *)
(* it counts the snapshots that are no tombstones, and for those without   *)
(* lyrics what the queue has in store for them.                            *)

(* tombstones are counted *)
SlipTracked == {p \in Paths : snap[p] # NULL}

Tracked == {p \in Paths : snap[p] # NULL /\ ~snap[p].deleted}

Gaps == {p \in Tracked : ~snap[p].side}

Report ==
  [total      |-> Cardinality(Tracked),
   missing    |-> Cardinality(Gaps),
   pending    |-> Cardinality({p \in Gaps : job[p] = "pending"}),
   processing |-> Cardinality({p \in Gaps : job[p] = "processing"})]

(* The command line lists the directory, when asked for gaps only. *)
Listed == Report.missing > 0

InSync(p) ==
  IF file[p] = NULL THEN snap[p] = NULL \/ snap[p].deleted
  ELSE snap[p] = [stamp |-> file[p], side |-> side[p], deleted |-> FALSE]

(* When the library is left alone, the stored state comes to agree with    *)
(* it, whatever was missed, marked deleted or lost on the way: provided    *)
(* that restarts find expired leases and a finishing call succeeds, as is  *)
(* assumed above.                                                          *)
Converges == <>[](mounted => \A p \in Paths : InSync(p))

(* The report comes to count the tracks that are there, and to list the    *)
(* directory exactly when one of them has no lyrics; under the same        *)
(* assumption as Converges.                                                *)
ReportIsRight ==
  <>[](mounted =>
         /\ Report.total = Cardinality({p \in Paths : file[p] # NULL})
         /\ Listed <=> \E p \in Paths : file[p] # NULL /\ ~side[p])

(* A library at rest is left alone in the end: passes stop to queue files  *)
(* that have lyrics, or are gone.  A row left in processing for ever,      *)
(* which is assumed away above, would never be settled.                    *)
Settles ==
  <>[](\A p \in Paths : file[p] = NULL \/ side[p] => job[p] \notin {"pending", "processing"})

=============================================================================
