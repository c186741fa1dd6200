----------------------------- MODULE Enrichment -----------------------------
(***************************************************************************)
(* What the workers do with the jobs they lease: JobProcessor in           *)
(* application/services.py, composed with the queue (JobQueue) and the     *)
(* decision ladder (JobPolicy), against the sidecar files on disk, the     *)
(* users who write and delete them, the provider, and crashes.             *)
(*                                                                         *)
(* An attempt is one step per await that reads or changes something        *)
(* another party can change or read: the snapshot, the hash of the         *)
(* sidecar, the decision with its marks, the lookup, the write, the        *)
(* provenance record, and the call that finishes the job.                  *)
(*                                                                         *)
(* Lyrics are model values: two texts are the same text when their         *)
(* normalised hashes are equal.  Definitions whose name begins with Slip   *)
(* are mistakes that could be made in the definition that follows; model   *)
(* checking notices them.  Heartbeats are left to JobQueue: no other step  *)
(* depends on them while the daemon runs.                                  *)
(***************************************************************************)
EXTENDS JobQueueConstants, JobPolicy

CONSTANTS
  Sidecars,        \* .lrc paths
  SidecarOf,       \* media_path.with_suffix(".lrc")
  Lyrics,          \* texts a sidecar can hold
  MaxEdits         \* bound: what the users do to sidecars

ASSUME EnrichmentAssumption ==
  /\ SidecarOf \in [Jobs -> Sidecars]
  /\ NULL \notin Lyrics
  /\ UNION Requests \subseteq RequestFlags
  /\ {} \in Requests
  /\ MaxEdits \in Nat

VARIABLES
  rows, work, beats, now, up, enqueues, restarts, owed,
  sidecar,      \* the file at each sidecar path and who wrote it, or NULL
  embedded,     \* whether each track's tags hold lyrics
  snapshot,     \* track_snapshots: sidecar_exists as last recorded, or NULL
  provenance,   \* the provenance table, or NULL
  cooldown,     \* an unexpired row of the cooldowns table
  attempt,      \* where each worker's attempt stands and what it has read
  edits,        \* what the users did so far
  torn          \* history: sidecars whose write was not followed by its record

queue == <<rows, work, beats, now, up, enqueues, restarts, owed>>
records == <<snapshot, provenance, cooldown>>
vars == <<queue, sidecar, embedded, records, attempt, edits, torn>>

Queue == INSTANCE JobQueue

File == [text : Lyrics, by : {"user", "versarr"}]

Provenance == [text : Lyrics, deleted : BOOLEAN, diverged : BOOLEAN]

Phases == {"snapshot", "hash", "decide", "fetch", "write", "record", "finish"}

Outcomes == {"complete", "retry_file", "retry_provider", "defer", "fail"}

Attempt ==
  [phase   : Phases,
   sidecar : BOOLEAN,                     \* snapshot.lyrics_presence.sidecar_exists
   hash    : Lyrics \cup {NULL},          \* current_sidecar_hash
   known   : Provenance \cup {NULL},      \* provenance as read
   repair  : BOOLEAN,                     \* repair_missing_provenance
   text    : Lyrics \cup {NULL},          \* normalized_lyrics
   outcome : Outcomes \cup {NULL}]

ASSUME AbsenceAssumption == NULL \notin File \cup Provenance \cup Attempt

TypeOK ==
  /\ Queue!TypeOK
  /\ sidecar \in [Sidecars -> File \cup {NULL}]
  /\ embedded \in [Jobs -> BOOLEAN]
  /\ snapshot \in [Jobs -> BOOLEAN \cup {NULL}]
  /\ provenance \in [Jobs -> Provenance \cup {NULL}]
  /\ cooldown \in [Jobs -> BOOLEAN]
  /\ attempt \in [Workers -> Attempt \cup {NULL}]
  /\ \A w \in Workers : attempt[w] # NULL <=> work[w] # NULL
  /\ edits \in Nat
  /\ torn \subseteq Sidecars

Init ==
  /\ Queue!Init
  /\ sidecar = [s \in Sidecars |-> NULL]
  /\ embedded \in [Jobs -> BOOLEAN]
  /\ snapshot = [j \in Jobs |-> NULL]
  /\ provenance = [j \in Jobs |-> NULL]
  /\ cooldown = [j \in Jobs |-> FALSE]
  /\ attempt = [w \in Workers |-> NULL]
  /\ edits = 0
  /\ torn = {}

-----------------------------------------------------------------------------
Job(w) == work[w].job
Path(w) == SidecarOf[Job(w)]
OnDisk(j) == sidecar[SidecarOf[j]] # NULL

In(w, phase) == up /\ attempt[w] # NULL /\ attempt[w].phase = phase

(* The attempt goes on with the given change, or ends with an outcome. *)
Goto(w, next) == attempt' = [attempt EXCEPT ![w] = next]
Ends(w, outcome) ==
  Goto(w, [attempt[w] EXCEPT !.phase = "finish", !.outcome = outcome])

-----------------------------------------------------------------------------
(* Requests.  The watcher, the scans and the CLI all end in enqueue_path.  *)
Ask(j, p, fl) ==
  /\ Queue!Enqueue(j, p, now, fl)
  /\ UNCHANGED <<sidecar, embedded, records, attempt, edits, torn>>

(* A watcher event has become stable, or a rescan is requested. *)
Request(j) == \E p \in Priorities, fl \in Requests : Ask(j, p, fl)

(* _needs_evaluation, with the revisit interval open *)
NeedsEvaluation(j) ==
  \/ snapshot[j] = NULL
  \/ ~Queue!Exists(j)
  \/ snapshot[j] # OnDisk(j)
  \/ /\ \E done \in {"completed", "failed"} : Queue!InState(j, done)
     /\ snapshot[j] = FALSE /\ ~embedded[j]

(* The startup scan and the periodic one queue what needs evaluation. *)
Reconcile(j) == NeedsEvaluation(j) /\ \E p \in Priorities : Ask(j, p, {})

-----------------------------------------------------------------------------
Fresh == [phase |-> "snapshot", sidecar |-> FALSE, hash |-> NULL, known |-> NULL,
          repair |-> FALSE, text |-> NULL, outcome |-> NULL]

Lease(w) ==
  /\ \E j \in Jobs, t \in Queue!ClockReads : Queue!Lease(w, j, t)
  /\ Goto(w, Fresh)
  /\ UNCHANGED <<sidecar, embedded, records, edits, torn>>

(* The media file is read and the snapshot recorded. *)
Snapshot(w) ==
  /\ In(w, "snapshot")
  /\ snapshot' = [snapshot EXCEPT ![Job(w)] = OnDisk(Job(w))]
  /\ Goto(w, [attempt[w] EXCEPT !.phase = "hash", !.sidecar = OnDisk(Job(w))])
  /\ UNCHANGED <<queue, sidecar, embedded, provenance, cooldown, edits, torn>>

(* get_provenance and, if the snapshot saw a sidecar, its hash.  A sidecar *)
(* deleted since ends the attempt like a missing media file.               *)
ReadHash(w) ==
  /\ In(w, "hash")
  /\ IF attempt[w].sidecar /\ sidecar[Path(w)] = NULL
       THEN Ends(w, "fail")
       ELSE Goto(w, [attempt[w] EXCEPT
                       !.phase = "decide",
                       !.known = provenance[Job(w)],
                       !.hash = IF attempt[w].sidecar THEN sidecar[Path(w)].text ELSE NULL])
  /\ UNCHANGED <<queue, sidecar, embedded, records, edits, torn>>

Facts(w) ==
  LET a == attempt[w] IN
  [sidecar     |-> a.sidecar,
   embedded    |-> embedded[Job(w)],
   provenance  |-> a.known # NULL,
   markDeleted |-> a.known # NULL /\ a.known.deleted,
   hashMatches |-> a.known # NULL /\ a.hash = a.known.text,
   cooldown    |-> cooldown[Job(w)],
   attempt     |-> work[w].attempt,
   flags       |-> work[w].flags]

(* An UPDATE: without a row it changes nothing. *)
Marked(row, d) ==
  IF row = NULL THEN NULL
  ELSE [row EXCEPT !.deleted = @ \/ d.markDeleted, !.diverged = @ \/ d.markDiverged]

DecideWhat(w) ==
  /\ In(w, "decide")
  /\ LET d == Decide(Facts(w)) IN
       /\ provenance' = [provenance EXCEPT ![Job(w)] = Marked(@, d)]
       /\ IF d.action = "fetch"
            THEN Goto(w, [attempt[w] EXCEPT !.phase = "fetch", !.repair = d.repair])
            ELSE Ends(w, "complete")
  /\ UNCHANGED <<queue, sidecar, embedded, snapshot, cooldown, edits, torn>>

(* Lyrics are found.  A repair only compares them with what is on disk. *)
Found(w, text) ==
  LET a == [attempt[w] EXCEPT !.text = text] IN
  /\ IF a.repair /\ a.hash # text THEN Ends(w, "complete")
     ELSE Goto(w, [a EXCEPT !.phase = IF a.repair THEN "record" ELSE "write"])
  /\ UNCHANGED cooldown

(* not_found, ambiguous and invalid_content start a cooldown. *)
NotFound(w) ==
  /\ cooldown' = [cooldown EXCEPT ![Job(w)] = TRUE]
  /\ Ends(w, "fail")

(* throttled; transient failure; rejected or without lyrics *)
Unanswered(w) ==
  /\ \E o \in {"defer", "retry_provider", "fail"} : Ends(w, o)
  /\ UNCHANGED cooldown

Fetch(w) ==
  /\ In(w, "fetch")
  /\ (\E text \in Lyrics : Found(w, text)) \/ NotFound(w) \/ Unanswered(w)
  /\ UNCHANGED <<queue, sidecar, embedded, snapshot, provenance, edits, torn>>

(* os.replace puts the text in place; the verification of the final file   *)
(* may still fail.                                                         *)
Write(w) ==
  /\ In(w, "write")
  /\ sidecar' = [sidecar EXCEPT ![Path(w)] = [text |-> attempt[w].text, by |-> "versarr"]]
  /\ \/ Goto(w, [attempt[w] EXCEPT !.phase = "record"]) /\ torn' = torn \ {Path(w)}
     \/ Ends(w, "retry_file") /\ torn' = torn \cup {Path(w)}
  /\ UNCHANGED <<queue, embedded, records, edits>>

(* the record of an earlier write is kept *)
SlipEarned(w) ==
  [text |-> IF attempt[w].known = NULL THEN attempt[w].text ELSE attempt[w].known.text,
   deleted |-> FALSE, diverged |-> FALSE]

(* The provenance of the text just written, or found in place by a repair *)
Earned(w) == [text |-> attempt[w].text, deleted |-> FALSE, diverged |-> FALSE]

Record(w) ==
  /\ In(w, "record")
  /\ provenance' = [provenance EXCEPT ![Job(w)] = Earned(w)]
  /\ Ends(w, "complete")
  /\ UNCHANGED <<queue, sidecar, embedded, snapshot, cooldown, edits, torn>>

(* The sidecar was written and the record of it is lost. *)
Tears(w) == In(w, "record") /\ ~attempt[w].repair

(* An exception ends the attempt before the step has had its effect: a     *)
(* missing file and a ValueError for good, any other for now.              *)
Error(w) ==
  /\ up
  /\ attempt[w] # NULL
  /\ attempt[w].phase # "finish"
  /\ \/ Ends(w, "retry_file")
     \/ attempt[w].phase \in {"snapshot", "hash", "write"} /\ Ends(w, "fail")
  /\ torn' = torn \cup {Path(v) : v \in {v \in {w} : Tears(v)}}
  /\ UNCHANGED <<queue, sidecar, embedded, records, edits>>

-----------------------------------------------------------------------------
(* a job whose window is used up is left as it is *)
SlipRetryOrFail(w, max) == IF work[w].attempt < max THEN Queue!Retry(w, max) ELSE UNCHANGED queue

(* A retry, or the end of the job when its window is used up. *)
RetryOrFail(w, max) == IF work[w].attempt < max THEN Queue!Retry(w, max) ELSE Queue!Fail(w)

Finish(w) ==
  /\ In(w, "finish")
  /\ LET outcome == attempt[w].outcome IN
       \/ outcome = "complete" /\ \E t \in Queue!ClockReads : Queue!Complete(w, t)
       \/ outcome = "retry_file" /\ RetryOrFail(w, FileAttempts)
       \/ outcome = "retry_provider" /\ RetryOrFail(w, ProviderAttempts)
       \/ outcome = "defer" /\ Queue!Defer(w)
       \/ outcome = "fail" /\ Queue!Fail(w)
  /\ Goto(w, NULL)
  /\ UNCHANGED <<sidecar, embedded, records, edits, torn>>

(* A crash or a stop between any two steps *)
Stop ==
  /\ Queue!Stop
  /\ attempt' = [w \in Workers |-> NULL]
  /\ torn' = torn \cup {Path(w) : w \in {v \in Workers : Tears(v)}}
  /\ UNCHANGED <<sidecar, embedded, records, edits>>

Start ==
  /\ Queue!Start \/ Queue!StartScanOnce
  /\ UNCHANGED <<sidecar, embedded, records, attempt, edits, torn>>

Tick ==
  /\ Queue!Tick
  /\ UNCHANGED <<sidecar, embedded, records, attempt, edits, torn>>

CooldownEnds(j) ==
  /\ cooldown[j]
  /\ cooldown' = [cooldown EXCEPT ![j] = FALSE]
  /\ UNCHANGED <<queue, sidecar, embedded, snapshot, provenance, attempt, edits, torn>>

-----------------------------------------------------------------------------
(* The users *)
Edit(s, file) ==
  /\ edits < MaxEdits
  /\ sidecar[s] # file
  /\ edits' = edits + 1
  /\ sidecar' = [sidecar EXCEPT ![s] = file]
  /\ torn' = torn \ {s}
  /\ UNCHANGED <<queue, embedded, records, attempt>>

UserWrites(s) == \E text \in Lyrics : Edit(s, [text |-> text, by |-> "user"])
UserDeletes(s) == Edit(s, NULL)

-----------------------------------------------------------------------------
Step(w) ==
  \/ Lease(w) \/ Snapshot(w) \/ ReadHash(w) \/ DecideWhat(w)
  \/ Fetch(w) \/ Write(w) \/ Record(w) \/ Error(w) \/ Finish(w)

Next ==
  \/ \E w \in Workers : Step(w)
  \/ \E j \in Jobs : Request(j) \/ Reconcile(j) \/ CooldownEnds(j)
  \/ \E s \in Sidecars : UserWrites(s) \/ UserDeletes(s)
  \/ Stop \/ Start \/ Tick

Spec == Init /\ [][Next]_vars

-----------------------------------------------------------------------------
(* The worker that puts its text in place at s in this step *)
Writing(w, s) == In(w, "write") /\ Path(w) = s /\ attempt'[w] # attempt[w]

WrittenNow(s) == sidecar'[s] # sidecar[s] /\ sidecar'[s] # NULL /\ sidecar'[s].by = "versarr"

UserFile(s) == sidecar[s] # NULL /\ sidecar[s].by = "user"

(* These flags let a job replace this text: Versarr's own when overwriting *)
(* is forced, an edited one when manual edits may be overwritten too.      *)
Permits(flags, j, text) ==
  /\ provenance[j] # NULL
  /\ {"force", "overwrite"} \subseteq flags
  /\ text = provenance[j].text \/ "allowManual" \in flags

(* A text the user has put there is replaced only by a job that may, or    *)
(* when the user put it there after the job had read the sidecar.          *)
UserTextIsSafe ==
  [][\A s \in Sidecars : WrittenNow(s) /\ UserFile(s) =>
       \E w \in Workers :
         /\ Writing(w, s)
         /\ \/ attempt[w].hash # sidecar[s].text
            \/ Permits(work[w].flags, Job(w), sidecar[s].text)]_vars

(* A sidecar appears only where none has been removed from, unless the job *)
(* is forced or the removal came after it had seen the sidecar; and never  *)
(* beside embedded lyrics.                                                 *)
AbsenceIsRespected ==
  [][\A s \in Sidecars : WrittenNow(s) /\ sidecar[s] = NULL =>
       \E w \in Workers :
         /\ Writing(w, s)
         /\ attempt[w].sidecar \/ provenance[Job(w)] = NULL \/ "force" \in work[w].flags
         /\ attempt[w].sidecar \/ ~embedded[Job(w)]]_vars

(* Versarr can tell a sidecar it wrote from one the user made: provenance  *)
(* of one of its tracks holds its text, or is about to, unless the attempt *)
(* was cut off between the two.                                            *)
OwnSidecarIsKnown ==
  \A s \in Sidecars : sidecar[s] # NULL /\ sidecar[s].by = "versarr" =>
    \/ s \in torn
    \/ \E j \in Jobs : /\ SidecarOf[j] = s
                      /\ provenance[j] # NULL
                      /\ provenance[j].text = sidecar[s].text
    \/ \E w \in Workers : /\ In(w, "record")
                         /\ Path(w) = s
                         /\ attempt[w].text = sidecar[s].text

(* A manual edit is preserved unless a forced rescan allows overwriting    *)
(* (GLOSSARY.md, "Manual divergence"): the job's flags allow it.           *)
ManualEditIsPreserved ==
  [][\A s \in Sidecars : WrittenNow(s) /\ UserFile(s) =>
       \E w \in Workers :
         Writing(w, s) /\ Permits(work[w].flags, Job(w), sidecar[s].text)]_vars

=============================================================================
