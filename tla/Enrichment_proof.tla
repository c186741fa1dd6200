-------------------------- MODULE Enrichment_proof --------------------------
(***************************************************************************)
(* Proofs about the decision ladder and about what the workers do with it, *)
(* for any jobs, workers, sidecars shared between tracks, texts, retry     *)
(* windows, number of interruptions and edits.                             *)
(*                                                                         *)
(* The argument has three parts.  The policy: a decision that lets new     *)
(* text be written has consent in the facts it was given.  The queue: to   *)
(* it the composition only enqueues, leases and finishes, so a job has one *)
(* holder.  The attempts: because of that, the provenance an attempt has   *)
(* read is that of the table until it records its own, and the consent of  *)
(* the decision still holds when it writes.                                *)
(***************************************************************************)
EXTENDS Enrichment, TLAPS

(* decide() always returns one of its decisions, with at most one mark. *)
THEOREM DecideDecides ==
  ASSUME NEW f \in JobFacts
  PROVE  /\ Decide(f) \in Decisions
         /\ ~(Decide(f).markDeleted /\ Decide(f).markDiverged)
BY DEF Decide, Decisions, Plain, Actions, JobFacts, Removed, Repairable, Diverged, MayReplace

(* A decision that lets new text be written has the consent it needs, in   *)
(* whatever order the rungs are climbed and whichever attempt it is.       *)
THEOREM WritesHaveConsent ==
  ASSUME NEW f \in JobFacts, Writes(Decide(f))
  PROVE  Consented(f)
BY DEF Writes, Consented, Decide, Plain, JobFacts, Removed, Repairable, Diverged, MayReplace,
       RequestFlags

(* More consent, a later attempt or the end of a cooldown never turn a     *)
(* lookup into something else.                                             *)
THEOREM LookupsStay ==
  ASSUME NEW f \in JobFacts, Decide(f).action = "fetch",
         NEW g \in JobFacts,
         g.sidecar = f.sidecar, g.embedded = f.embedded, g.provenance = f.provenance,
         g.hashMatches = f.hashMatches,
         f.flags \subseteq g.flags, g.attempt >= f.attempt, g.cooldown => f.cooldown
  PROVE  Decide(g).action = "fetch"
BY DEF Decide, Plain, JobFacts, Removed, Repairable, Diverged, MayReplace, RequestFlags

(* An edit of a sidecar with provenance is reported in every decision it   *)
(* leads to, consented or not, and nothing else is: no cooldown comes      *)
(* before the mark.                                                        *)
THEOREM EditsAreMarked ==
  ASSUME NEW f \in JobFacts
  PROVE  /\ Decide(f).markDiverged <=> Diverged(f)
         /\ Diverged(f) => Decide(f).action # "noop"
BY DEF Decide, Plain, JobFacts, Removed, Repairable, Diverged, MayReplace, RequestFlags

-----------------------------------------------------------------------------
(* To the queue, an attempt is a lease and the call that finishes it.      *)
LEMMA StepsOfTheQueue ==
  ASSUME now \in Nat, [Next]_vars
  PROVE  [Queue!Next]_queue
<1>1. now \in Queue!ClockReads
  BY JobQueueAssumption DEF Queue!ClockReads
<1>2. ASSUME NEW j \in Jobs, NEW p \in Priorities, NEW fl \in Requests, Ask(j, p, fl)
      PROVE  Queue!Next
  BY <1>1, <1>2 DEF Ask, Queue!Next
<1>3. ASSUME NEW j \in Jobs, Request(j) \/ Reconcile(j)
      PROVE  Queue!Next
  BY <1>2, <1>3, EnrichmentAssumption DEF Request, Reconcile
<1>4. ASSUME NEW w \in Workers, Lease(w)
      PROVE  Queue!Next
  BY <1>4 DEF Lease, Queue!Next, Queue!LeaseSome
<1>5. ASSUME NEW w \in Workers, Finish(w)
      PROVE  Queue!Next
  BY <1>5 DEF Finish, RetryOrFail, Queue!Next, Queue!FinishSome, Queue!Windows
<1>6. ASSUME NEW w \in Workers,
             Snapshot(w) \/ ReadHash(w) \/ DecideWhat(w) \/ Fetch(w) \/ Write(w) \/ Record(w) \/ Error(w)
      PROVE  UNCHANGED queue
  BY <1>6 DEF Snapshot, ReadHash, DecideWhat, Fetch, Write, Record, Error
<1>7. ASSUME NEW j \in Jobs, CooldownEnds(j)
      PROVE  UNCHANGED queue
  BY <1>7 DEF CooldownEnds
<1>8. ASSUME NEW s \in Sidecars, UserWrites(s) \/ UserDeletes(s)
      PROVE  UNCHANGED queue
  BY <1>8 DEF UserWrites, UserDeletes, Edit
<1>9. CASE Stop \/ Start \/ Tick
  BY <1>9 DEF Stop, Start, Tick, Queue!Next
<1>10. CASE UNCHANGED vars
  BY <1>10 DEF vars
<1>11. QED
  BY <1>3, <1>4, <1>5, <1>6, <1>7, <1>8, <1>9, <1>10 DEF Next, Step

(* The proofs about the queue are about a copy of its definitions: a step  *)
(* by one is a step by the other.                                          *)
QueueProof == INSTANCE JobQueue_proof

LEMMA SameProducers ==
  \A j, p, t, fl : Queue!Enqueue(j, p, t, fl) => QueueProof!Enqueue(j, p, t, fl)
BY DEF Queue!Enqueue, QueueProof!Enqueue, Queue!Enqueued, QueueProof!Enqueued,
       Queue!Fresh, QueueProof!Fresh

LEMMA SameLease == \A w : Queue!LeaseSome(w) => QueueProof!LeaseSome(w)
<1>1. Queue!ClockReads = QueueProof!ClockReads
  BY DEF Queue!ClockReads, QueueProof!ClockReads
<1>2. \A w, j, t : Queue!Lease(w, j, t) => QueueProof!Lease(w, j, t)
  BY DEF Queue!Lease, QueueProof!Lease, Queue!ReadyAt, QueueProof!ReadyAt, Queue!InState,
         QueueProof!InState, Queue!Exists, QueueProof!Exists, Queue!Leased, QueueProof!Leased
<1>3. QED
  BY <1>1, <1>2 DEF Queue!LeaseSome, QueueProof!LeaseSome

LEMMA SameFinish ==
  \A w : Queue!FinishSome(w) \/ Queue!Abandon(w) => QueueProof!FinishSome(w) \/ QueueProof!Abandon(w)
<1>1. Queue!ClockReads = QueueProof!ClockReads /\ Queue!Windows = QueueProof!Windows
  BY DEF Queue!ClockReads, QueueProof!ClockReads, Queue!Windows, QueueProof!Windows
<1>2. \A w : /\ Queue!HeldRow(w) = QueueProof!HeldRow(w)
             /\ Queue!RetryTimes(w) = QueueProof!RetryTimes(w)
  BY DEF Queue!HeldRow, QueueProof!HeldRow, Queue!RetryTimes, QueueProof!RetryTimes
<1>3. \A row, s, t : Queue!Released(row, s, t) = QueueProof!Released(row, s, t)
  BY DEF Queue!Released, QueueProof!Released
<1>4. \A w, row : Queue!Finish(w, row) => QueueProof!Finish(w, row)
  BY DEF Queue!Finish, QueueProof!Finish
<1>5. \A w, t : Queue!Complete(w, t) => QueueProof!Complete(w, t)
  BY <1>2, <1>3, <1>4 DEF Queue!Complete, QueueProof!Complete, Queue!Completed, QueueProof!Completed
<1>6. \A w, max : Queue!Retry(w, max) => QueueProof!Retry(w, max)
  BY <1>2, <1>3, <1>4 DEF Queue!Retry, QueueProof!Retry
<1>7. \A w : Queue!Defer(w) => QueueProof!Defer(w)
  BY <1>2, <1>3, <1>4 DEF Queue!Defer, QueueProof!Defer, Queue!Deferred, QueueProof!Deferred
<1>8. \A w : Queue!Fail(w) => QueueProof!Fail(w)
  BY <1>2, <1>3, <1>4 DEF Queue!Fail, QueueProof!Fail
<1>9. \A w : Queue!Abandon(w) => QueueProof!Abandon(w)
  BY DEF Queue!Abandon, QueueProof!Abandon
<1>10. QED
  BY <1>1, <1>5, <1>6, <1>7, <1>8, <1>9 DEF Queue!FinishSome, QueueProof!FinishSome

LEMMA SameHeartbeat ==
  /\ \A w : Queue!HeartbeatStart(w) => QueueProof!HeartbeatStart(w)
  /\ \A b : Queue!HeartbeatWrite(b) => QueueProof!HeartbeatWrite(b)
<1>1. Queue!Cardinality(beats) = QueueProof!Cardinality(beats)
  BY Zenon DEF Queue!Cardinality, QueueProof!Cardinality
<1>2. QED
  BY <1>1 DEF Queue!HeartbeatStart, QueueProof!HeartbeatStart, Queue!HeartbeatWrite,
              QueueProof!HeartbeatWrite

LEMMA SameLife ==
  Queue!Stop \/ Queue!Start \/ Queue!StartScanOnce \/ Queue!Tick =>
    QueueProof!Stop \/ QueueProof!Start \/ QueueProof!StartScanOnce \/ QueueProof!Tick
<1>1. \A j : Queue!LeaseExpired(j) = QueueProof!LeaseExpired(j)
  BY DEF Queue!LeaseExpired, QueueProof!LeaseExpired, Queue!InState, QueueProof!InState,
         Queue!Exists, QueueProof!Exists
<1>2. \A row : Queue!Recovered(row) = QueueProof!Recovered(row)
  BY DEF Queue!Recovered, QueueProof!Recovered, Queue!Released, QueueProof!Released
<1>3. Queue!Start => QueueProof!Start
  BY <1>1, <1>2 DEF Queue!Start, QueueProof!Start
<1>4. QED
  BY <1>3 DEF Queue!Stop, QueueProof!Stop, Queue!StartScanOnce, QueueProof!StartScanOnce,
              Queue!Tick, QueueProof!Tick

LEMMA SameQueue == [Queue!Next]_queue => [QueueProof!Next]_queue
<1>1. Queue!ClockReads = QueueProof!ClockReads
  BY DEF Queue!ClockReads, QueueProof!ClockReads
<1>2. QED
  BY <1>1, SameProducers, SameLease, SameFinish, SameHeartbeat, SameLife
     DEF Queue!Next, QueueProof!Next

LEMMA QueueNull == NULL \notin Workers \cup QueueProof!Row \cup QueueProof!Held
<1>1. QueueProof!Row = Row /\ QueueProof!Held = Held
  BY DEF QueueProof!Row, QueueProof!Held, QueueProof!States, QueueProof!Flags, Row,
         Held, States, Flags
<1>2. QED
  BY <1>1, NullAssumption

(* So the invariant of the queue is one of the composition. *)
LEMMA QueueIsSound == Spec => []QueueProof!QueueInv
<1>1. Init => QueueProof!QueueInv
  <2>1. Queue!Init => QueueProof!Init
    BY DEF Queue!Init, QueueProof!Init
  <2>2. QED
    BY <2>1, JobQueueAssumption, QueueNull, QueueProof!InitInv DEF Init
<1>2. QueueProof!QueueInv /\ [Next]_vars => QueueProof!QueueInv'
  <2> SUFFICES ASSUME QueueProof!QueueInv, [Next]_vars
               PROVE  QueueProof!QueueInv'
    OBVIOUS
  <2>1. now \in Nat
    BY DEF QueueProof!QueueInv, QueueProof!TypeOK
  <2>2. [QueueProof!Next]_queue
    BY <2>1, StepsOfTheQueue, SameQueue
  <2>3. QED
    BY <2>2, JobQueueAssumption, QueueNull, QueueProof!StepInv DEF QueueProof!vars, queue
<1>3. QED
  BY <1>1, <1>2, PTL DEF Spec

(* Workers that process what they lease, with all that can happen to an    *)
(* attempt, use the queue by its contract: what is proved of JobQueue      *)
(* holds of the composition.                                               *)
THEOREM KeepsTheQueue == Spec => Queue!Spec
<1>1. QueueProof!QueueInv => now \in Nat
  BY DEF QueueProof!QueueInv, QueueProof!TypeOK
<1>2. Init => Queue!Init
  BY DEF Init
<1>3. now \in Nat /\ [Next]_vars => [Queue!Next]_Queue!vars
  BY StepsOfTheQueue DEF Queue!vars, queue
<1>4. QED
  BY <1>1, <1>2, <1>3, QueueIsSound, PTL DEF Spec, Queue!Spec

-----------------------------------------------------------------------------
(* The provenance read is that of the table, marks apart: only the attempt *)
(* that holds a job records its provenance.                                *)
KnowsRecord(w) ==
  /\ attempt[w].known = NULL <=> provenance[Job(w)] = NULL
  /\ attempt[w].known # NULL => attempt[w].known.text = provenance[Job(w)].text

(* Consented, in terms of what the attempt has read and the job allows *)
Allowed(w) ==
  LET a == attempt[w]
      flags == work[w].flags
  IN  /\ a.sidecar =>
           /\ a.known # NULL
           /\ {"force", "overwrite"} \subseteq flags
           /\ a.hash = a.known.text \/ "allowManual" \in flags
      /\ ~a.sidecar /\ a.known # NULL => "force" \in flags
      /\ embedded[Job(w)] => a.sidecar

(* What the phase of an attempt says of what it has read *)
Sound(w) ==
  LET a == attempt[w] IN
  /\ a.phase \in {"decide", "fetch", "write", "record"} =>
       KnowsRecord(w) /\ (a.hash # NULL <=> a.sidecar)
  /\ a.phase \in {"fetch", "write"} /\ ~a.repair => Allowed(w)
  /\ a.phase # "finish" /\ a.repair => a.phase \in {"fetch", "record"} /\ a.known = NULL
  /\ a.phase \in {"write", "record"} => a.text # NULL

AttemptsAreSound == \A w \in Workers : attempt[w] # NULL => Sound(w)

(* Provenance of job j holds the text, and no attempt is about to record   *)
(* another one for it.                                                     *)
Keeps(j, text) ==
  /\ provenance[j] # NULL
  /\ provenance[j].text = text
  /\ \A w \in Workers :
       attempt[w] # NULL /\ attempt[w].phase = "record" /\ Job(w) = j => attempt[w].text = text

(* The attempt of w has written the text at s and will record it. *)
WillRecord(w, s, text) ==
  /\ attempt[w] # NULL
  /\ attempt[w].phase = "record"
  /\ ~attempt[w].repair
  /\ Path(w) = s
  /\ attempt[w].text = text

Known(s) ==
  \/ s \in torn
  \/ \E j \in Jobs : SidecarOf[j] = s /\ Keeps(j, sidecar[s].text)
  \/ \E w \in Workers : WillRecord(w, s, sidecar[s].text)

Own(s) == sidecar[s] # NULL /\ sidecar[s].by = "versarr"

OwnSidecarIsKept == \A s \in Sidecars : Own(s) => Known(s)

(* The inductive invariant, with Exclusive below *)
EnrichmentInv == TypeOK /\ AttemptsAreSound /\ OwnSidecarIsKept

-----------------------------------------------------------------------------
(* What the invariant of the queue says to the attempts: a job has one     *)
(* holder, and nobody works while the daemon is down.                      *)
Exclusive ==
  /\ Queue!TypeOK
  /\ \A w \in Workers : work[w] # NULL =>
       /\ up
       /\ Job(w) \in Jobs /\ Path(w) \in Sidecars
       /\ work[w].flags \in SUBSET RequestFlags
       /\ work[w].attempt \in Nat
       /\ \A v \in Workers : v # w /\ work[v] # NULL => Job(v) # Job(w)

LEMMA QueueExcludes == QueueProof!QueueInv => Exclusive
<1> SUFFICES ASSUME QueueProof!QueueInv
             PROVE  Exclusive
  OBVIOUS
<1>1. Queue!TypeOK
  BY DEF QueueProof!QueueInv, QueueProof!TypeOK, Queue!TypeOK, Queue!Row, QueueProof!Row, Queue!Held,
         QueueProof!Held, Queue!Beat, QueueProof!Beat, Queue!States, QueueProof!States,
         Queue!Flags, QueueProof!Flags
<1>2. ASSUME NEW w \in Workers, work[w] # NULL
      PROVE  work[w] \in Queue!Held
  BY <1>1, <1>2 DEF Queue!TypeOK
<1>3. ASSUME NEW w \in Workers, work[w] # NULL
      PROVE  /\ Job(w) \in Jobs /\ Path(w) \in Sidecars
             /\ work[w].flags \in SUBSET RequestFlags /\ work[w].attempt \in Nat
  BY <1>2, <1>3, EnrichmentAssumption DEF Queue!Held, Queue!Flags, Job, Path
<1>4. ASSUME NEW w \in Workers, work[w] # NULL
      PROVE  up /\ rows[Job(w)].owner = w
  BY <1>4 DEF QueueProof!QueueInv, QueueProof!HeldIsProcessing, QueueProof!HeldRow, Job
<1>5. QED
  BY <1>1, <1>3, <1>4 DEF Exclusive

LEMMA InitSound == QueueProof!QueueInv /\ Init => EnrichmentInv
<1> SUFFICES ASSUME QueueProof!QueueInv, Init
             PROVE  EnrichmentInv
  OBVIOUS
<1>1. Queue!TypeOK
  BY QueueExcludes DEF Exclusive
<1>2. TypeOK
  BY <1>1 DEF TypeOK, Init, Queue!Init
<1>3. QED
  BY <1>2 DEF EnrichmentInv, AttemptsAreSound, OwnSidecarIsKept, Own, Init

(* The attempts of the others stay sound when a step leaves them, their    *)
(* jobs and, marks apart, the provenance of their jobs as they are.        *)
LEMMA OthersStaySound ==
  ASSUME EnrichmentInv, Exclusive, NEW w \in Workers, work[w] # NULL,
         embedded' = embedded,
         NEW v \in Workers, v # w, attempt[v] # NULL,
         attempt'[v] = attempt[v], work'[v] = work[v],
         \A j \in Jobs : j # Job(w) => provenance'[j] = provenance[j]
  PROVE  Sound(v)'
<1>1. Sound(v) /\ work[v] # NULL
  BY DEF EnrichmentInv, AttemptsAreSound, TypeOK
<1>2. Job(v) \in Jobs /\ Job(v) # Job(w) /\ Job(v)' = Job(v)
  BY <1>1 DEF Exclusive, Job
<1>3. provenance'[Job(v)] = provenance[Job(v)]
  BY <1>2
<1>4. QED
  BY <1>1, <1>2, <1>3 DEF Sound, KnowsRecord, Allowed

(* An attempt goes on, with nothing else changed but the provenance of its *)
(* job, the snapshots and the cooldowns.                                   *)
LEMMA AttemptMoves ==
  ASSUME EnrichmentInv, Exclusive, Exclusive', NEW w \in Workers, attempt[w] # NULL,
         NEW a \in Attempt, Goto(w, a), UNCHANGED <<work, embedded>>,
         \A j \in Jobs : j # Job(w) => provenance'[j] = provenance[j]
  PROVE  /\ attempt'[w] = a
         /\ \A v \in Workers : v # w => attempt'[v] = attempt[v]
         /\ attempt' \in [Workers -> Attempt \cup {NULL}]
         /\ \A v \in Workers : attempt'[v] # NULL <=> work'[v] # NULL
         /\ Sound(w)' => AttemptsAreSound'
<1>1. /\ attempt'[w] = a
      /\ \A v \in Workers : v # w => attempt'[v] = attempt[v]
      /\ attempt' \in [Workers -> Attempt \cup {NULL}]
  BY DEF Goto, EnrichmentInv, TypeOK
<1>2. work[w] # NULL /\ a # NULL
  BY AbsenceAssumption DEF EnrichmentInv, TypeOK
<1>3. \A v \in Workers : attempt'[v] # NULL <=> work'[v] # NULL
  BY <1>1, <1>2 DEF EnrichmentInv, TypeOK
<1>4. ASSUME Sound(w)', NEW v \in Workers, attempt'[v] # NULL
      PROVE  Sound(v)'
  BY <1>1, <1>2, <1>4, OthersStaySound
<1>5. QED
  BY <1>1, <1>3, <1>4 DEF AttemptsAreSound

(* What is known of Versarr's own sidecars stays known when no sidecar and *)
(* no recorded text changes, whoever begins to record adopts a sidecar     *)
(* without provenance, and whoever ends before recording leaves a trace.   *)
LEMMA OwnSidecarsStay ==
  ASSUME EnrichmentInv, sidecar' = sidecar, torn \subseteq torn',
         \A j \in Jobs : provenance[j] # NULL =>
           provenance'[j] # NULL /\ provenance'[j].text = provenance[j].text,
         \A w \in Workers : attempt'[w] # NULL /\ attempt'[w].phase = "record" =>
           \/ attempt[w] # NULL /\ attempt'[w] = attempt[w] /\ work'[w] = work[w]
           \/ provenance[Job(w)'] = NULL,
         \A w \in Workers : attempt[w] # NULL /\ attempt[w].phase = "record" /\ ~attempt[w].repair =>
           \/ attempt'[w] = attempt[w] /\ work'[w] = work[w]
           \/ Path(w) \in torn'
  PROVE  OwnSidecarIsKept'
<1> SUFFICES ASSUME NEW s \in Sidecars, Own(s)'
             PROVE  Known(s)'
  BY DEF OwnSidecarIsKept
<1>1. Known(s)
  BY DEF EnrichmentInv, OwnSidecarIsKept, Own
<1>2. CASE s \in torn
  BY <1>2 DEF Known
<1>3. ASSUME NEW j \in Jobs, SidecarOf[j] = s, Keeps(j, sidecar[s].text)
      PROVE  Known(s)'
  <2>1. provenance'[j] # NULL /\ provenance'[j].text = sidecar[s].text
    BY <1>3 DEF Keeps
  <2>2. ASSUME NEW w \in Workers, attempt'[w] # NULL, attempt'[w].phase = "record", Job(w)' = j
        PROVE  attempt'[w].text = sidecar[s].text
    BY <1>3, <2>2 DEF Keeps, Job
  <2>3. QED
    BY <1>3, <2>1, <2>2 DEF Known, Keeps
<1>4. ASSUME NEW w \in Workers, WillRecord(w, s, sidecar[s].text)
      PROVE  Known(s)'
  BY <1>4 DEF Known, WillRecord, Path, Job
<1>5. QED
  BY <1>1, <1>2, <1>3, <1>4 DEF Known

-----------------------------------------------------------------------------
LEMMA EndsAttempt ==
  ASSUME TypeOK, NEW w \in Workers, attempt[w] # NULL, NEW outcome \in Outcomes
  PROVE  LET a == [attempt[w] EXCEPT !.phase = "finish", !.outcome = outcome] IN
           a \in Attempt /\ a.phase = "finish"
BY DEF TypeOK, Attempt, Phases

(* The queue is asked, the clock or the daemon moves on. *)
LEMMA AskSound ==
  ASSUME EnrichmentInv, Exclusive', UNCHANGED <<work, sidecar, embedded, records, attempt, edits, torn>>
  PROVE  EnrichmentInv'
<1>1. TypeOK'
  BY DEF EnrichmentInv, TypeOK, records, Exclusive
<1>2. AttemptsAreSound'
  BY DEF EnrichmentInv, AttemptsAreSound, Sound, KnowsRecord, Allowed, Job, records
<1>3. OwnSidecarIsKept'
  BY DEF EnrichmentInv, OwnSidecarIsKept, Own, Known, Keeps, WillRecord, Path, Job, records
<1>4. QED
  BY <1>1, <1>2, <1>3 DEF EnrichmentInv

LEMMA CooldownSound ==
  ASSUME EnrichmentInv, Exclusive', NEW j \in Jobs, CooldownEnds(j)
  PROVE  EnrichmentInv'
<1> USE DEF CooldownEnds
<1>1. TypeOK'
  BY DEF EnrichmentInv, TypeOK, Exclusive, queue
<1>2. AttemptsAreSound'
  BY DEF EnrichmentInv, AttemptsAreSound, Sound, KnowsRecord, Allowed, Job, queue
<1>3. OwnSidecarIsKept'
  BY DEF EnrichmentInv, OwnSidecarIsKept, Own, Known, Keeps, WillRecord, Path, Job, queue
<1>4. QED
  BY <1>1, <1>2, <1>3 DEF EnrichmentInv

LEMMA EditSound ==
  ASSUME EnrichmentInv, Exclusive', NEW s \in Sidecars, UserWrites(s) \/ UserDeletes(s)
  PROVE  EnrichmentInv'
<1>1. PICK file \in {f \in File : f.by = "user"} \cup {NULL} : Edit(s, file)
  BY DEF UserWrites, UserDeletes, File
<1> USE <1>1 DEF Edit
<1>2. TypeOK'
  BY DEF EnrichmentInv, TypeOK, queue, records, Exclusive
<1>3. AttemptsAreSound'
  BY DEF EnrichmentInv, AttemptsAreSound, Sound, KnowsRecord, Allowed, Job, queue, records
<1>4. ASSUME NEW r \in Sidecars, Own(r)'
      PROVE  Known(r)'
  <2>1. r # s /\ sidecar'[r] = sidecar[r]
    BY <1>4 DEF EnrichmentInv, TypeOK, Own
  <2>2. Known(r)
    BY <1>4, <2>1 DEF EnrichmentInv, OwnSidecarIsKept, Own
  <2>3. QED
    BY <2>1, <2>2 DEF Known, Keeps, WillRecord, Path, Job, queue, records
<1>5. QED
  BY <1>2, <1>3, <1>4 DEF EnrichmentInv, OwnSidecarIsKept

LEMMA LeaseSound ==
  ASSUME EnrichmentInv, Exclusive, Exclusive', NEW w \in Workers, Lease(w)
  PROVE  EnrichmentInv'
<1>1. PICK j \in Jobs, t \in Queue!ClockReads : Queue!Lease(w, j, t)
  BY DEF Lease
<1>2. /\ work[w] = NULL /\ attempt[w] = NULL
      /\ work' = [work EXCEPT ![w] = work'[w]] /\ work'[w].job = j
  BY <1>1 DEF Queue!Lease, EnrichmentInv, TypeOK, Queue!TypeOK
<1>3. /\ attempt'[w] = Fresh /\ Fresh \in Attempt /\ Fresh # NULL
      /\ \A v \in Workers : v # w => attempt'[v] = attempt[v] /\ work'[v] = work[v]
      /\ attempt' \in [Workers -> Attempt \cup {NULL}]
  <2>1. Fresh \in Attempt
    BY DEF Fresh, Attempt, Phases
  <2>2. QED
    BY <1>2, <2>1, AbsenceAssumption DEF Lease, Goto, EnrichmentInv, TypeOK, Queue!TypeOK
<1>4. work'[w] # NULL
  <2>1. rows[j] \in Queue!Row /\ now \in Nat
    BY <1>1 DEF Queue!Lease, Queue!ReadyAt, Queue!InState, Queue!Exists, Exclusive, Queue!TypeOK
  <2>2. [job |-> j, attempt |-> rows[j].attempts + 1, flags |-> rows[j].flags, since |-> now] \in Held
    BY <2>1 DEF Queue!Row, Queue!Flags, Held, Flags
  <2>3. QED
    BY <1>1, <2>2, NullAssumption DEF Queue!Lease, Exclusive, Queue!TypeOK
<1>5. UNCHANGED <<sidecar, embedded, snapshot, provenance, cooldown, edits, torn>>
  BY DEF Lease, records
<1>6. TypeOK'
  BY <1>3, <1>4, <1>5 DEF EnrichmentInv, TypeOK, Exclusive
<1>7. Sound(w)'
  BY <1>3 DEF Sound, Fresh
<1>8. ASSUME NEW v \in Workers, v # w, attempt'[v] # NULL
      PROVE  Sound(v)'
  BY <1>3, <1>5, <1>8 DEF EnrichmentInv, AttemptsAreSound, Sound, KnowsRecord, Allowed, Job
<1>9. OwnSidecarIsKept'
  <2>1. attempt'[w].phase # "record"
    BY <1>3 DEF Fresh
  <2>2. QED
    BY <1>2, <1>3, <1>5, <2>1, OwnSidecarsStay
<1>10. QED
  BY <1>6, <1>7, <1>8, <1>9 DEF EnrichmentInv, AttemptsAreSound

-----------------------------------------------------------------------------
(* The steps of an attempt *)
LEMMA AttemptFacts ==
  ASSUME EnrichmentInv, Exclusive, NEW w \in Workers, attempt[w] # NULL
  PROVE  /\ attempt[w] \in Attempt /\ Sound(w) /\ work[w] # NULL
         /\ Job(w) \in Jobs /\ Path(w) \in Sidecars
         /\ sidecar[Path(w)] \in File \cup {NULL}
         /\ provenance[Job(w)] \in Provenance \cup {NULL}
BY DEF EnrichmentInv, AttemptsAreSound, TypeOK, Exclusive

LEMMA SnapshotSound ==
  ASSUME EnrichmentInv, Exclusive, Exclusive', NEW w \in Workers, Snapshot(w)
  PROVE  EnrichmentInv'
<1> DEFINE a == [attempt[w] EXCEPT !.phase = "hash", !.sidecar = OnDisk(Job(w))]
<1> USE DEF Snapshot, In
<1>1. attempt[w] \in Attempt /\ Sound(w) /\ attempt[w] # NULL
  BY AttemptFacts
<1>2. /\ a \in Attempt /\ a.phase = "hash" /\ a.repair = attempt[w].repair
  BY <1>1 DEF Attempt, Phases, OnDisk
<1>3. /\ Goto(w, a)
      /\ UNCHANGED <<work, sidecar, embedded, provenance, cooldown, edits, torn>>
  BY DEF queue
<1> HIDE DEF a
<1>4. /\ attempt'[w] = a
      /\ \A v \in Workers : v # w => attempt'[v] = attempt[v]
      /\ attempt' \in [Workers -> Attempt \cup {NULL}]
      /\ \A v \in Workers : attempt'[v] # NULL <=> work'[v] # NULL
      /\ Sound(w)' => AttemptsAreSound'
  BY <1>1, <1>2, <1>3, AttemptMoves
<1>5. TypeOK'
  <2>1. snapshot' \in [Jobs -> BOOLEAN \cup {NULL}]
    BY DEF EnrichmentInv, TypeOK, OnDisk
  <2>2. QED
    BY <1>3, <1>4, <2>1 DEF EnrichmentInv, TypeOK, Exclusive
<1>6. Sound(w)'
  BY <1>1, <1>2, <1>4 DEF Sound
<1>7. OwnSidecarIsKept'
  BY <1>2, <1>3, <1>4, OwnSidecarsStay
<1>8. QED
  BY <1>4, <1>5, <1>6, <1>7 DEF EnrichmentInv

(* An attempt that ends without a file, a record or a mark changed: the    *)
(* write of a worker that was to record it is torn.                        *)
LEMMA EndsSound ==
  ASSUME EnrichmentInv, Exclusive, Exclusive', NEW w \in Workers, attempt[w] # NULL,
         NEW outcome \in Outcomes, Ends(w, outcome),
         UNCHANGED <<work, sidecar, embedded, snapshot, provenance, edits>>,
         cooldown' \in [Jobs -> BOOLEAN],
         torn' \in SUBSET Sidecars, torn \subseteq torn',
         attempt[w].phase = "record" /\ ~attempt[w].repair => Path(w) \in torn'
  PROVE  EnrichmentInv'
<1> DEFINE a == [attempt[w] EXCEPT !.phase = "finish", !.outcome = outcome]
<1>1. a \in Attempt /\ a.phase = "finish"
  BY EndsAttempt DEF EnrichmentInv
<1>2. Goto(w, a)
  BY DEF Ends
<1> HIDE DEF a
<1>3. /\ attempt'[w] = a
      /\ \A v \in Workers : v # w => attempt'[v] = attempt[v]
      /\ attempt' \in [Workers -> Attempt \cup {NULL}]
      /\ \A v \in Workers : attempt'[v] # NULL <=> work'[v] # NULL
      /\ Sound(w)' => AttemptsAreSound'
  BY <1>1, <1>2, AttemptMoves
<1>4. TypeOK'
  BY <1>3 DEF EnrichmentInv, TypeOK, Exclusive
<1>5. Sound(w)'
  BY <1>1, <1>3 DEF Sound
<1>6. OwnSidecarIsKept'
  BY <1>1, <1>3, OwnSidecarsStay
<1>7. QED
  BY <1>3, <1>4, <1>5, <1>6 DEF EnrichmentInv

LEMMA ReadHashSound ==
  ASSUME EnrichmentInv, Exclusive, Exclusive', NEW w \in Workers, ReadHash(w)
  PROVE  EnrichmentInv'
<1> USE DEF ReadHash, In
<1>1. /\ attempt[w] \in Attempt /\ Sound(w) /\ attempt[w] # NULL /\ attempt[w].phase = "hash"
      /\ sidecar[Path(w)] \in File \cup {NULL}
      /\ provenance[Job(w)] \in Provenance \cup {NULL}
  BY AttemptFacts
<1>2. UNCHANGED <<work, sidecar, embedded, snapshot, provenance, cooldown, edits, torn>>
  BY DEF queue, records
<1>3. CASE attempt[w].sidecar /\ sidecar[Path(w)] = NULL
  <2>1. Ends(w, "fail")
    BY <1>3
  <2>2. cooldown' \in [Jobs -> BOOLEAN] /\ torn' \in SUBSET Sidecars
    BY <1>2 DEF EnrichmentInv, TypeOK
  <2>3. QED
    BY <1>1, <1>2, <2>1, <2>2, EndsSound DEF Outcomes
<1>4. CASE ~(attempt[w].sidecar /\ sidecar[Path(w)] = NULL)
  <2> DEFINE text == IF attempt[w].sidecar THEN sidecar[Path(w)].text ELSE NULL
             a == [attempt[w] EXCEPT !.phase = "decide", !.known = provenance[Job(w)], !.hash = text]
  <2>1. text \in Lyrics \cup {NULL} /\ (text # NULL <=> attempt[w].sidecar)
    BY <1>1, <1>4, EnrichmentAssumption DEF File, Attempt
  <2>2. Goto(w, a)
    BY <1>4
  <2> HIDE DEF text
  <2>3. /\ a \in Attempt /\ a.phase = "decide" /\ a.repair = attempt[w].repair
        /\ a.known = provenance[Job(w)] /\ a.hash = text /\ a.sidecar = attempt[w].sidecar
    BY <1>1, <2>1 DEF Attempt, Phases
  <2> HIDE DEF a
  <2>4. /\ attempt'[w] = a
        /\ \A v \in Workers : v # w => attempt'[v] = attempt[v]
        /\ attempt' \in [Workers -> Attempt \cup {NULL}]
        /\ \A v \in Workers : attempt'[v] # NULL <=> work'[v] # NULL
        /\ Sound(w)' => AttemptsAreSound'
    BY <1>1, <1>2, <2>2, <2>3, AttemptMoves
  <2>5. TypeOK'
    BY <1>2, <2>4 DEF EnrichmentInv, TypeOK, Exclusive
  <2>6. Sound(w)'
    BY <1>1, <1>2, <2>1, <2>3, <2>4 DEF Sound, KnowsRecord, Job
  <2>7. OwnSidecarIsKept'
    BY <1>1, <1>2, <2>3, <2>4, OwnSidecarsStay
  <2>8. QED
    BY <2>4, <2>5, <2>6, <2>7 DEF EnrichmentInv
<1>5. QED
  BY <1>3, <1>4

LEMMA ErrorSound ==
  ASSUME EnrichmentInv, Exclusive, Exclusive', NEW w \in Workers, Error(w)
  PROVE  EnrichmentInv'
<1>1. PICK outcome \in {"retry_file", "fail"} : Ends(w, outcome)
  BY DEF Error
<1>2. /\ attempt[w] # NULL /\ UNCHANGED <<work, sidecar, embedded, snapshot, provenance, edits>>
      /\ cooldown' \in [Jobs -> BOOLEAN]
  BY DEF Error, queue, records, EnrichmentInv, TypeOK
<1>3. Path(w) \in Sidecars
  BY <1>2, AttemptFacts
<1>4. /\ torn' \in SUBSET Sidecars /\ torn \subseteq torn'
      /\ Tears(w) => Path(w) \in torn'
  BY <1>3 DEF Error, EnrichmentInv, TypeOK
<1>5. attempt[w].phase = "record" /\ ~attempt[w].repair => Path(w) \in torn'
  BY <1>2, <1>4 DEF Tears, In, Error
<1>6. QED
  BY <1>1, <1>2, <1>4, <1>5, EndsSound DEF Outcomes

(* What the policy is asked, and what it makes of it: a write is allowed   *)
(* by what the attempt knows, a repair begins without provenance.          *)
LEMMA FactsAreFacts ==
  ASSUME EnrichmentInv, Exclusive, NEW w \in Workers, attempt[w] # NULL
  PROVE  Facts(w) \in JobFacts
<1>1. attempt[w] \in Attempt /\ work[w].flags \in SUBSET RequestFlags /\ work[w].attempt \in Nat
      /\ Job(w) \in Jobs
  BY AttemptFacts DEF Exclusive
<1>2. embedded[Job(w)] \in BOOLEAN /\ cooldown[Job(w)] \in BOOLEAN
  BY <1>1 DEF EnrichmentInv, TypeOK
<1>3. attempt[w].known # NULL => attempt[w].known.deleted \in BOOLEAN
  BY <1>1 DEF Attempt, Provenance
<1>4. QED
  BY <1>1, <1>2, <1>3 DEF Facts, JobFacts, Attempt

LEMMA RepairsHaveNoRecord ==
  ASSUME NEW f \in JobFacts, Decide(f).repair
  PROVE  f.sidecar /\ ~f.provenance /\ Decide(f).action = "fetch"
BY DEF Decide, Plain, JobFacts, Removed, Repairable, Diverged, MayReplace

LEMMA MarkedRow ==
  ASSUME NEW row \in Provenance \cup {NULL}, NEW d \in Decisions
  PROVE  /\ Marked(row, d) \in Provenance \cup {NULL}
         /\ Marked(row, d) = NULL <=> row = NULL
         /\ row # NULL => Marked(row, d).text = row.text
BY AbsenceAssumption DEF Marked, Provenance, Decisions

LEMMA DecideSound ==
  ASSUME EnrichmentInv, Exclusive, Exclusive', NEW w \in Workers, DecideWhat(w)
  PROVE  EnrichmentInv'
<1> DEFINE f == Facts(w)
           d == Decide(f)
           going == [attempt[w] EXCEPT !.phase = "fetch", !.repair = d.repair]
           ending == [attempt[w] EXCEPT !.phase = "finish", !.outcome = "complete"]
           a == IF d.action = "fetch" THEN going ELSE ending
<1>1. /\ attempt[w] \in Attempt /\ Sound(w) /\ attempt[w] # NULL /\ attempt[w].phase = "decide"
      /\ Job(w) \in Jobs /\ provenance[Job(w)] \in Provenance \cup {NULL}
  BY AttemptFacts DEF DecideWhat, In
<1>2. /\ UNCHANGED <<work, sidecar, embedded, snapshot, cooldown, edits, torn>>
      /\ provenance' = [provenance EXCEPT ![Job(w)] = Marked(@, d)]
      /\ Goto(w, a)
  BY DEF DecideWhat, queue, Ends
<1>3. f \in JobFacts /\ d \in Decisions
  BY <1>1, FactsAreFacts, DecideDecides
<1>4. /\ f.provenance <=> attempt[w].known # NULL
      /\ f.sidecar = attempt[w].sidecar
      /\ f.embedded = embedded[Job(w)]
      /\ f.flags = work[w].flags
      /\ f.hashMatches <=> attempt[w].known # NULL /\ attempt[w].hash = attempt[w].known.text
  BY DEF Facts
<1>5. d.repair => ~f.provenance
  BY <1>3, RepairsHaveNoRecord
<1>6. d.action = "fetch" /\ ~d.repair => Consented(f)
  BY <1>3, WritesHaveConsent DEF Writes
<1> HIDE DEF f
<1>7. /\ a \in Attempt
      /\ \/ a.phase = "fetch" /\ a.repair = d.repair /\ d.action = "fetch"
         \/ a.phase = "finish"
      /\ a.known = attempt[w].known /\ a.hash = attempt[w].hash /\ a.sidecar = attempt[w].sidecar
  BY <1>1, <1>3 DEF Attempt, Phases, Outcomes, Decisions
<1>8. /\ provenance' \in [Jobs -> Provenance \cup {NULL}]
      /\ \A j \in Jobs : /\ provenance'[j] = NULL <=> provenance[j] = NULL
                         /\ provenance[j] # NULL => provenance'[j].text = provenance[j].text
      /\ \A j \in Jobs : j # Job(w) => provenance'[j] = provenance[j]
  <2>1. provenance \in [Jobs -> Provenance \cup {NULL}]
    BY DEF EnrichmentInv, TypeOK
  <2>2. /\ provenance'[Job(w)] = Marked(provenance[Job(w)], d)
        /\ \A j \in Jobs : j # Job(w) => provenance'[j] = provenance[j]
    BY <1>1, <1>2, <2>1
  <2>3. provenance' \in [Jobs -> Provenance \cup {NULL}]
    BY <1>1, <1>2, <1>3, <2>1, MarkedRow
  <2>4. QED
    BY <1>1, <1>3, <2>2, <2>3, MarkedRow
<1> HIDE DEF a, d
<1>9. /\ attempt'[w] = a
      /\ \A v \in Workers : v # w => attempt'[v] = attempt[v]
      /\ attempt' \in [Workers -> Attempt \cup {NULL}]
      /\ \A v \in Workers : attempt'[v] # NULL <=> work'[v] # NULL
      /\ Sound(w)' => AttemptsAreSound'
  BY <1>1, <1>2, <1>7, <1>8, AttemptMoves
<1>10. TypeOK'
  BY <1>2, <1>8, <1>9 DEF EnrichmentInv, TypeOK, Exclusive
<1>11. KnowsRecord(w)' /\ (a.hash # NULL <=> a.sidecar)
  BY <1>1, <1>2, <1>7, <1>8, <1>9 DEF Sound, KnowsRecord, Job
<1>12. a.phase = "fetch" /\ ~a.repair => Allowed(w)'
  BY <1>2, <1>4, <1>6, <1>7, <1>9 DEF Allowed, Consented, Job
<1>13. Sound(w)'
  BY <1>4, <1>5, <1>7, <1>9, <1>11, <1>12 DEF Sound
<1>14. OwnSidecarIsKept'
  BY <1>1, <1>2, <1>7, <1>8, <1>9, OwnSidecarsStay
<1>15. QED
  BY <1>9, <1>10, <1>13, <1>14 DEF EnrichmentInv

LEMMA FoundSound ==
  ASSUME EnrichmentInv, Exclusive, Exclusive', NEW w \in Workers, Fetch(w),
         NEW text \in Lyrics, Found(w, text)
  PROVE  EnrichmentInv'
<1> DEFINE found == [attempt[w] EXCEPT !.text = text]
           ending == [found EXCEPT !.phase = "finish", !.outcome = "complete"]
           going == [found EXCEPT !.phase = IF found.repair THEN "record" ELSE "write"]
<1>1. /\ attempt[w] \in Attempt /\ Sound(w) /\ attempt[w] # NULL /\ attempt[w].phase = "fetch"
      /\ Job(w) \in Jobs
  BY AttemptFacts DEF Fetch, In
<1>2. UNCHANGED <<work, sidecar, embedded, snapshot, provenance, cooldown, edits, torn>>
  BY DEF Fetch, Found, queue
<1>3. CASE found.repair /\ found.hash # text
  <2>1. Ends(w, "complete")
    BY <1>1, <1>3 DEF Found, Attempt
  <2>2. cooldown' \in [Jobs -> BOOLEAN] /\ torn' \in SUBSET Sidecars
    BY <1>2 DEF EnrichmentInv, TypeOK
  <2>3. QED
    BY <1>1, <1>2, <2>1, <2>2, EndsSound DEF Outcomes
<1>4. CASE ~(found.repair /\ found.hash # text)
  <2>1. /\ found \in Attempt /\ found.repair = attempt[w].repair
        /\ found.known = attempt[w].known /\ found.hash = attempt[w].hash
        /\ found.sidecar = attempt[w].sidecar /\ found.text = text
    BY <1>1 DEF Attempt
  <2>2. Goto(w, going)
    BY <1>4 DEF Found
  <2> HIDE DEF found
  <2>3. /\ going \in Attempt /\ going.phase = IF attempt[w].repair THEN "record" ELSE "write"
        /\ going.repair = attempt[w].repair /\ going.text = text
        /\ going.known = attempt[w].known /\ going.hash = attempt[w].hash
        /\ going.sidecar = attempt[w].sidecar
    BY <2>1 DEF Attempt, Phases
  <2> HIDE DEF going
  <2>4. /\ attempt'[w] = going
        /\ \A v \in Workers : v # w => attempt'[v] = attempt[v]
        /\ attempt' \in [Workers -> Attempt \cup {NULL}]
        /\ \A v \in Workers : attempt'[v] # NULL <=> work'[v] # NULL
        /\ Sound(w)' => AttemptsAreSound'
    BY <1>1, <1>2, <2>2, <2>3, AttemptMoves
  <2>5. TypeOK'
    BY <1>2, <2>4 DEF EnrichmentInv, TypeOK, Exclusive
  <2>6. text # NULL /\ KnowsRecord(w)'
    BY <1>1, <1>2, <2>3, <2>4, EnrichmentAssumption DEF Sound, KnowsRecord, Job
  <2>7. ~going.repair => Allowed(w)'
    BY <1>1, <1>2, <2>3, <2>4 DEF Sound, Allowed, Job
  <2>8. Sound(w)'
    BY <1>1, <2>3, <2>4, <2>6, <2>7 DEF Sound
  <2>9. going.phase = "record" => provenance[Job(w)] = NULL /\ Job(w)' = Job(w)
    BY <1>1, <1>2, <2>3 DEF Sound, KnowsRecord, Job
  <2>10. OwnSidecarIsKept'
    BY <1>1, <1>2, <2>3, <2>4, <2>9, OwnSidecarsStay
  <2>11. QED
    BY <2>4, <2>5, <2>8, <2>10 DEF EnrichmentInv
<1>5. QED
  BY <1>3, <1>4

LEMMA FetchSound ==
  ASSUME EnrichmentInv, Exclusive, Exclusive', NEW w \in Workers, Fetch(w)
  PROVE  EnrichmentInv'
<1>1. /\ attempt[w] # NULL /\ attempt[w].phase = "fetch"
      /\ UNCHANGED <<work, sidecar, embedded, snapshot, provenance, edits, torn>>
  BY DEF Fetch, In, queue
<1>2. CASE \E text \in Lyrics : Found(w, text)
  BY <1>2, FoundSound
<1>3. ASSUME NotFound(w) \/ Unanswered(w)
      PROVE  EnrichmentInv'
  <2>1. cooldown' \in [Jobs -> BOOLEAN] /\ torn' \in SUBSET Sidecars
    BY <1>1, <1>3 DEF NotFound, Unanswered, EnrichmentInv, TypeOK
  <2>2. PICK outcome \in Outcomes : Ends(w, outcome)
    BY <1>3 DEF NotFound, Unanswered, Outcomes
  <2>3. QED
    BY <1>1, <2>1, <2>2, EndsSound
<1>4. QED
  BY <1>2, <1>3 DEF Fetch

LEMMA WriteSound ==
  ASSUME EnrichmentInv, Exclusive, Exclusive', NEW w \in Workers, Write(w)
  PROVE  EnrichmentInv'
<1>0. PICK p : p = Path(w)
  OBVIOUS
<1> DEFINE file == [text |-> attempt[w].text, by |-> "versarr"]
           going == [attempt[w] EXCEPT !.phase = "record"]
           ending == [attempt[w] EXCEPT !.phase = "finish", !.outcome = "retry_file"]
<1>1. /\ attempt[w] \in Attempt /\ Sound(w) /\ attempt[w] # NULL /\ attempt[w].phase = "write"
      /\ p \in Sidecars /\ Job(w) \in Jobs /\ ~attempt[w].repair /\ attempt[w].text \in Lyrics
  BY <1>0, AttemptFacts DEF Write, In, Sound, Attempt
<1>2. UNCHANGED <<work, embedded, snapshot, provenance, cooldown, edits>>
  BY DEF Write, queue, records
<1>3. /\ sidecar' \in [Sidecars -> File \cup {NULL}]
      /\ sidecar'[p] = file
      /\ \A s \in Sidecars : s # p => sidecar'[s] = sidecar[s]
  BY <1>0, <1>1 DEF Write, File, EnrichmentInv, TypeOK
<1>4. PICK a \in {going, ending} :
        /\ Goto(w, a)
        /\ torn' = IF a.phase = "record" THEN torn \ {p} ELSE torn \cup {p}
  BY <1>0, <1>1 DEF Write, Ends, Attempt
<1>5. /\ a \in Attempt /\ a.phase \in {"record", "finish"}
      /\ a.repair = attempt[w].repair /\ a.text = attempt[w].text
      /\ a.known = attempt[w].known /\ a.hash = attempt[w].hash /\ a.sidecar = attempt[w].sidecar
  BY <1>1 DEF Attempt, Phases, Outcomes
<1>6. /\ attempt'[w] = a
      /\ \A v \in Workers : v # w => attempt'[v] = attempt[v]
      /\ attempt' \in [Workers -> Attempt \cup {NULL}]
      /\ \A v \in Workers : attempt'[v] # NULL <=> work'[v] # NULL
      /\ Sound(w)' => AttemptsAreSound'
  BY <1>1, <1>2, <1>4, <1>5, AttemptMoves
<1>7. TypeOK'
  <2>1. torn' \subseteq Sidecars
    BY <1>1, <1>4 DEF EnrichmentInv, TypeOK
  <2>2. QED
    BY <1>2, <1>3, <1>6, <2>1 DEF EnrichmentInv, TypeOK, Exclusive
<1>8. Sound(w)'
  <2>1. KnowsRecord(w)' /\ (a.hash # NULL <=> a.sidecar) /\ a.text # NULL
    BY <1>1, <1>2, <1>5, <1>6 DEF Sound, KnowsRecord, Job
  <2>2. QED
    BY <1>1, <1>5, <1>6, <2>1 DEF Sound
<1>9. Path(w)' = p /\ \A v \in Workers : Path(v)' = Path(v) /\ Job(v)' = Job(v)
  BY <1>0, <1>2 DEF Path, Job
<1>10. Known(p)'
  <2>1. CASE a.phase = "record"
    <3>1. attempt'[w] # NULL /\ attempt'[w].phase = "record" /\ ~attempt'[w].repair
      BY <1>1, <1>5, <1>6, <2>1, AbsenceAssumption
    <3>2. attempt'[w].text = sidecar'[p].text
      BY <1>3, <1>5, <1>6
    <3>3. WillRecord(w, p, sidecar[p].text)'
      BY <1>9, <3>1, <3>2 DEF WillRecord
    <3>4. QED
      BY <3>3 DEF Known
  <2>2. CASE a.phase # "record"
    BY <1>4, <2>2 DEF Known
  <2>3. QED
    BY <2>1, <2>2
<1>11. ASSUME NEW s \in Sidecars, s # p, Own(s)'
       PROVE  Known(s)'
  <2>1. Known(s) /\ sidecar'[s] = sidecar[s]
    BY <1>3, <1>11 DEF EnrichmentInv, OwnSidecarIsKept, Own
  <2>2. s \in torn => s \in torn'
    BY <1>4, <1>11
  <2>3. ASSUME NEW j \in Jobs, SidecarOf[j] = s, Keeps(j, sidecar[s].text)
        PROVE  Keeps(j, sidecar[s].text)'
    BY <1>0, <1>2, <1>6, <1>9, <1>11, <2>1, <2>3 DEF Keeps, Path
  <2>4. ASSUME NEW v \in Workers, WillRecord(v, s, sidecar[s].text)
        PROVE  WillRecord(v, s, sidecar[s].text)'
    BY <1>1, <1>6, <1>9, <2>1, <2>4 DEF WillRecord
  <2>5. QED
    BY <2>1, <2>2, <2>3, <2>4 DEF Known
<1>12. QED
  BY <1>6, <1>7, <1>8, <1>10, <1>11 DEF EnrichmentInv, OwnSidecarIsKept

LEMMA RecordSound ==
  ASSUME EnrichmentInv, Exclusive, Exclusive', NEW w \in Workers, Record(w)
  PROVE  EnrichmentInv'
<1> DEFINE a == [attempt[w] EXCEPT !.phase = "finish", !.outcome = "complete"]
<1>1. /\ attempt[w] \in Attempt /\ Sound(w) /\ attempt[w] # NULL /\ attempt[w].phase = "record"
      /\ Job(w) \in Jobs /\ attempt[w].text \in Lyrics /\ work[w] # NULL
  BY AttemptFacts DEF Record, In, Sound, Attempt
<1>2. /\ UNCHANGED <<work, sidecar, embedded, snapshot, cooldown, edits, torn>>
      /\ Goto(w, a)
  BY DEF Record, Ends, queue
<1>3. a \in Attempt /\ a.phase = "finish"
  BY <1>1 DEF Attempt, Phases, Outcomes
<1>4. /\ provenance' \in [Jobs -> Provenance \cup {NULL}]
      /\ provenance'[Job(w)].text = attempt[w].text /\ provenance'[Job(w)] # NULL
      /\ \A j \in Jobs : j # Job(w) => provenance'[j] = provenance[j]
  <2>1. Earned(w) \in Provenance /\ Earned(w) # NULL /\ Earned(w).text = attempt[w].text
    <3>1. Earned(w) \in Provenance /\ Earned(w).text = attempt[w].text
      BY <1>1 DEF Earned, Provenance
    <3>2. QED
      BY <3>1, AbsenceAssumption
  <2>2. QED
    BY <1>1, <2>1 DEF Record, EnrichmentInv, TypeOK
<1> HIDE DEF a
<1>5. /\ attempt'[w] = a
      /\ \A v \in Workers : v # w => attempt'[v] = attempt[v]
      /\ attempt' \in [Workers -> Attempt \cup {NULL}]
      /\ \A v \in Workers : attempt'[v] # NULL <=> work'[v] # NULL
      /\ Sound(w)' => AttemptsAreSound'
  BY <1>1, <1>2, <1>3, <1>4, AttemptMoves
<1>6. TypeOK'
  BY <1>2, <1>4, <1>5 DEF EnrichmentInv, TypeOK, Exclusive
<1>7. Sound(w)'
  BY <1>3, <1>5 DEF Sound
<1>8. \A v \in Workers : Path(v)' = Path(v) /\ Job(v)' = Job(v)
  BY <1>2 DEF Path, Job
<1>9. ASSUME NEW s \in Sidecars, Own(s)'
      PROVE  Known(s)'
  <2>1. PICK text \in Lyrics : sidecar[s].text = text /\ sidecar'[s].text = text
    BY <1>2, <1>9 DEF EnrichmentInv, TypeOK, Own, File
  <2>2. \/ s \in torn
        \/ \E j \in Jobs : SidecarOf[j] = s /\ Keeps(j, text)
        \/ \E v \in Workers : WillRecord(v, s, text)
    <3>1. Known(s)
      BY <1>2, <1>9 DEF EnrichmentInv, OwnSidecarIsKept, Own
    <3>2. QED
      BY <2>1, <3>1 DEF Known
  <2>3. ASSUME NEW j \in Jobs, Keeps(j, text)
        PROVE  Keeps(j, text)'
    <3>1. provenance'[j] # NULL /\ provenance'[j].text = text
      BY <1>1, <1>4, <2>3 DEF Keeps
    <3>2. QED
      BY <1>3, <1>5, <1>8, <2>3, <3>1 DEF Keeps
  <2>4. ASSUME WillRecord(w, s, text)
        PROVE  \E j \in Jobs : SidecarOf[j] = s /\ Keeps(j, text)'
    <3>1. SidecarOf[Job(w)] = s /\ attempt[w].text = text
      BY <2>4 DEF WillRecord, Path
    <3>2. ASSUME NEW v \in Workers, attempt'[v] # NULL, attempt'[v].phase = "record"
          PROVE  Job(v)' # Job(w)
      BY <1>1, <1>3, <1>5, <1>8, <3>2 DEF Exclusive, EnrichmentInv, TypeOK
    <3>3. PICK j \in Jobs : j = Job(w)
      BY <1>1
    <3>4. QED
      BY <1>4, <2>1, <3>1, <3>2, <3>3 DEF Keeps
  <2>5. ASSUME NEW v \in Workers, v # w, WillRecord(v, s, text)
        PROVE  WillRecord(v, s, text)'
    BY <1>5, <1>8, <2>5 DEF WillRecord
  <2>6. CASE s \in torn
    BY <1>2, <2>6 DEF Known
  <2>7. ASSUME NEW j \in Jobs, SidecarOf[j] = s, Keeps(j, text)'
        PROVE  Known(s)'
    BY <2>1, <2>7 DEF Known, Keeps
  <2>8. ASSUME NEW v \in Workers, WillRecord(v, s, text)'
        PROVE  Known(s)'
    BY <2>1, <2>8 DEF Known, WillRecord
  <2>9. QED
    BY <1>1, <2>2, <2>3, <2>4, <2>5, <2>6, <2>7, <2>8
<1>10. QED
  BY <1>5, <1>6, <1>7, <1>9 DEF EnrichmentInv, OwnSidecarIsKept

(* The call that finishes the job, and an interruption, take the attempt   *)
(* from memory.                                                            *)
LEMMA FinishSound ==
  ASSUME EnrichmentInv, Exclusive, Exclusive', NEW w \in Workers, Finish(w)
  PROVE  EnrichmentInv'
<1>1. attempt[w] # NULL /\ attempt[w].phase = "finish" /\ work[w] # NULL
  BY DEF Finish, In, EnrichmentInv, TypeOK
<1>2. work' = [work EXCEPT ![w] = NULL]
  BY DEF Finish, RetryOrFail, Queue!Complete, Queue!Retry, Queue!Defer, Queue!Fail, Queue!Finish
<1>3. /\ attempt' = [attempt EXCEPT ![w] = NULL]
      /\ UNCHANGED <<sidecar, embedded, snapshot, provenance, cooldown, edits, torn>>
  BY DEF Finish, Goto, records
<1>4. /\ attempt'[w] = NULL /\ work'[w] = NULL
      /\ \A v \in Workers : v # w => attempt'[v] = attempt[v] /\ work'[v] = work[v]
      /\ attempt' \in [Workers -> Attempt \cup {NULL}]
  BY <1>2, <1>3 DEF EnrichmentInv, TypeOK, Exclusive, Queue!TypeOK
<1>5. TypeOK'
  BY <1>3, <1>4 DEF EnrichmentInv, TypeOK, Exclusive
<1>6. AttemptsAreSound'
  BY <1>1, <1>3, <1>4, OthersStaySound DEF AttemptsAreSound
<1>7. OwnSidecarIsKept'
  BY <1>1, <1>3, <1>4, OwnSidecarsStay
<1>8. QED
  BY <1>5, <1>6, <1>7 DEF EnrichmentInv

LEMMA StopSound ==
  ASSUME EnrichmentInv, Exclusive, Exclusive', Stop
  PROVE  EnrichmentInv'
<1>1. /\ \A w \in Workers : attempt'[w] = NULL /\ work'[w] = NULL
      /\ attempt' \in [Workers -> Attempt \cup {NULL}]
      /\ UNCHANGED <<sidecar, embedded, snapshot, provenance, cooldown, edits>>
  BY DEF Stop, records, Queue!Stop
<1>2. \A w \in Workers : Tears(w) => Path(w) \in Sidecars
  BY AttemptFacts DEF Tears, In
<1>3. /\ torn' \subseteq Sidecars /\ torn \subseteq torn'
      /\ \A w \in Workers : Tears(w) => Path(w) \in torn'
  BY <1>2 DEF Stop, EnrichmentInv, TypeOK
<1>4. TypeOK'
  BY <1>1, <1>3 DEF EnrichmentInv, TypeOK, Exclusive
<1>5. AttemptsAreSound'
  BY <1>1 DEF AttemptsAreSound
<1>6. \A w \in Workers : attempt[w] # NULL /\ attempt[w].phase = "record" /\ ~attempt[w].repair => Tears(w)
  BY DEF Tears, In, EnrichmentInv, TypeOK, Exclusive
<1>7. OwnSidecarIsKept'
  BY <1>1, <1>3, <1>6, OwnSidecarsStay
<1>8. QED
  BY <1>4, <1>5, <1>7 DEF EnrichmentInv

LEMMA StepSound ==
  ASSUME EnrichmentInv, Exclusive, Exclusive', [Next]_vars
  PROVE  EnrichmentInv'
<1>1. ASSUME NEW w \in Workers, Step(w)
      PROVE  EnrichmentInv'
  BY <1>1, LeaseSound, SnapshotSound, ReadHashSound, DecideSound, FetchSound, WriteSound,
     RecordSound, ErrorSound, FinishSound DEF Step
<1>2. ASSUME NEW j \in Jobs, Request(j) \/ Reconcile(j)
      PROVE  EnrichmentInv'
  <2>1. UNCHANGED <<work, sidecar, embedded, records, attempt, edits, torn>>
    BY <1>2 DEF Request, Reconcile, Ask, Queue!Enqueue
  <2>2. QED
    BY <2>1, AskSound
<1>3. ASSUME NEW j \in Jobs, CooldownEnds(j)
      PROVE  EnrichmentInv'
  BY <1>3, CooldownSound
<1>4. ASSUME NEW s \in Sidecars, UserWrites(s) \/ UserDeletes(s)
      PROVE  EnrichmentInv'
  BY <1>4, EditSound
<1>5. CASE Stop
  BY <1>5, StopSound
<1>6. CASE Start \/ Tick \/ UNCHANGED vars
  <2>1. UNCHANGED <<work, sidecar, embedded, records, attempt, edits, torn>>
    BY <1>6 DEF Start, Tick, vars, queue, Queue!Start, Queue!StartScanOnce, Queue!Tick
  <2>2. QED
    BY <2>1, AskSound
<1>7. QED
  BY <1>1, <1>2, <1>3, <1>4, <1>5, <1>6 DEF Next

(* The inductive invariant of the attempts, next to that of the queue: a   *)
(* job has one holder, who knows its record, and what may be written has   *)
(* been allowed.                                                           *)
THEOREM EnrichmentInvariant == Spec => [](EnrichmentInv /\ Exclusive)
<1>1. Init /\ QueueProof!QueueInv => EnrichmentInv
  BY InitSound
<1>2. EnrichmentInv /\ Exclusive /\ Exclusive' /\ [Next]_vars => EnrichmentInv'
  BY StepSound
<1>3. QueueProof!QueueInv => Exclusive
  BY QueueExcludes
<1>4. QED
  BY <1>1, <1>2, <1>3, QueueIsSound, PTL DEF Spec

-----------------------------------------------------------------------------
(* Every state of the composition is well formed: an attempt exists for a  *)
(* job that is worked on, and only for one, and a sidecar is written with  *)
(* lyrics only.                                                            *)
THEOREM TypeCorrect == Spec => []TypeOK
<1>1. EnrichmentInv => TypeOK
  BY DEF EnrichmentInv
<1>2. QED
  BY <1>1, EnrichmentInvariant, PTL

(* However attempts, interruptions, edits and the jobs of tracks that      *)
(* share a sidecar interleave, Versarr can tell what it wrote: provenance  *)
(* holds the text or is about to, unless the attempt was cut off between.  *)
THEOREM OwnSidecarsAreKnown == Spec => []OwnSidecarIsKnown
<1>1. EnrichmentInv /\ Exclusive => OwnSidecarIsKnown
  <2> SUFFICES ASSUME EnrichmentInv, Exclusive, NEW s \in Sidecars, Own(s)
               PROVE  \/ s \in torn
                      \/ \E j \in Jobs : /\ SidecarOf[j] = s
                                        /\ provenance[j] # NULL
                                        /\ provenance[j].text = sidecar[s].text
                      \/ \E w \in Workers : /\ In(w, "record")
                                           /\ Path(w) = s
                                           /\ attempt[w].text = sidecar[s].text
    BY DEF OwnSidecarIsKnown, Own
  <2>1. Known(s)
    BY DEF EnrichmentInv, OwnSidecarIsKept
  <2>2. \A w \in Workers : attempt[w] # NULL => up
    BY DEF Exclusive, EnrichmentInv, TypeOK
  <2>3. QED
    BY <2>1, <2>2 DEF Known, Keeps, WillRecord, In
<1>2. QED
  BY <1>1, EnrichmentInvariant, PTL

(* The only step that puts a text of Versarr's in place is a write, of an  *)
(* attempt that is allowed it.                                             *)
LEMMA WritersAreAllowed ==
  ASSUME EnrichmentInv, Exclusive, [Next]_vars, NEW s \in Sidecars, WrittenNow(s)
  PROVE  \E w \in Workers : /\ Writing(w, s)
                            /\ attempt[w] \in Attempt /\ Job(w) \in Jobs
                            /\ KnowsRecord(w) /\ Allowed(w)
                            /\ attempt[w].hash # NULL <=> attempt[w].sidecar
<1>1. sidecar'[s] # sidecar[s] /\ sidecar'[s] # NULL /\ sidecar'[s].by = "versarr"
  BY DEF WrittenNow
<1>2. ASSUME NEW r \in Sidecars, UserWrites(r) \/ UserDeletes(r)
      PROVE  FALSE
  <2>1. PICK file \in {f \in File : f.by = "user"} \cup {NULL} : Edit(r, file)
    BY <1>2 DEF UserWrites, UserDeletes, File
  <2>2. QED
    BY <1>1, <2>1 DEF Edit, EnrichmentInv, TypeOK
<1>3. PICK w \in Workers : Write(w)
  BY <1>1, <1>2 DEF Next, Step, Request, Reconcile, Ask, Lease, Snapshot, ReadHash, DecideWhat, Fetch,
     Record, Error, Finish, Stop, Start, Tick, CooldownEnds, vars
<1>4. /\ attempt[w] \in Attempt /\ Sound(w) /\ attempt[w] # NULL /\ attempt[w].phase = "write"
      /\ In(w, "write") /\ Job(w) \in Jobs /\ Path(w) \in Sidecars
  BY <1>3, AttemptFacts DEF Write, In
<1>5. Path(w) = s
  BY <1>1, <1>3, <1>4 DEF Write, EnrichmentInv, TypeOK
<1>6. attempt'[w] # attempt[w]
  <2>1. PICK a \in {[attempt[w] EXCEPT !.phase = "record"],
                    [attempt[w] EXCEPT !.phase = "finish", !.outcome = "retry_file"]} :
          attempt' = [attempt EXCEPT ![w] = a]
    BY <1>3 DEF Write, Goto, Ends
  <2>2. a.phase # "write"
    BY <1>4 DEF Attempt
  <2>3. attempt'[w] = a
    BY <2>1 DEF EnrichmentInv, TypeOK
  <2>4. QED
    BY <1>4, <2>2, <2>3
<1>7. QED
  BY <1>4, <1>5, <1>6 DEF Writing, Sound

(* A text the user has put at a sidecar path is replaced only by a job     *)
(* with consent to do so, or by one that had read the sidecar before the   *)
(* user put it there: however long the attempt takes, and whoever else     *)
(* works, edits, deletes or restarts meanwhile.                            *)
THEOREM UserTextStays == Spec => UserTextIsSafe
<1>1. ASSUME EnrichmentInv, Exclusive, [Next]_vars, NEW s \in Sidecars, WrittenNow(s), UserFile(s)
      PROVE  \E w \in Workers :
               /\ Writing(w, s)
               /\ \/ attempt[w].hash # sidecar[s].text
                  \/ Permits(work[w].flags, Job(w), sidecar[s].text)
  <2>1. PICK w \in Workers : /\ Writing(w, s) /\ KnowsRecord(w) /\ Allowed(w)
                             /\ attempt[w].hash # NULL <=> attempt[w].sidecar
    BY <1>1, WritersAreAllowed
  <2>2. sidecar[s].text # NULL
    BY <1>1, EnrichmentAssumption DEF UserFile, EnrichmentInv, TypeOK, File
  <2>3. ASSUME attempt[w].hash = sidecar[s].text
        PROVE  Permits(work[w].flags, Job(w), sidecar[s].text)
    BY <2>1, <2>2, <2>3 DEF Permits, KnowsRecord, Allowed
  <2>4. QED
    BY <2>1, <2>3
<1>2. EnrichmentInv /\ Exclusive /\ [Next]_vars =>
        [\A s \in Sidecars : WrittenNow(s) /\ UserFile(s) =>
           \E w \in Workers :
             /\ Writing(w, s)
             /\ \/ attempt[w].hash # sidecar[s].text
                \/ Permits(work[w].flags, Job(w), sidecar[s].text)]_vars
  BY <1>1
<1>3. QED
  BY <1>2, EnrichmentInvariant, PTL DEF Spec, UserTextIsSafe

(* A sidecar appears where a recorded one was removed only by force, or    *)
(* when the removal came after the attempt had seen it; and never beside   *)
(* embedded lyrics.                                                        *)
THEOREM AbsenceStays == Spec => AbsenceIsRespected
<1>1. ASSUME EnrichmentInv, Exclusive, [Next]_vars, NEW s \in Sidecars, WrittenNow(s), sidecar[s] = NULL
      PROVE  \E w \in Workers :
               /\ Writing(w, s)
               /\ attempt[w].sidecar \/ provenance[Job(w)] = NULL \/ "force" \in work[w].flags
               /\ attempt[w].sidecar \/ ~embedded[Job(w)]
  <2>1. PICK w \in Workers : Writing(w, s) /\ KnowsRecord(w) /\ Allowed(w)
    BY <1>1, WritersAreAllowed
  <2>2. QED
    BY <2>1 DEF KnowsRecord, Allowed
<1>2. EnrichmentInv /\ Exclusive /\ [Next]_vars =>
        [\A s \in Sidecars : WrittenNow(s) /\ sidecar[s] = NULL =>
           \E w \in Workers :
             /\ Writing(w, s)
             /\ attempt[w].sidecar \/ provenance[Job(w)] = NULL \/ "force" \in work[w].flags
             /\ attempt[w].sidecar \/ ~embedded[Job(w)]]_vars
  BY <1>1
<1>3. QED
  BY <1>2, EnrichmentInvariant, PTL DEF Spec, AbsenceIsRespected

=============================================================================
