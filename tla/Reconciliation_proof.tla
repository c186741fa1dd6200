------------------------ MODULE Reconciliation_proof ------------------------
(***************************************************************************)
(* Proofs about the comparison of a root with the stored state, for any    *)
(* set of files and of callers, and any number of changes and faults.      *)
(*                                                                         *)
(* That a scan misses no file needs three facts more than its statement:   *)
(* stamps on record are of the past (RecordsKnow), so that a change makes  *)
(* every snapshot and every attempt under way an old one; an attempt never *)
(* replaces a snapshot of the file as it is by an older one                *)
(* (AttemptsKnow); and what a scan has read, of a file that has since been *)
(* left alone, is no newer than what is on record (ScansKnow).             *)
(***************************************************************************)
EXTENDS Reconciliation, TLAPS

USE ReconciliationAssumption, NullAssumption

-----------------------------------------------------------------------------
RecordsKnow ==
  /\ \A p \in Paths : file[p] # NULL => file[p] <= acts
  /\ \A p \in Paths : snap[p] # NULL => snap[p].stamp <= acts

AttemptKnows(p) ==
  work[p] # NULL /\ work[p].stage \in {"record", "decide"} =>
    /\ work[p].stamp \in 1 .. acts
    /\ Current(p) => work[p].stamp = file[p]
    /\ work[p].stage = "decide" => snap[p] # NULL /\ snap[p].stamp = work[p].stamp

AttemptsKnow == \A p \in Paths : AttemptKnows(p)

ScanKnows(s) ==
  scan[s] # NULL => \A p \in scan[s].still :
    /\ mounted /\ file[p] # NULL /\ p \in scan[s].listed
    /\ scan[s].stage = "facts" /\ scan[s].snaps[p] # NULL /\ scan[s].snaps[p].stamp = file[p]
         => Current(p)
    /\ scan[s].stage = "queue" => p \in scan[s].todo \/ Covered(p)

ScansKnow == \A s \in Scans : ScanKnows(s)

ReconciliationInv == TypeOK /\ RecordsKnow /\ AttemptsKnow /\ ScansKnow

-----------------------------------------------------------------------------
(* Disturb takes files out of the history of each scan, nothing else.      *)
LEMMA DisturbForgets ==
  ASSUME TypeOK, NEW D \in SUBSET Paths, Disturb(D)
  PROVE  /\ scan' \in [Scans -> Scan \cup {NULL}]
         /\ \A s \in Scans : scan'[s] # NULL =>
              /\ scan[s] # NULL
              /\ scan'[s] = [scan[s] EXCEPT !.still = @ \ D]
<1>1. \A s \in Scans : scan[s] # NULL => [scan[s] EXCEPT !.still = @ \ D] \in Scan
  BY DEF TypeOK, Scan
<1>. QED BY <1>1 DEF TypeOK, Disturb

(* What a scan knows stays true while the scan is left alone, apart from   *)
(* its history, and the files in that keep what makes it true.             *)
LEMMA ScanKeeps ==
  ASSUME NEW s \in Scans, ScanKnows(s),
         scan'[s] # NULL =>
           /\ scan[s] # NULL
           /\ scan'[s].stage = scan[s].stage
           /\ scan'[s].listed = scan[s].listed
           /\ scan'[s].snaps = scan[s].snaps
           /\ scan'[s].todo = scan[s].todo
           /\ scan'[s].still \subseteq scan[s].still
           /\ \A p \in scan'[s].still :
                /\ mounted' = mounted
                /\ file'[p] = file[p]
                /\ Current(p) => Current(p)'
                /\ Covered(p) => Covered(p)'
  PROVE  ScanKnows(s)'
BY DEF ScanKnows

(* The same of all scans, when users or faults disturb some files          *)
LEMMA DisturbedScansKeep ==
  ASSUME TypeOK, ScansKnow, NEW D \in SUBSET Paths, Disturb(D),
         \A p \in Paths \ D :
           /\ mounted' = mounted
           /\ file'[p] = file[p]
           /\ Current(p) => Current(p)'
           /\ Covered(p) => Covered(p)'
  PROVE  ScansKnow'
<1> SUFFICES ASSUME NEW s \in Scans PROVE ScanKnows(s)'
  BY DEF ScansKnow
<1>1. CASE scan'[s] = NULL
  BY <1>1 DEF ScanKnows
<1>2. CASE scan'[s] # NULL
  <2>1. scan[s] # NULL /\ scan'[s] = [scan[s] EXCEPT !.still = @ \ D]
    BY <1>2, DisturbForgets
  <2>2. scan[s] \in Scan
    BY <2>1 DEF TypeOK
  <2>3. /\ scan'[s].stage = scan[s].stage
        /\ scan'[s].listed = scan[s].listed
        /\ scan'[s].snaps = scan[s].snaps
        /\ scan'[s].todo = scan[s].todo
        /\ scan'[s].still = scan[s].still \ D
    BY <2>1, <2>2 DEF Scan
  <2>4. scan[s].still \subseteq Paths
    BY <2>2 DEF Scan
  <2>5. ScanKnows(s)
    BY DEF ScansKnow
  <2>. QED BY <2>1, <2>3, <2>4, <2>5, ScanKeeps
<1>. QED BY <1>1, <1>2

(* and when nothing disturbs them                                          *)
LEMMA QuietScansKeep ==
  ASSUME TypeOK, ScansKnow, UNCHANGED <<file, mounted, scan>>,
         \A p \in Paths : (Current(p) => Current(p)') /\ (Covered(p) => Covered(p)')
  PROVE  ScansKnow'
<1> SUFFICES ASSUME NEW s \in Scans PROVE ScanKnows(s)'
  BY DEF ScansKnow
<1>1. ScanKnows(s)
  BY DEF ScansKnow
<1>2. scan[s] # NULL => scan[s].still \subseteq Paths
  BY DEF TypeOK, Scan
<1>. QED BY <1>1, <1>2, ScanKeeps

(* A step of one scan leaves the others what they know.                    *)
LEMMA OtherScansKeep ==
  ASSUME TypeOK, ScansKnow, UNCHANGED <<file, mounted>>,
         NEW s \in Scans, ScanKnows(s)',
         \A r \in Scans \ {s} : scan'[r] = scan[r],
         \A p \in Paths : (Current(p) => Current(p)') /\ (Covered(p) => Covered(p)')
  PROVE  ScansKnow'
<1> SUFFICES ASSUME NEW r \in Scans \ {s} PROVE ScanKnows(r)'
  BY DEF ScansKnow
<1>1. ScanKnows(r)
  BY DEF ScansKnow
<1>2. scan[r] # NULL => scan[r].still \subseteq Paths
  BY DEF TypeOK, Scan
<1>. QED BY <1>1, <1>2, ScanKeeps

(* Queueing a file loses none.                                             *)
LEMMA EnqueueCovers ==
  ASSUME TypeOK, NEW p \in Paths, Enqueue(p), UNCHANGED <<file, snap>>
  PROVE  /\ job' \in [Paths -> JobStates]
         /\ dirty' \subseteq Paths
         /\ \A q \in Paths : work'[q] # NULL <=> job'[q] = "processing"
         /\ Covered(p)'
         /\ \A q \in Paths : (Current(q) => Current(q)') /\ (Covered(q) => Covered(q)')
<1>1. /\ job' = [job EXCEPT ![p] = IF @ = "processing" THEN @ ELSE "pending"]
      /\ dirty' = IF job[p] = "processing" THEN dirty \cup {p} ELSE dirty \ {p}
      /\ work' = work
  BY DEF Enqueue
<1>2. job \in [Paths -> JobStates] /\ dirty \subseteq Paths
      /\ \A q \in Paths : work[q] # NULL <=> job[q] = "processing"
  BY DEF TypeOK
<1>3. job' \in [Paths -> JobStates] /\ dirty' \subseteq Paths
  BY <1>1, <1>2 DEF JobStates
<1>4. \A q \in Paths : work'[q] # NULL <=> job'[q] = "processing"
  BY <1>1, <1>2
<1>5. \A q \in Paths : Current(q) => Current(q)'
  BY DEF Current
<1>6. Covered(p)'
  BY <1>1, <1>2 DEF Covered
<1>7. ASSUME NEW q \in Paths, q # p, Covered(q) PROVE Covered(q)'
  BY <1>1, <1>2, <1>5, <1>7 DEF Covered
<1>. QED BY <1>3, <1>4, <1>5, <1>6, <1>7

-----------------------------------------------------------------------------
(* What users do                                                           *)
LEMMA ChangeKeeps ==
  ASSUME ReconciliationInv, NEW p \in Paths, Change(p)
  PROVE  ReconciliationInv'
<1> USE DEF ReconciliationInv
<1>1. /\ acts < MaxActs /\ acts' = acts + 1 /\ mounted
      /\ file' = [file EXCEPT ![p] = acts + 1]
      /\ heard' = heard \cup {p}
      /\ Disturb({p})
      /\ UNCHANGED <<side, mounted, snap, job, dirty, work, faults>>
  BY DEF Change, Act, queue
<1>2. TypeOK'
  BY <1>1, DisturbForgets DEF TypeOK, Stamps
<1>3. \A q \in Paths : file'[q] = IF q = p THEN acts + 1 ELSE file[q]
  BY <1>1 DEF TypeOK
<1>4. RecordsKnow'
  <2>1. \A q \in Paths : file'[q] # NULL => file'[q] <= acts'
    BY <1>1, <1>3 DEF TypeOK, RecordsKnow, Stamps
  <2>2. \A q \in Paths : snap[q] # NULL => snap[q].stamp \in Nat
    BY DEF TypeOK, Snapshot, Stamps
  <2>3. \A q \in Paths : snap'[q] # NULL => snap'[q].stamp <= acts'
    BY <1>1, <2>2 DEF TypeOK, RecordsKnow
  <2>. QED BY <2>1, <2>3 DEF RecordsKnow
<1>5. ~Current(p)'
  <2>1. snap[p] # NULL => snap[p].stamp \in Nat /\ snap[p].stamp <= acts
    BY DEF TypeOK, RecordsKnow, Snapshot, Stamps
  <2>. QED BY <1>1, <1>3, <2>1 DEF Current, TypeOK
<1>6. \A q \in Paths \ {p} : (Current(q) <=> Current(q)') /\ (Covered(q) => Covered(q)')
  BY <1>1, <1>3 DEF Current, Covered
<1>7. AttemptsKnow'
  <2> SUFFICES ASSUME NEW q \in Paths PROVE AttemptKnows(q)'
    BY DEF AttemptsKnow
  <2>1. AttemptKnows(q)
    BY DEF AttemptsKnow
  <2>. QED BY <1>1, <1>3, <1>5, <1>6, <2>1 DEF AttemptKnows, TypeOK
<1>8. ScansKnow'
  <2>1. \A q \in Paths \ {p} : mounted' = mounted /\ file'[q] = file[q]
    BY <1>1, <1>3
  <2>. QED BY <1>1, <1>6, <2>1, DisturbedScansKeep, {p} \in SUBSET Paths
<1>. QED BY <1>2, <1>4, <1>7, <1>8

LEMMA RemoveKeeps ==
  ASSUME ReconciliationInv, NEW p \in Paths, Remove(p)
  PROVE  ReconciliationInv'
<1> USE DEF ReconciliationInv
<1>1. /\ acts < MaxActs /\ acts' = acts + 1
      /\ file' = [file EXCEPT ![p] = NULL]
      /\ Disturb({p})
      /\ UNCHANGED <<side, mounted, heard, snap, job, dirty, work, faults>>
  BY DEF Remove, Act, queue
<1>2. TypeOK'
  BY <1>1, DisturbForgets DEF TypeOK
<1>3. \A q \in Paths : file'[q] = IF q = p THEN NULL ELSE file[q]
  BY <1>1 DEF TypeOK
<1>4. RecordsKnow'
  <2>1. \A q \in Paths : file[q] # NULL => file[q] \in Nat
    BY DEF TypeOK, Stamps
  <2>2. \A q \in Paths : snap[q] # NULL => snap[q].stamp \in Nat
    BY DEF TypeOK, Snapshot, Stamps
  <2>. QED BY <1>1, <1>3, <2>1, <2>2 DEF TypeOK, RecordsKnow
<1>5. ~Current(p)'
  <2>1. snap[p] # NULL => snap[p].stamp \in Nat
    BY DEF TypeOK, Snapshot, Stamps
  <2>. QED BY <1>1, <1>3, <2>1 DEF Current
<1>6. \A q \in Paths \ {p} : (Current(q) <=> Current(q)') /\ (Covered(q) => Covered(q)')
  BY <1>1, <1>3 DEF Current, Covered
<1>7. AttemptsKnow'
  <2> SUFFICES ASSUME NEW q \in Paths PROVE AttemptKnows(q)'
    BY DEF AttemptsKnow
  <2>1. AttemptKnows(q)
    BY DEF AttemptsKnow
  <2>. QED BY <1>1, <1>3, <1>5, <1>6, <2>1 DEF AttemptKnows, TypeOK
<1>8. ScansKnow'
  <2>1. \A q \in Paths \ {p} : mounted' = mounted /\ file'[q] = file[q]
    BY <1>1, <1>3
  <2>. QED BY <1>1, <1>6, <2>1, DisturbedScansKeep, {p} \in SUBSET Paths
<1>. QED BY <1>2, <1>4, <1>7, <1>8

(* What concerns neither files, records nor attempts                       *)
LEMMA OutsideKeeps ==
  ASSUME ReconciliationInv, NEW D \in SUBSET Paths, Disturb(D), Act,
         UNCHANGED <<file, heard, snap, job, dirty, work, faults>>,
         side' \in [Paths -> BOOLEAN], mounted' \in BOOLEAN,
         D # Paths => mounted' = mounted
  PROVE  ReconciliationInv'
<1> USE DEF ReconciliationInv
<1>1. TypeOK'
  BY DisturbForgets DEF TypeOK, Act
<1>2. \A q \in Paths : (Current(q) <=> Current(q)') /\ (Covered(q) => Covered(q)')
  BY DEF Current, Covered
<1>3. RecordsKnow'
  <2>1. \A q \in Paths : file[q] # NULL => file[q] \in Nat
    BY DEF TypeOK, Stamps
  <2>2. \A q \in Paths : snap[q] # NULL => snap[q].stamp \in Nat
    BY DEF TypeOK, Snapshot, Stamps
  <2>. QED BY <2>1, <2>2 DEF TypeOK, RecordsKnow, Act
<1>4. AttemptsKnow'
  <2> SUFFICES ASSUME NEW q \in Paths PROVE AttemptKnows(q)'
    BY DEF AttemptsKnow
  <2>1. AttemptKnows(q)
    BY DEF AttemptsKnow
  <2>. QED BY <1>2, <2>1 DEF AttemptKnows, TypeOK, Act
<1>5. \A q \in Paths \ D : mounted' = mounted /\ file'[q] = file[q]
  OBVIOUS
<1>6. ScansKnow'
  BY <1>2, <1>5, DisturbedScansKeep
<1>. QED BY <1>1, <1>3, <1>4, <1>6

LEMMA EditKeeps ==
  ASSUME ReconciliationInv, NEW p \in Paths, EditSidecar(p)
  PROVE  ReconciliationInv'
<1>1. /\ Act /\ Disturb({p})
      /\ side' = [side EXCEPT ![p] = ~@]
      /\ UNCHANGED <<file, mounted, heard, snap, job, dirty, work, faults>>
  BY DEF EditSidecar, queue
<1>2. side' \in [Paths -> BOOLEAN] /\ mounted' \in BOOLEAN
  BY <1>1 DEF ReconciliationInv, TypeOK
<1>. QED BY <1>1, <1>2, OutsideKeeps, {p} \in SUBSET Paths

LEMMA MountKeeps ==
  ASSUME ReconciliationInv, MountOrUnmount
  PROVE  ReconciliationInv'
<1>1. /\ Act /\ Disturb(Paths)
      /\ mounted' = ~mounted
      /\ UNCHANGED <<file, side, heard, snap, job, dirty, work, faults>>
  BY DEF MountOrUnmount, queue
<1>2. side' \in [Paths -> BOOLEAN] /\ mounted' \in BOOLEAN
  BY <1>1 DEF ReconciliationInv, TypeOK
<1>. QED BY <1>1, <1>2, OutsideKeeps, Paths \in SUBSET Paths

-----------------------------------------------------------------------------
(* The queue, left to itself                                               *)
LEMMA NoticeKeeps ==
  ASSUME ReconciliationInv, NEW p \in Paths, Notice(p)
  PROVE  ReconciliationInv'
<1> USE DEF ReconciliationInv
<1>1. /\ heard' = heard \ {p} /\ Enqueue(p)
      /\ UNCHANGED <<file, side, mounted, acts, snap, scan, faults>>
  BY DEF Notice
<1>2. work' = work
  BY <1>1 DEF Enqueue
<1>3. TypeOK'
  BY <1>1, <1>2, EnqueueCovers DEF TypeOK
<1>4. RecordsKnow'
  BY <1>1 DEF RecordsKnow
<1>5. AttemptsKnow'
  BY <1>1, <1>2 DEF AttemptsKnow, AttemptKnows, Current
<1>6. ScansKnow'
  BY <1>1, EnqueueCovers, QuietScansKeep
<1>. QED BY <1>3, <1>4, <1>5, <1>6

LEMMA AgeKeeps ==
  ASSUME ReconciliationInv, NEW p \in Paths, Age(p)
  PROVE  ReconciliationInv'
<1> USE DEF ReconciliationInv
<1>1. /\ job[p] = "settled"
      /\ job' = [job EXCEPT ![p] = "stale"]
      /\ UNCHANGED <<file, side, mounted, heard, acts, snap, dirty, work, scan, faults>>
  BY DEF Age, world
<1>2. TypeOK'
  BY <1>1 DEF TypeOK, JobStates
<1>3. RecordsKnow' /\ AttemptsKnow'
  BY <1>1 DEF RecordsKnow, AttemptsKnow, AttemptKnows, Current
<1>4. \A q \in Paths : (Current(q) => Current(q)') /\ (Covered(q) => Covered(q)')
  BY <1>1 DEF Current, Covered, TypeOK
<1>5. ScansKnow'
  BY <1>1, <1>4, QuietScansKeep
<1>. QED BY <1>2, <1>3, <1>5

-----------------------------------------------------------------------------
(* Attempts.  The work of a file changes alone, with its job.              *)
LEMMA LeaseKeeps ==
  ASSUME ReconciliationInv, NEW p \in Paths, Lease(p)
  PROVE  ReconciliationInv'
<1> USE DEF ReconciliationInv
<1> DEFINE begun == [stage |-> "read", stamp |-> NULL, side |-> FALSE]
<1>1. /\ job[p] = "pending"
      /\ job' = [job EXCEPT ![p] = "processing"]
      /\ work' = [work EXCEPT ![p] = begun]
      /\ UNCHANGED <<file, side, mounted, heard, acts, snap, dirty, scan, faults>>
  BY DEF Lease, world
<1>2. begun \in Attempt /\ begun.stage = "read"
  BY DEF Attempt
<1> HIDE DEF begun
<1>3. begun # NULL
  BY <1>2
<1>4. TypeOK'
  <2>1. job' \in [Paths -> JobStates] /\ work' \in [Paths -> Attempt \cup {NULL}]
    BY <1>1, <1>2 DEF TypeOK, JobStates
  <2>2. \A q \in Paths : work'[q] # NULL <=> job'[q] = "processing"
    BY <1>1, <1>3 DEF TypeOK
  <2>. QED BY <1>1, <2>1, <2>2 DEF TypeOK
<1>5. RecordsKnow'
  BY <1>1 DEF RecordsKnow
<1>6. AttemptsKnow'
  <2> SUFFICES ASSUME NEW q \in Paths PROVE AttemptKnows(q)'
    BY DEF AttemptsKnow
  <2>1. AttemptKnows(q)
    BY DEF AttemptsKnow
  <2>2. work'[q] = IF q = p THEN begun ELSE work[q]
    BY <1>1 DEF TypeOK
  <2>. QED BY <1>1, <1>2, <2>1, <2>2 DEF AttemptKnows, Current
<1>7. \A q \in Paths : (Current(q) => Current(q)') /\ (Covered(q) => Covered(q)')
  BY <1>1, <1>2, <1>3 DEF Current, Covered, TypeOK
<1>8. ScansKnow'
  BY <1>1, <1>7, QuietScansKeep
<1>. QED BY <1>4, <1>5, <1>6, <1>8

LEMMA ReadKeeps ==
  ASSUME ReconciliationInv, NEW p \in Paths, Read(p)
  PROVE  ReconciliationInv'
<1> USE DEF ReconciliationInv
<1> DEFINE seen == IF Present(p) THEN [stage |-> "record", stamp |-> file[p], side |-> side[p]]
                   ELSE [work[p] EXCEPT !.stage = "missing"]
<1>1. /\ work[p] # NULL /\ work[p].stage = "read"
      /\ work' = [work EXCEPT ![p] = seen]
      /\ UNCHANGED <<file, side, mounted, heard, acts, snap, job, dirty, scan, faults>>
  BY DEF Read, At, world
<1>2. work[p] \in Attempt
  BY <1>1 DEF TypeOK
<1>3. /\ seen \in Attempt
      /\ Present(p) => seen.stage = "record" /\ seen.stamp = file[p]
      /\ ~Present(p) => seen.stage = "missing"
  BY <1>2 DEF Attempt, TypeOK
<1> HIDE DEF seen
<1>4. seen # NULL
  BY <1>3
<1>5. TypeOK'
  <2>1. work' \in [Paths -> Attempt \cup {NULL}]
    BY <1>1, <1>3 DEF TypeOK
  <2>2. \A q \in Paths : work'[q] # NULL <=> job'[q] = "processing"
    BY <1>1, <1>4 DEF TypeOK
  <2>. QED BY <1>1, <2>1, <2>2 DEF TypeOK
<1>6. RecordsKnow'
  BY <1>1 DEF RecordsKnow
<1>7. \A q \in Paths : work'[q] = IF q = p THEN seen ELSE work[q]
  BY <1>1 DEF TypeOK
<1>8. AttemptsKnow'
  <2> SUFFICES ASSUME NEW q \in Paths PROVE AttemptKnows(q)'
    BY DEF AttemptsKnow
  <2>1. AttemptKnows(q)
    BY DEF AttemptsKnow
  <2>2. CASE q # p
    BY <1>1, <1>7, <2>1, <2>2 DEF AttemptKnows, Current
  <2>3. CASE q = p /\ Present(p)
    <3>1. file[p] \in 1 .. acts
      BY <2>3 DEF Present, TypeOK, RecordsKnow, Stamps
    <3>. QED BY <1>1, <1>3, <1>7, <2>3, <3>1 DEF AttemptKnows, Current
  <2>4. CASE q = p /\ ~Present(p)
    BY <1>1, <1>3, <1>7, <2>4 DEF AttemptKnows
  <2>. QED BY <2>2, <2>3, <2>4
<1>9. ScansKnow'
  <2> SUFFICES ASSUME NEW s \in Scans PROVE ScanKnows(s)'
    BY DEF ScansKnow
  <2>1. ScanKnows(s)
    BY DEF ScansKnow
  <2>2. scan[s] # NULL => scan[s].still \subseteq Paths
    BY DEF TypeOK, Scan
  <2>3. ASSUME scan[s] # NULL, NEW q \in scan[s].still, Covered(q) PROVE Covered(q)'
    <3>1. q \in Paths /\ Present(q)
      BY <2>1, <2>2, <2>3 DEF ScanKnows, Present
    <3>2. CASE q # p
      BY <1>1, <1>7, <2>3, <3>1, <3>2 DEF Covered, Current
    <3>3. CASE q = p
      BY <1>1, <1>3, <1>4, <1>7, <2>3, <3>1, <3>3 DEF Covered, Current
    <3>. QED BY <3>2, <3>3
  <2>4. \A q \in Paths : Current(q) => Current(q)'
    BY <1>1 DEF Current
  <2>. QED BY <1>1, <2>1, <2>2, <2>3, <2>4, ScanKeeps
<1>. QED BY <1>5, <1>6, <1>8, <1>9

LEMMA RecordKeeps ==
  ASSUME ReconciliationInv, NEW p \in Paths, Record(p)
  PROVE  ReconciliationInv'
<1> USE DEF ReconciliationInv
<1> DEFINE noted == Recorded(p)
<1> DEFINE next == [work[p] EXCEPT !.stage = "decide"]
<1>1. /\ work[p] # NULL /\ work[p].stage = "record"
      /\ snap' = [snap EXCEPT ![p] = noted]
      /\ work' = [work EXCEPT ![p] = next]
      /\ UNCHANGED <<file, side, mounted, heard, acts, job, dirty, scan, faults>>
  BY DEF Record, At, world
<1>2. work[p] \in Attempt
  BY <1>1 DEF TypeOK
<1>3. /\ work[p].stamp \in 1 .. acts
      /\ Current(p) => work[p].stamp = file[p]
  BY <1>1 DEF AttemptsKnow, AttemptKnows
<1>4. noted \in Snapshot /\ noted.stamp = work[p].stamp
  BY <1>2, <1>3 DEF Recorded, Snapshot, Attempt, Stamps, TypeOK
<1>5. next \in Attempt /\ next.stage = "decide" /\ next.stamp = work[p].stamp
  BY <1>2 DEF Attempt
<1> HIDE DEF noted, next
<1>6. noted # NULL /\ next # NULL
  BY <1>4, <1>5
<1>7. /\ \A q \in Paths : snap'[q] = IF q = p THEN noted ELSE snap[q]
      /\ \A q \in Paths : work'[q] = IF q = p THEN next ELSE work[q]
  BY <1>1 DEF TypeOK
<1>8. TypeOK'
  <2>1. snap' \in [Paths -> Snapshot \cup {NULL}] /\ work' \in [Paths -> Attempt \cup {NULL}]
    BY <1>1, <1>4, <1>5 DEF TypeOK
  <2>2. \A q \in Paths : work'[q] # NULL <=> job'[q] = "processing"
    BY <1>1, <1>6, <1>7 DEF TypeOK
  <2>. QED BY <1>1, <2>1, <2>2 DEF TypeOK
<1>9. RecordsKnow'
  BY <1>1, <1>3, <1>4, <1>7 DEF RecordsKnow, TypeOK
<1>10. AttemptsKnow'
  <2> SUFFICES ASSUME NEW q \in Paths PROVE AttemptKnows(q)'
    BY DEF AttemptsKnow
  <2>1. AttemptKnows(q)
    BY DEF AttemptsKnow
  <2>. QED BY <1>1, <1>3, <1>4, <1>5, <1>6, <1>7, <2>1 DEF AttemptKnows, Current
<1>11. \A q \in Paths : (Current(q) => Current(q)') /\ (Covered(q) => Covered(q)')
  BY <1>1, <1>3, <1>4, <1>5, <1>6, <1>7 DEF Current, Covered
<1>12. ScansKnow'
  BY <1>1, <1>11, QuietScansKeep
<1>. QED BY <1>8, <1>9, <1>10, <1>12

LEMMA WriteKeeps ==
  ASSUME ReconciliationInv, NEW p \in Paths, Write(p)
  PROVE  ReconciliationInv'
<1> USE DEF ReconciliationInv
<1> DEFINE next == [work[p] EXCEPT !.side = TRUE]
<1>1. /\ work[p] # NULL /\ work[p].stage = "decide"
      /\ side' = [side EXCEPT ![p] = TRUE]
      /\ work' = [work EXCEPT ![p] = next]
      /\ UNCHANGED <<file, mounted, heard, acts, snap, job, dirty, scan, faults>>
  BY DEF Write, At
<1>2. work[p] \in Attempt
  BY <1>1 DEF TypeOK
<1>3. next \in Attempt /\ next.stage = work[p].stage /\ next.stamp = work[p].stamp
  BY <1>2 DEF Attempt
<1> HIDE DEF next
<1>4. next # NULL
  BY <1>3
<1>5. \A q \in Paths : work'[q] = IF q = p THEN next ELSE work[q]
  BY <1>1 DEF TypeOK
<1>6. TypeOK'
  <2>1. side' \in [Paths -> BOOLEAN] /\ work' \in [Paths -> Attempt \cup {NULL}]
    BY <1>1, <1>3 DEF TypeOK
  <2>2. \A q \in Paths : work'[q] # NULL <=> job'[q] = "processing"
    BY <1>1, <1>4, <1>5 DEF TypeOK
  <2>. QED BY <1>1, <2>1, <2>2 DEF TypeOK
<1>7. RecordsKnow'
  BY <1>1 DEF RecordsKnow
<1>8. AttemptsKnow'
  BY <1>1, <1>3, <1>4, <1>5 DEF AttemptsKnow, AttemptKnows, Current
<1>9. \A q \in Paths : (Current(q) => Current(q)') /\ (Covered(q) => Covered(q)')
  BY <1>1, <1>3, <1>4, <1>5 DEF Current, Covered
<1>10. ScansKnow'
  BY <1>1, <1>9, QuietScansKeep
<1>. QED BY <1>6, <1>7, <1>8, <1>10

(* An attempt that ends leaves its file a snapshot of what it has read;    *)
(* that is an old one only if the file was covered by nothing else.        *)
LEMMA CompleteKeeps ==
  ASSUME ReconciliationInv, NEW p \in Paths, Complete(p)
  PROVE  ReconciliationInv'
<1> USE DEF ReconciliationInv
<1>1. /\ work[p] # NULL /\ work[p].stage = "decide"
      /\ job' = [job EXCEPT ![p] = IF p \in dirty THEN "pending" ELSE "settled"]
      /\ dirty' = dirty \ {p}
      /\ work' = [work EXCEPT ![p] = NULL]
      /\ UNCHANGED <<file, side, mounted, heard, acts, snap, scan, faults>>
  BY DEF Complete, At, world
<1>2. /\ \A q \in Paths : work'[q] = IF q = p THEN NULL ELSE work[q]
      /\ \A q \in Paths \ {p} : job'[q] = job[q]
      /\ job'[p] = IF p \in dirty THEN "pending" ELSE "settled"
  BY <1>1 DEF TypeOK
<1>3. TypeOK'
  <2>1. job' \in [Paths -> JobStates] /\ work' \in [Paths -> Attempt \cup {NULL}]
    BY <1>1 DEF TypeOK, JobStates
  <2>2. \A q \in Paths : work'[q] # NULL <=> job'[q] = "processing"
    BY <1>2 DEF TypeOK
  <2>. QED BY <1>1, <2>1, <2>2 DEF TypeOK
<1>4. RecordsKnow'
  BY <1>1 DEF RecordsKnow
<1>5. AttemptsKnow'
  BY <1>1, <1>2 DEF AttemptsKnow, AttemptKnows, Current
<1>6. snap[p] # NULL /\ snap[p].stamp = work[p].stamp
  BY <1>1 DEF AttemptsKnow, AttemptKnows
<1>7. job[p] = "processing"
  BY <1>1 DEF TypeOK
<1>8. \A q \in Paths : (Current(q) => Current(q)') /\ (Covered(q) => Covered(q)')
  BY <1>1, <1>2, <1>6, <1>7 DEF Current, Covered
<1>9. ScansKnow'
  BY <1>1, <1>8, QuietScansKeep
<1>. QED BY <1>3, <1>4, <1>5, <1>9

(* An attempt that fails is out of the history.                            *)
LEMMA FailuresKeep ==
  ASSUME ReconciliationInv, NEW p \in Paths, work[p] # NULL,
         job' \in {[job EXCEPT ![p] = state] : state \in {"pending", "settled"}},
         work' = [work EXCEPT ![p] = NULL],
         Disturb({p}),
         faults' \in 0 .. MaxFaults,
         UNCHANGED <<file, side, mounted, heard, acts, snap, dirty>>
  PROVE  ReconciliationInv'
<1> USE DEF ReconciliationInv
<1>1. PICK state \in {"pending", "settled"} : job' = [job EXCEPT ![p] = state]
  OBVIOUS
<1>2. \A q \in Paths : /\ work'[q] = IF q = p THEN NULL ELSE work[q]
                       /\ job'[q] = IF q = p THEN state ELSE job[q]
  BY <1>1 DEF TypeOK
<1>3. TypeOK'
  <2>1. job' \in [Paths -> JobStates] /\ work' \in [Paths -> Attempt \cup {NULL}]
    BY <1>1 DEF TypeOK, JobStates
  <2>2. \A q \in Paths : work'[q] # NULL <=> job'[q] = "processing"
    BY <1>2 DEF TypeOK
  <2>3. scan' \in [Scans -> Scan \cup {NULL}]
    BY DisturbForgets, {p} \in SUBSET Paths
  <2>. QED BY <2>1, <2>2, <2>3 DEF TypeOK
<1>4. RecordsKnow'
  BY DEF RecordsKnow
<1>5. AttemptsKnow'
  BY <1>2 DEF AttemptsKnow, AttemptKnows, Current
<1>6. \A q \in Paths \ {p} : (Current(q) => Current(q)') /\ (Covered(q) => Covered(q)')
  BY <1>2 DEF Current, Covered
<1>7. \A q \in Paths \ {p} : mounted' = mounted /\ file'[q] = file[q]
  OBVIOUS
<1>8. ScansKnow'
  BY <1>6, <1>7, DisturbedScansKeep, {p} \in SUBSET Paths
<1>. QED BY <1>3, <1>4, <1>5, <1>8

LEMMA FailKeeps ==
  ASSUME ReconciliationInv, NEW p \in Paths, Fail(p)
  PROVE  ReconciliationInv'
<1>1. /\ work[p] # NULL
      /\ job' = [job EXCEPT ![p] = "settled"]
      /\ work' = [work EXCEPT ![p] = NULL]
      /\ Disturb({p})
      /\ UNCHANGED <<file, side, mounted, heard, acts, snap, dirty, faults>>
  BY DEF Fail, At, world
<1>2. faults' \in 0 .. MaxFaults
  BY <1>1 DEF ReconciliationInv, TypeOK
<1>. QED BY <1>1, <1>2, FailuresKeep

LEMMA ErrorKeeps ==
  ASSUME ReconciliationInv, NEW p \in Paths, Error(p)
  PROVE  ReconciliationInv'
<1>1. /\ work[p] # NULL
      /\ \E state \in {"pending", "settled"} : job' = [job EXCEPT ![p] = state]
      /\ work' = [work EXCEPT ![p] = NULL]
      /\ Disturb({p})
      /\ UNCHANGED <<file, side, mounted, heard, acts, snap, dirty>>
  BY DEF Error, world
<1>2. faults' \in 0 .. MaxFaults
  BY DEF Error, ReconciliationInv, TypeOK
<1>. QED BY <1>1, <1>2, FailuresKeep

-----------------------------------------------------------------------------
(* Scans.  What a step of one scan leaves alone                            *)
LEMMA ScanStepKeeps ==
  ASSUME ReconciliationInv, NEW s \in Scans, NEW next \in Scan \cup {NULL},
         scan' = [scan EXCEPT ![s] = next],
         acts' \in 0 .. MaxActs, acts <= acts', faults' \in 0 .. MaxFaults,
         UNCHANGED <<file, side, mounted, heard, snap, job, dirty, work>>,
         ScanKnows(s)'
  PROVE  ReconciliationInv'
<1> USE DEF ReconciliationInv
<1>1. TypeOK'
  BY DEF TypeOK
<1>2. RecordsKnow'
  <2>1. \A q \in Paths : file[q] # NULL => file[q] \in Nat
    BY DEF TypeOK, Stamps
  <2>2. \A q \in Paths : snap[q] # NULL => snap[q].stamp \in Nat
    BY DEF TypeOK, Snapshot, Stamps
  <2>. QED BY <2>1, <2>2 DEF TypeOK, RecordsKnow
<1>3. AttemptsKnow'
  <2> SUFFICES ASSUME NEW q \in Paths PROVE AttemptKnows(q)'
    BY DEF AttemptsKnow
  <2>1. AttemptKnows(q)
    BY DEF AttemptsKnow
  <2>. QED BY <2>1 DEF AttemptKnows, Current, TypeOK
<1>4. ScansKnow'
  <2>1. \A r \in Scans \ {s} : scan'[r] = scan[r]
    BY DEF TypeOK
  <2>2. \A q \in Paths : (Current(q) => Current(q)') /\ (Covered(q) => Covered(q)')
    BY DEF Current, Covered
  <2>. QED BY <2>1, <2>2, OtherScansKeep
<1>. QED BY <1>1, <1>2, <1>3, <1>4

LEMMA ListKeeps ==
  ASSUME ReconciliationInv, NEW s \in Scans, List(s),
         acts' \in 0 .. MaxActs, acts <= acts', UNCHANGED <<file, side, mounted, heard>>
  PROVE  ReconciliationInv'
<1> DEFINE listed == {p \in Paths : Present(p)}
           begun == [stage  |-> IF s \in FullScans THEN "queue" ELSE "records",
                     listed |-> listed,
                     snaps  |-> [p \in Paths |-> NULL],
                     jobs   |-> [p \in Paths |-> "none"],
                     todo   |-> IF s \in FullScans THEN listed ELSE {},
                     still  |-> listed]
<1>1. /\ scan' = [scan EXCEPT ![s] = begun]
      /\ UNCHANGED <<snap, job, dirty, work, faults>>
  BY DEF List, queue
<1>2. begun \in Scan
  BY DEF Scan, JobStates
<1>3. /\ begun.listed = listed /\ begun.still = listed
      /\ begun.stage = IF s \in FullScans THEN "queue" ELSE "records"
      /\ begun.todo = IF s \in FullScans THEN listed ELSE {}
  OBVIOUS
<1>4. \A p \in listed : mounted /\ file[p] # NULL
  BY DEF Present
<1> HIDE DEF listed, begun
<1>5. scan'[s] = begun
  BY <1>1 DEF ReconciliationInv, TypeOK
<1>6. ScanKnows(s)'
  BY <1>3, <1>4, <1>5 DEF ScanKnows
<1>7. faults' \in 0 .. MaxFaults
  BY <1>1 DEF ReconciliationInv, TypeOK
<1>. QED BY <1>1, <1>2, <1>6, <1>7, ScanStepKeeps

LEMMA BeginKeeps ==
  ASSUME ReconciliationInv, NEW s \in Scans, Pass(s) \/ FullScan(s)
  PROVE  ReconciliationInv'
<1>1. /\ List(s)
      /\ UNCHANGED <<file, side, mounted, heard>>
      /\ acts' = acts \/ (acts < MaxActs /\ acts' = acts + 1)
  BY DEF Pass, FullScan, Act, world
<1>2. acts' \in 0 .. MaxActs /\ acts <= acts'
  BY <1>1 DEF ReconciliationInv, TypeOK
<1>. QED BY <1>1, <1>2, ListKeeps

LEMMA ReadRecordsKeeps ==
  ASSUME ReconciliationInv, NEW s \in Scans, ReadRecords(s)
  PROVE  ReconciliationInv'
<1> DEFINE next == [scan[s] EXCEPT !.stage = "facts", !.snaps = snap, !.jobs = job]
<1>1. /\ scan[s] # NULL
      /\ scan' = [scan EXCEPT ![s].stage = "facts", ![s].snaps = snap, ![s].jobs = job]
      /\ UNCHANGED <<file, side, mounted, heard, acts, snap, job, dirty, work, faults>>
  BY DEF ReadRecords, Scanning, world, queue
<1>2. scan[s] \in Scan
  BY <1>1 DEF ReconciliationInv, TypeOK
<1>3. scan' = [scan EXCEPT ![s] = next]
  BY <1>1 DEF ReconciliationInv, TypeOK
<1>4. next \in Scan
  BY <1>2 DEF Scan, ReconciliationInv, TypeOK
<1>5. /\ next.stage = "facts" /\ next.snaps = snap
      /\ next.listed = scan[s].listed /\ next.still = scan[s].still
  BY <1>2 DEF Scan
<1> HIDE DEF next
<1>6. scan'[s] = next
  BY <1>3 DEF ReconciliationInv, TypeOK
<1>7. ScanKnows(s)
  BY DEF ReconciliationInv, ScansKnow
<1>8. ScanKnows(s)'
  BY <1>1, <1>5, <1>6, <1>7 DEF ScanKnows, Current
<1>9. acts' \in 0 .. MaxActs /\ acts <= acts' /\ faults' \in 0 .. MaxFaults
  BY <1>1 DEF ReconciliationInv, TypeOK
<1>. QED BY <1>1, <1>3, <1>4, <1>8, <1>9, ScanStepKeeps

(* A file that need not be queued is one whose snapshot is of it as it is, *)
(* because what the scan has read is no newer than what is on record.      *)
LEMMA ReadFactsKeeps ==
  ASSUME ReconciliationInv, NEW s \in Scans, ReadFacts(s)
  PROVE  ReconciliationInv'
<1> DEFINE Needed(p) == /\ Present(p)
                        /\ NeedsEvaluation(scan[s].snaps[p], scan[s].jobs[p], file[p], side[p])
           todo == {p \in scan[s].listed : Needed(p)}
           next == [scan[s] EXCEPT !.stage = "queue", !.todo = todo]
<1>1. /\ scan[s] # NULL /\ scan[s].stage = "facts"
      /\ scan' = [scan EXCEPT ![s].stage = "queue", ![s].todo = todo]
      /\ UNCHANGED <<file, side, mounted, heard, acts, snap, job, dirty, work, faults>>
  BY DEF ReadFacts, Scanning, world, queue
<1>2. scan[s] \in Scan
  BY <1>1 DEF ReconciliationInv, TypeOK
<1>3. todo \subseteq Paths
  BY <1>2 DEF Scan
<1>4. ScanKnows(s)
  BY DEF ReconciliationInv, ScansKnow
<1>5. scan[s].still \subseteq Paths
  BY <1>2 DEF Scan
<1>6. \A p \in scan[s].still : p \in todo \/ Current(p)
  BY <1>1, <1>4 DEF ScanKnows, Present, NeedsEvaluation
<1> HIDE DEF todo
<1>7. scan' = [scan EXCEPT ![s] = next]
  BY <1>1 DEF ReconciliationInv, TypeOK
<1>8. next \in Scan
  BY <1>2, <1>3 DEF Scan
<1>9. /\ next.stage = "queue" /\ next.todo = todo
      /\ next.listed = scan[s].listed /\ next.still = scan[s].still
  BY <1>2 DEF Scan
<1> HIDE DEF next
<1>10. scan'[s] = next
  BY <1>7 DEF ReconciliationInv, TypeOK
<1>11. ScanKnows(s)'
  BY <1>1, <1>4, <1>6, <1>9, <1>10 DEF ScanKnows, Covered, Current
<1>12. acts' \in 0 .. MaxActs /\ acts <= acts' /\ faults' \in 0 .. MaxFaults
  BY <1>1 DEF ReconciliationInv, TypeOK
<1>. QED BY <1>1, <1>7, <1>8, <1>11, <1>12, ScanStepKeeps

LEMMA QueueOneKeeps ==
  ASSUME ReconciliationInv, NEW s \in Scans, NEW p \in Paths, QueueOne(s, p)
  PROVE  ReconciliationInv'
<1> USE DEF ReconciliationInv
<1> DEFINE next == [scan[s] EXCEPT !.todo = @ \ {p}]
<1>1. /\ scan[s] # NULL /\ scan[s].stage = "queue"
      /\ Enqueue(p)
      /\ scan' = [scan EXCEPT ![s].todo = @ \ {p}]
      /\ UNCHANGED <<file, side, mounted, heard, acts, snap, faults>>
  BY DEF QueueOne, Scanning, world
<1>2. work' = work
  BY <1>1 DEF Enqueue
<1>3. scan[s] \in Scan
  BY <1>1 DEF TypeOK
<1>4. scan' = [scan EXCEPT ![s] = next]
  BY <1>1 DEF TypeOK
<1>5. /\ next \in Scan
      /\ next.stage = "queue" /\ next.todo = scan[s].todo \ {p}
      /\ next.listed = scan[s].listed /\ next.still = scan[s].still
  BY <1>1, <1>3 DEF Scan
<1> HIDE DEF next
<1>6. /\ scan'[s] = next
      /\ \A r \in Scans \ {s} : scan'[r] = scan[r]
  BY <1>4 DEF TypeOK
<1>7. TypeOK'
  BY <1>1, <1>2, <1>4, <1>5, EnqueueCovers DEF TypeOK
<1>8. RecordsKnow'
  BY <1>1 DEF RecordsKnow
<1>9. AttemptsKnow'
  BY <1>1, <1>2 DEF AttemptsKnow, AttemptKnows, Current
<1>10. ScanKnows(s)'
  <2>1. scan[s].still \subseteq Paths
    BY <1>3 DEF Scan
  <2>2. ScanKnows(s)
    BY DEF ScansKnow
  <2>3. \A q \in scan[s].still : q \in scan[s].todo \ {p} \/ Covered(q)'
    BY <1>1, <2>1, <2>2, EnqueueCovers DEF ScanKnows
  <2>. QED BY <1>1, <1>5, <1>6, <2>2, <2>3 DEF ScanKnows
<1>11. ScansKnow'
  BY <1>1, <1>6, <1>10, EnqueueCovers, OtherScansKeep
<1>. QED BY <1>7, <1>8, <1>9, <1>11

(* Marking a snapshot deleted keeps its stamp.                             *)
LEMMA EndScanKeeps ==
  ASSUME ReconciliationInv, NEW s \in Scans, EndScan(s)
  PROVE  ReconciliationInv'
<1> USE DEF ReconciliationInv
<1>1. /\ scan[s] # NULL
      /\ snap' = IF mounted THEN [p \in Paths |-> Tombstoned(p, scan[s].listed)] ELSE snap
      /\ scan' = [scan EXCEPT ![s] = NULL]
      /\ UNCHANGED <<file, side, mounted, heard, acts, job, dirty, work, faults>>
  BY DEF EndScan, Scanning, world, queue
<1>2. \A p \in Paths :
        /\ Tombstoned(p, scan[s].listed) \in Snapshot \cup {NULL}
        /\ Tombstoned(p, scan[s].listed) = NULL <=> snap[p] = NULL
        /\ snap[p] # NULL => Tombstoned(p, scan[s].listed).stamp = snap[p].stamp
  <2> TAKE p \in Paths
  <2>1. CASE snap[p] = NULL
    BY <2>1 DEF Tombstoned
  <2>2. CASE snap[p] # NULL
    <3>1. snap[p] \in Snapshot
      BY <2>2 DEF TypeOK
    <3>2. Tombstoned(p, scan[s].listed) \in Snapshot
          /\ Tombstoned(p, scan[s].listed).stamp = snap[p].stamp
      BY <2>2, <3>1 DEF Tombstoned, Snapshot
    <3>. QED BY <2>2, <3>2
  <2>. QED BY <2>1, <2>2
<1>3. /\ snap' \in [Paths -> Snapshot \cup {NULL}]
      /\ \A p \in Paths : /\ snap'[p] = NULL <=> snap[p] = NULL
                          /\ snap[p] # NULL => snap'[p].stamp = snap[p].stamp
  BY <1>1, <1>2 DEF TypeOK
<1>4. /\ scan' \in [Scans -> Scan \cup {NULL}]
      /\ scan'[s] = NULL
      /\ \A r \in Scans \ {s} : scan'[r] = scan[r]
  BY <1>1 DEF TypeOK
<1>5. TypeOK'
  BY <1>1, <1>3, <1>4 DEF TypeOK
<1>6. RecordsKnow'
  BY <1>1, <1>3 DEF RecordsKnow
<1>7. AttemptsKnow'
  BY <1>1, <1>3 DEF AttemptsKnow, AttemptKnows, Current
<1>8. \A q \in Paths : (Current(q) => Current(q)') /\ (Covered(q) => Covered(q)')
  BY <1>1, <1>3 DEF Current, Covered
<1>9. ScanKnows(s)'
  BY <1>4 DEF ScanKnows
<1>10. ScansKnow'
  BY <1>1, <1>4, <1>8, <1>9, OtherScansKeep
<1>. QED BY <1>5, <1>6, <1>7, <1>10

LEMMA ScanFailsKeeps ==
  ASSUME ReconciliationInv, NEW s \in Scans, ScanFails(s)
  PROVE  ReconciliationInv'
<1>1. /\ scan' = [scan EXCEPT ![s] = NULL]
      /\ faults < MaxFaults /\ faults' = faults + 1
      /\ UNCHANGED <<file, side, mounted, heard, acts, snap, job, dirty, work>>
  BY DEF ScanFails, world, queue
<1>2. scan'[s] = NULL
  BY <1>1 DEF ReconciliationInv, TypeOK
<1>3. ScanKnows(s)'
  BY <1>2 DEF ScanKnows
<1>4. acts' \in 0 .. MaxActs /\ acts <= acts' /\ faults' \in 0 .. MaxFaults
  BY <1>1 DEF ReconciliationInv, TypeOK
<1>. QED BY <1>1, <1>3, <1>4, ScanStepKeeps

LEMMA RestartKeeps ==
  ASSUME ReconciliationInv, Restart
  PROVE  ReconciliationInv'
<1> USE DEF ReconciliationInv
<1>1. /\ faults < MaxFaults /\ faults' = faults + 1
      /\ job' = [p \in Paths |-> IF job[p] = "processing" THEN "pending" ELSE job[p]]
      /\ work' = [p \in Paths |-> NULL]
      /\ scan' = [s \in Scans |-> NULL]
      /\ heard' = {}
      /\ UNCHANGED <<file, side, mounted, acts, snap, dirty>>
  BY DEF Restart
<1>2. TypeOK'
  BY <1>1 DEF TypeOK, JobStates
<1>3. RecordsKnow'
  BY <1>1 DEF RecordsKnow
<1>4. AttemptsKnow' /\ ScansKnow'
  BY <1>1 DEF AttemptsKnow, AttemptKnows, ScansKnow, ScanKnows
<1>. QED BY <1>2, <1>3, <1>4

-----------------------------------------------------------------------------
LEMMA NextKeeps == ReconciliationInv /\ [Next]_vars => ReconciliationInv'
<1> SUFFICES ASSUME ReconciliationInv, [Next]_vars PROVE ReconciliationInv'
  OBVIOUS
<1>1. CASE UNCHANGED vars
  BY <1>1 DEF vars, world, queue, ReconciliationInv, TypeOK, RecordsKnow, AttemptsKnow,
              AttemptKnows, ScansKnow, ScanKnows, Current, Covered
<1>2. ASSUME NEW p \in Paths,
             \/ Change(p) \/ Remove(p) \/ EditSidecar(p) \/ Notice(p) \/ Age(p)
             \/ AttemptStep(p) \/ Write(p) \/ Error(p)
      PROVE  ReconciliationInv'
  BY <1>2, ChangeKeeps, RemoveKeeps, EditKeeps, NoticeKeeps, AgeKeeps, LeaseKeeps, ReadKeeps,
     RecordKeeps, CompleteKeeps, FailKeeps, WriteKeeps, ErrorKeeps DEF AttemptStep
<1>3. ASSUME NEW s \in Scans, Pass(s) \/ FullScan(s) \/ ScanStep(s) \/ ScanFails(s)
      PROVE  ReconciliationInv'
  BY <1>3, BeginKeeps, ReadRecordsKeeps, ReadFactsKeeps, QueueOneKeeps, EndScanKeeps,
     ScanFailsKeeps DEF ScanStep
<1>4. CASE MountOrUnmount
  BY <1>4, MountKeeps
<1>5. CASE Restart
  BY <1>5, RestartKeeps
<1>. QED BY <1>1, <1>2, <1>3, <1>4, <1>5 DEF Next

(* The records are well typed, and attempts and scans know what they do,   *)
(* in every state: whatever users change while a scan and the attempts are *)
(* under way, in any order.                                                *)
THEOREM ReconciliationInvariant == Spec => []ReconciliationInv
<1>1. Init => ReconciliationInv
  BY DEF Init, ReconciliationInv, TypeOK, RecordsKnow, AttemptsKnow, AttemptKnows, ScansKnow,
         ScanKnows, JobStates
<1>. QED BY <1>1, NextKeeps, PTL DEF Spec

(* Type correctness                                                        *)
THEOREM TypeCorrect == Spec => []TypeOK
BY ReconciliationInvariant, PTL DEF ReconciliationInv

(* No file that lies there unchanged from the listing to the end of a scan *)
(* is missed, although the scan compares files, records and jobs that it   *)
(* has read at different times, while attempts replace them.               *)
THEOREM NoFileIsMissed == Spec => ScanMissesNothing
<1>1. ReconciliationInv /\ [Next]_vars =>
        [\A s \in Scans : EndScan(s) => \A p \in scan[s].still : Covered(p)]_vars
  BY DEF ReconciliationInv, ScansKnow, ScanKnows, EndScan, Scanning
<1>. QED BY <1>1, ReconciliationInvariant, PTL DEF Spec, ScanMissesNothing

=============================================================================
