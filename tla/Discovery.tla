----------------------------- MODULE Discovery -----------------------------
(***************************************************************************)
(* From a change on disk to a queued job: the watcher                      *)
(* (infrastructure/filesystem/watcher.py), the event handler of            *)
(* bootstrap.py and the stability detector (stability.py).                 *)
(*                                                                         *)
(* An event becomes a coroutine on the daemon's loop; the stability loop   *)
(* polls what has been observed, and awaits a stat of each file that has   *)
(* been quiet, during which further events are observed.  A poll uses the  *)
(* clock as it was when it began.                                          *)
(*                                                                         *)
(* An event of a sidecar counts for its media file, unless the sidecar     *)
(* holds what the daemon remembers having written: its hash is read in a   *)
(* thread first.  The daemon remembers a text after it has recorded its    *)
(* provenance, so that the event can come earlier.  Of a sidecar's text    *)
(* only matters whose it is, and whether it is UTF-8: the hash of one that *)
(* is not cannot be read, and the error ends the handler.                  *)
(*                                                                         *)
(* Time is kept as ages, counted to where they no longer matter: the age   *)
(* of a poll to MaxLag, that of an event or a probe to the period it is    *)
(* compared with plus MaxLag.  What a stat returns, size and mtime, is a   *)
(* stamp that every change renews.  Definitions whose name begins with     *)
(* Slip are mistakes that could be made in the definition that follows;    *)
(* model checking notices them.                                            *)
(***************************************************************************)
EXTENDS Integers, FiniteSets

CONSTANTS
  Paths,        \* media files
  Quiet,        \* stability_quiet_period_seconds
  Gap,          \* stability_probe_gap_seconds
  MaxLag,       \* bound: how long a poll takes
  MaxChanges,   \* bound: changes of files
  MaxEdits,     \* bound: changes of sidecars
  Edited,       \* bound: files whose sidecars change
  NULL          \* no file, Python None

ASSUME DiscoveryAssumption ==
  /\ Quiet \in Nat \ {0}
  /\ Gap \in Nat \ {0}
  /\ MaxLag \in Nat
  /\ MaxChanges \in Nat
  /\ MaxEdits \in Nat
  /\ Edited \subseteq Paths
  /\ NULL \notin Int

VARIABLES
  file,       \* the stamp of each file, NULL when it does not exist
  changes,    \* changes of files so far, and the source of stamps
  events,     \* events of each file that the loop has yet to handle
  track,      \* _states and _last_probe_at
  poll,       \* the poll under way, NULL when the stability loop sleeps
  unanswered, \* history: files with an event observed and no job queued since,
              \* unless the change was given up
  sidecar,    \* the text each sidecar holds, NULL when it does not exist
  edits,      \* counter for the bound
  written,    \* sidecars the daemon has written and not yet remembered
  suppressed, \* _suppression_hashes: sidecars with a text remembered
  notices,    \* events of each sidecar that the loop has yet to handle
  reading,    \* handlers that await a hash, by what the thread has read
  unnoticed   \* history: sidecars with a text of the user's and no event of it
              \* observed since, unless a handler has died of the text

media == <<file, changes, events, poll>>
lyrics == <<sidecar, edits, written, suppressed, notices, reading, unnoticed>>
vars == <<media, track, unanswered, lyrics>>

Stamps == 1 .. MaxChanges

Track ==
  [seen   : 0 .. Quiet + MaxLag,              \* age of last_seen_at
   probed : (0 .. Gap + MaxLag) \cup {NULL},  \* age of the last probe
   stamp  : Stamps \cup {NULL},               \* last_size, last_mtime_ns
   probes : 0 .. 1]                           \* successful_probes; at 2 the file is ready

Poll ==
  [age   : 0 .. MaxLag,
   todo  : SUBSET Paths,                      \* files not looked at yet
   at    : Paths \cup {NULL},                 \* the file whose stat is awaited
   ran   : BOOLEAN,                           \* whether the thread has taken it
   stat  : Stamps \cup {NULL},                \* its result, NULL when there is no file
   ready : SUBSET Paths]                      \* files to hand over

(* The user's texts: one that is UTF-8, and one that is not. *)
UserTexts == {"user", "undecodable"}

Texts == {"own"} \cup UserTexts

ASSUME NullAssumption ==
  NULL \notin Track /\ NULL \notin Poll /\ NULL \notin Texts

Read == {"unread", "expected", "other"}

TypeOK ==
  /\ file \in [Paths -> Stamps \cup {NULL}]
  /\ changes \in 0 .. MaxChanges
  /\ events \in [Paths -> Nat]
  /\ track \in [Paths -> Track \cup {NULL}]
  /\ poll \in Poll \cup {NULL}
  /\ unanswered \subseteq Paths
  /\ sidecar \in [Paths -> Texts \cup {NULL}]
  /\ edits \in 0 .. MaxEdits
  /\ {written, suppressed, unnoticed} \subseteq SUBSET Paths
  /\ notices \in [Paths -> Nat]
  /\ reading \in [Paths -> [Read -> Nat]]
  /\ \A p \in unnoticed : sidecar[p] \in UserTexts

Init ==
  /\ file = [p \in Paths |-> NULL]
  /\ changes = 0
  /\ events = [p \in Paths |-> 0]
  /\ track = [p \in Paths |-> NULL]
  /\ poll = NULL
  /\ unanswered = {}
  /\ sidecar = [p \in Paths |-> NULL]
  /\ edits = 0
  /\ written = {}
  /\ suppressed = {}
  /\ notices = [p \in Paths |-> 0]
  /\ reading = [p \in Paths |-> [r \in Read |-> 0]]
  /\ unnoticed = {}

-----------------------------------------------------------------------------
(* The file is created, written or moved here: the watcher schedules an    *)
(* event.  Of a deletion it hears nothing.                                 *)
Change(p) ==
  /\ changes < MaxChanges
  /\ changes' = changes + 1
  /\ file' = [file EXCEPT ![p] = changes']
  /\ events' = [events EXCEPT ![p] = @ + 1]
  /\ UNCHANGED <<track, poll, unanswered, lyrics>>

Delete(p) ==
  /\ file[p] # NULL
  /\ file' = [file EXCEPT ![p] = NULL]
  /\ UNCHANGED <<changes, events, track, poll, unanswered, lyrics>>

New == [seen |-> 0, probed |-> NULL, stamp |-> NULL, probes |-> 0]

(* the probes so far still count *)
SlipSeen(t) == IF t = NULL THEN New ELSE [t EXCEPT !.seen = 0]

(* What observe makes of a path: the quiet period and the probes start     *)
(* over, what the last probe saw is kept.                                  *)
Seen(t) == IF t = NULL THEN New ELSE [t EXCEPT !.seen = 0, !.probes = 0]

Observed(p) ==
  /\ track' = [track EXCEPT ![p] = Seen(@)]
  /\ unanswered' = unanswered \cup {p}

Observe(p) ==
  /\ events[p] > 0
  /\ events' = [events EXCEPT ![p] = @ - 1]
  /\ Observed(p)
  /\ UNCHANGED <<file, changes, poll, lyrics>>

-----------------------------------------------------------------------------
(* Sidecars *)
ChangeText(p, text) ==
  /\ p \in Edited
  /\ edits < MaxEdits
  /\ edits' = edits + 1
  /\ sidecar' = [sidecar EXCEPT ![p] = text]
  /\ notices' = IF text = NULL THEN notices ELSE [notices EXCEPT ![p] = @ + 1]
  /\ UNCHANGED <<media, track, unanswered, suppressed, reading>>

(* A job writes its text; then it records the provenance ...               *)
WriteSidecar(p) ==
  /\ file[p] # NULL
  /\ p \notin written
  /\ ChangeText(p, "own")
  /\ written' = written \cup {p}
  /\ unnoticed' = unnoticed \ {p}

(* ... and, unless that fails, remembers the text.                         *)
Remember(p, recorded) ==
  /\ p \in written
  /\ written' = written \ {p}
  /\ suppressed' = IF recorded THEN suppressed \cup {p} ELSE suppressed
  /\ UNCHANGED <<media, track, unanswered, sidecar, edits, notices, reading, unnoticed>>

(* A user writes a text, perhaps the daemon's, or deletes it. *)
EditSidecar(p, text) ==
  /\ ChangeText(p, text)
  /\ unnoticed' = IF text \in UserTexts THEN unnoticed \cup {p} ELSE unnoticed \ {p}
  /\ UNCHANGED written

(* an event of a sidecar that is remembered is not looked at *)
SlipNotice(p) ==
  /\ notices[p] > 0
  /\ notices' = [notices EXCEPT ![p] = @ - 1]
  /\ IF file[p] = NULL \/ p \in suppressed
       THEN /\ suppressed' = suppressed \ {p}
            /\ UNCHANGED <<track, unanswered, unnoticed>>
       ELSE /\ Observed(p)
            /\ unnoticed' = unnoticed \ {p}
            /\ UNCHANGED suppressed
  /\ UNCHANGED <<media, sidecar, edits, written, reading>>

(* _handle_filesystem_event: without its media file, the sidecar is of no  *)
(* interest; one that is remembered is read first.                         *)
Notice(p) ==
  /\ notices[p] > 0
  /\ notices' = [notices EXCEPT ![p] = @ - 1]
  /\ IF file[p] = NULL
       THEN unnoticed' = unnoticed \ {p} /\ UNCHANGED <<track, unanswered, reading>>
     ELSE IF p \in suppressed /\ sidecar[p] # NULL
       THEN /\ reading' = [reading EXCEPT ![p]["unread"] = @ + 1]
            /\ UNCHANGED <<track, unanswered, unnoticed>>
     ELSE Observed(p) /\ unnoticed' = unnoticed \ {p} /\ UNCHANGED reading
  /\ UNCHANGED <<media, sidecar, edits, written, suppressed>>

(* The thread: which of its own texts the daemon remembers is left open.   *)
(* A file that cannot be read, or is gone, counts as one of another text.  *)
ReadHash(p) ==
  /\ reading[p]["unread"] > 0
  /\ sidecar[p] # "undecodable"
  /\ \E read \in IF sidecar[p] = "own" THEN {"expected", "other"} ELSE {"other"} :
       reading' = [reading EXCEPT ![p]["unread"] = @ - 1, ![p][read] = @ + 1]
  /\ UNCHANGED <<media, track, unanswered, sidecar, edits, written, suppressed, notices, unnoticed>>

(* UnicodeDecodeError is no OSError: it ends the handler, whose outcome    *)
(* nobody asks for.  Nothing is observed, what is remembered stays so, and *)
(* every further event of this text will end likewise: the edit is missed. *)
HandlerDies(p) ==
  /\ reading[p]["unread"] > 0
  /\ sidecar[p] = "undecodable"
  /\ reading' = [reading EXCEPT ![p]["unread"] = @ - 1]
  /\ unnoticed' = unnoticed \ {p}
  /\ UNCHANGED <<media, track, unanswered, sidecar, edits, written, suppressed, notices>>

(* The text is the one remembered: it is forgotten, and so is the event. *)
Ignore(p) ==
  /\ reading[p]["expected"] > 0
  /\ reading' = [reading EXCEPT ![p]["expected"] = @ - 1]
  /\ suppressed' = suppressed \ {p}
  /\ UNCHANGED <<media, track, unanswered, sidecar, edits, written, notices, unnoticed>>

Differs(p) ==
  /\ reading[p]["other"] > 0
  /\ reading' = [reading EXCEPT ![p]["other"] = @ - 1]
  /\ Observed(p)
  /\ unnoticed' = unnoticed \ {p}
  /\ UNCHANGED <<media, sidecar, edits, written, suppressed, notices>>

-----------------------------------------------------------------------------
(* poll_ready_paths *)
Begin ==
  /\ poll = NULL
  /\ poll' = [age |-> 0, todo |-> {p \in Paths : track[p] # NULL}, at |-> NULL,
              ran |-> FALSE, stat |-> NULL, ready |-> {}]
  /\ UNCHANGED <<file, changes, events, track, unanswered, lyrics>>

Polling == poll # NULL /\ poll.at = NULL

(* As of the beginning of the poll, the last event is old enough, ...      *)
IsQuiet(p) == track[p].seen - poll.age >= Quiet

(* ... and so is the last probe. *)
IsDue(p) ==
  IF track[p].probed = NULL THEN TRUE ELSE track[p].probed - poll.age >= Gap

Skip(p) ==
  /\ Polling
  /\ p \in poll.todo
  /\ ~(IsQuiet(p) /\ IsDue(p))
  /\ poll' = [poll EXCEPT !.todo = @ \ {p}]
  /\ UNCHANGED <<file, changes, events, track, unanswered, lyrics>>

(* The stat of the file is handed to a thread, ...                         *)
Probe(p) ==
  /\ Polling
  /\ p \in poll.todo
  /\ IsQuiet(p)
  /\ IsDue(p)
  /\ poll' = [poll EXCEPT !.todo = @ \ {p}, !.at = p]
  /\ track' = [track EXCEPT ![p].probed = poll.age]
  /\ UNCHANGED <<file, changes, events, unanswered, lyrics>>

(* ... which runs some time before the loop goes on with its result.       *)
Stat ==
  /\ poll # NULL
  /\ poll.at # NULL
  /\ ~poll.ran
  /\ poll' = [poll EXCEPT !.ran = TRUE, !.stat = file[poll.at]]
  /\ UNCHANGED <<file, changes, events, track, unanswered, lyrics>>

Resumes == poll # NULL /\ poll.at # NULL /\ poll.ran

Resume(ready) == poll' = [poll EXCEPT !.at = NULL, !.ran = FALSE, !.stat = NULL, !.ready = ready]

(* OSError: the file is given up, with all that was observed of it, events *)
(* during the await included.                                              *)
Gone ==
  /\ Resumes
  /\ poll.stat = NULL
  /\ track' = [track EXCEPT ![poll.at] = NULL]
  /\ Resume(poll.ready)
  /\ unanswered' = unanswered \ {poll.at}
  /\ UNCHANGED <<file, changes, events, lyrics>>

(* the new stamp is not kept *)
SlipChanged ==
  /\ Resumes
  /\ poll.stat # NULL
  /\ poll.stat # track[poll.at].stamp
  /\ track' = [track EXCEPT ![poll.at].probes = 1]
  /\ Resume(poll.ready)
  /\ UNCHANGED <<file, changes, events, unanswered, lyrics>>

(* A new stamp: this is the first probe. *)
Changed ==
  /\ Resumes
  /\ poll.stat # NULL
  /\ poll.stat # track[poll.at].stamp
  /\ track' = [track EXCEPT ![poll.at].stamp = poll.stat, ![poll.at].probes = 1]
  /\ Resume(poll.ready)
  /\ UNCHANGED <<file, changes, events, unanswered, lyrics>>

(* a file that is ready stays with the detector *)
SlipKept ==
  /\ Resumes
  /\ poll.stat # NULL
  /\ poll.stat = track[poll.at].stamp
  /\ track' = [track EXCEPT ![poll.at].probes = @ + 1]
  /\ Resume(IF track[poll.at].probes = 1 THEN poll.ready \cup {poll.at} ELSE poll.ready)
  /\ UNCHANGED <<file, changes, events, unanswered, lyrics>>

(* a file that is not ready leaves the detector *)
SlipDropped ==
  /\ Resumes
  /\ poll.stat # NULL
  /\ poll.stat = track[poll.at].stamp
  /\ track' = [track EXCEPT ![poll.at] = NULL]
  /\ Resume(IF track[poll.at].probes = 1 THEN poll.ready \cup {poll.at} ELSE poll.ready)
  /\ UNCHANGED <<file, changes, events, unanswered, lyrics>>

(* The same stamp: the file is ready with the second probe. *)
Same ==
  /\ Resumes
  /\ poll.stat # NULL
  /\ poll.stat = track[poll.at].stamp
  /\ IF track[poll.at].probes = 1
       THEN /\ track' = [track EXCEPT ![poll.at] = NULL]
            /\ Resume(poll.ready \cup {poll.at})
       ELSE /\ track' = [track EXCEPT ![poll.at].probes = 1]
            /\ Resume(poll.ready)
  /\ UNCHANGED <<file, changes, events, unanswered, lyrics>>

Polled == Polling /\ poll.todo = {}

(* _stability_step queues a job for each ready file, one after the other.  *)
HandOver(p) ==
  /\ Polled
  /\ p \in poll.ready
  /\ poll' = [poll EXCEPT !.ready = @ \ {p}]
  /\ unanswered' = unanswered \ (IF track[p] = NULL THEN {p} ELSE {})
  /\ UNCHANGED <<file, changes, events, track, lyrics>>

(* An enqueue fails: the step ends, and what else was ready is given up    *)
(* with it.                                                                *)
Refused ==
  /\ Polled
  /\ poll.ready # {}
  /\ poll' = NULL
  /\ unanswered' = unanswered \ {p \in poll.ready : track[p] = NULL}
  /\ UNCHANGED <<file, changes, events, track, lyrics>>

Done ==
  /\ Polled
  /\ poll.ready = {}
  /\ poll' = NULL
  /\ UNCHANGED <<file, changes, events, track, unanswered, lyrics>>

Older(age, most) == IF age = most THEN most ELSE age + 1

Tick ==
  /\ poll # NULL => poll.age < MaxLag
  /\ poll' = IF poll = NULL THEN NULL ELSE [poll EXCEPT !.age = @ + 1]
  /\ track' = [p \in Paths |->
       IF track[p] = NULL THEN NULL
       ELSE [track[p] EXCEPT
               !.seen = Older(@, Quiet + MaxLag),
               !.probed = IF @ = NULL THEN NULL ELSE Older(@, Gap + MaxLag)]]
  /\ UNCHANGED <<file, changes, events, unanswered, lyrics>>

-----------------------------------------------------------------------------
PollStep ==
  \/ Begin \/ Stat \/ Gone \/ Changed \/ Same \/ Done
  \/ \E p \in Paths : Skip(p) \/ Probe(p) \/ HandOver(p)

SidecarStep(p) ==
  \/ \E recorded \in BOOLEAN : Remember(p, recorded)
  \/ Notice(p) \/ ReadHash(p) \/ HandlerDies(p) \/ Ignore(p) \/ Differs(p)

Next ==
  \/ \E p \in Paths : Change(p) \/ Delete(p) \/ Observe(p)
  \/ \E p \in Paths : WriteSidecar(p) \/ SidecarStep(p)
  \/ \E p \in Paths, text \in Texts \cup {NULL} : sidecar[p] # text /\ EditSidecar(p, text)
  \/ PollStep \/ Refused \/ Tick

Spec == Init /\ [][Next]_vars

(* The event loop runs what is scheduled, the stability loop polls, stat   *)
(* calls return, and time passes.                                          *)
Fairness ==
  /\ \A p \in Paths : WF_vars(Observe(p)) /\ WF_vars(SidecarStep(p))
  /\ WF_vars(PollStep)
  /\ WF_vars(Tick)

FairSpec == Spec /\ Fairness

-----------------------------------------------------------------------------
(* A step declares p ready. *)
BecomesReady(p) == poll # NULL /\ poll' # NULL /\ p \in poll'.ready \ poll.ready

(* A file is only declared ready when the last event that was observed of  *)
(* it, also of those observed while its stat was awaited, was older than   *)
(* the quiet period when the poll began, and when two probes have seen it  *)
(* unchanged.                                                              *)
ReadyWasQuiet ==
  [][\A p \in Paths : BecomesReady(p) =>
       IsQuiet(p) /\ track[p].probes = 1 /\ poll.stat = track[p].stamp]_vars

(* A change that has been observed is in the detector's hands until its    *)
(* file has been handed over: none is lost between two events, an event    *)
(* and a probe, or two polls.  It is given up only with a file that was    *)
(* gone when probed, or when an enqueue fails.                             *)
ChangeIsTracked ==
  \A p \in unanswered : track[p] # NULL \/ (poll # NULL /\ p \in poll.ready)

(* A text of the user's is never taken for the daemon's own, whatever      *)
(* texts are remembered and whichever order writes, records, events and    *)
(* hashes come in: until it has been observed, an event of it is pending,  *)
(* or a handler that has not read another text.  A text that is not UTF-8  *)
(* is covered only until a handler dies of it, which takes a text of the   *)
(* daemon's that is remembered for the sidecar.                            *)
EditIsNoticed ==
  \A p \in unnoticed : notices[p] + reading[p]["unread"] + reading[p]["other"] > 0

(* A changed file, or one whose sidecar the user has changed, gets its job *)
(* or is given up: again and again nothing of it is left to answer, which, *)
(* as changes are bounded, is so for good after the last of them.  A file  *)
(* is given up when it was gone as it was probed or as its sidecar's event *)
(* came, when an enqueue failed, or when a handler died of its sidecar's   *)
(* text, for which no job is queued at all.                                *)
ChangeIsQueued ==
  \A p \in Paths : []<>(events[p] = 0 /\ p \notin unanswered \cup unnoticed)

=============================================================================
