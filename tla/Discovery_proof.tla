-------------------------- MODULE Discovery_proof --------------------------
(***************************************************************************)
(* Proofs about discovery, for any number of files, changes and edits, any *)
(* quiet period and gap, and polls that take any time.                     *)
(*                                                                         *)
(* That changes stay tracked rests on what a poll keeps across its awaits: *)
(* the files it has yet to look at, and the one whose stat it awaits, are  *)
(* the detector's (PollIsTracked), since nobody but the poll itself lets   *)
(* one go.  That a file which becomes ready was quiet rests on what an     *)
(* event does during the await: it takes the probes back                   *)
(* (AwaitedWasQuiet).                                                      *)
(***************************************************************************)
EXTENDS Discovery, TLAPS

USE DiscoveryAssumption, NullAssumption

PollIsTracked ==
  poll # NULL =>
    /\ \A p \in poll.todo : track[p] # NULL
    /\ poll.at # NULL => track[poll.at] # NULL /\ poll.at \notin poll.todo

DiscoveryInv == TypeOK /\ ChangeIsTracked /\ EditIsNoticed /\ PollIsTracked

(* The parts of the invariant, by the variables they are about *)
MediaType ==
  /\ file \in [Paths -> Stamps \cup {NULL}]
  /\ changes \in 0 .. MaxChanges
  /\ events \in [Paths -> Nat]
  /\ poll \in Poll \cup {NULL}

TrackType ==
  /\ track \in [Paths -> Track \cup {NULL}]
  /\ unanswered \subseteq Paths

LyricsType ==
  /\ sidecar \in [Paths -> Texts \cup {NULL}]
  /\ edits \in 0 .. MaxEdits
  /\ {written, suppressed, unnoticed} \subseteq SUBSET Paths
  /\ notices \in [Paths -> Nat]
  /\ reading \in [Paths -> [Read -> Nat]]
  /\ \A p \in unnoticed : sidecar[p] \in UserTexts

LEMMA TypeParts == TypeOK <=> MediaType /\ TrackType /\ LyricsType
BY DEF TypeOK, MediaType, TrackType, LyricsType

LEMMA PartsGiveInv ==
  ASSUME MediaType', TrackType', LyricsType', ChangeIsTracked', EditIsNoticed', PollIsTracked'
  PROVE  DiscoveryInv'
<1>1. TypeOK'
  BY DEF TypeOK, MediaType, TrackType, LyricsType
<1>2. QED
  BY <1>1 DEF DiscoveryInv

LEMMA InitInv == Init => DiscoveryInv
<1> SUFFICES ASSUME Init
             PROVE  DiscoveryInv
  OBVIOUS
<1>1. MediaType /\ TrackType
  BY DEF Init, MediaType, TrackType
<1>2. LyricsType
  BY DEF Init, LyricsType
<1>3. ChangeIsTracked /\ EditIsNoticed /\ PollIsTracked
  BY DEF Init, ChangeIsTracked, EditIsNoticed, PollIsTracked
<1>4. QED
  BY <1>1, <1>2, <1>3, TypeParts DEF DiscoveryInv

-----------------------------------------------------------------------------
(* What is observed is tracked from then on. *)
LEMMA SeenType ==
  ASSUME NEW t \in Track \cup {NULL}
  PROVE  Seen(t) \in Track
<1>1. 0 \in 0 .. Quiet + MaxLag /\ 0 \in 0 .. 1
  OBVIOUS
<1>2. CASE t = NULL
  BY <1>1, <1>2 DEF Seen, New, Track
<1>3. CASE t # NULL
  BY <1>1, <1>3 DEF Seen, Track
<1>4. QED
  BY <1>2, <1>3

LEMMA ObservedTracks ==
  ASSUME DiscoveryInv, NEW p \in Paths, Observed(p), UNCHANGED poll
  PROVE  TrackType' /\ ChangeIsTracked' /\ PollIsTracked'
<1> USE DEF DiscoveryInv
<1>1. Seen(track[p]) \in Track /\ Seen(track[p]) # NULL
  BY SeenType DEF TypeOK
<1>2. track' = [track EXCEPT ![p] = Seen(track[p])] /\ unanswered' = unanswered \cup {p}
  BY DEF Observed
<1>3. TrackType'
  BY <1>1, <1>2 DEF TypeOK, TrackType
<1>4. ChangeIsTracked'
  BY <1>1, <1>2 DEF TypeOK, ChangeIsTracked
<1>5. PollIsTracked'
  BY <1>1, <1>2 DEF TypeOK, Poll, PollIsTracked
<1>6. QED
  BY <1>3, <1>4, <1>5

LEMMA FilesInv ==
  ASSUME DiscoveryInv, NEW p \in Paths, Change(p) \/ Delete(p) \/ Observe(p)
  PROVE  DiscoveryInv'
<1> USE DEF DiscoveryInv
<1>1. UNCHANGED lyrics /\ UNCHANGED poll
  BY DEF Change, Delete, Observe
<1>2. LyricsType' /\ EditIsNoticed'
  BY <1>1 DEF lyrics, TypeOK, LyricsType, EditIsNoticed
<1>3. MediaType'
  <2>1. CASE Change(p)
    <3>1. changes' \in Stamps
      BY <2>1 DEF Change, TypeOK, Stamps
    <3>2. QED
      BY <2>1, <3>1 DEF Change, TypeOK, MediaType, Stamps
  <2>2. CASE Delete(p)
    BY <2>2 DEF Delete, TypeOK, MediaType
  <2>3. CASE Observe(p)
    BY <2>3 DEF Observe, TypeOK, MediaType
  <2>4. QED
    BY <2>1, <2>2, <2>3
<1>4. TrackType' /\ ChangeIsTracked' /\ PollIsTracked'
  <2>1. CASE Observe(p)
    BY <1>1, <2>1, ObservedTracks DEF Observe
  <2>2. CASE Change(p) \/ Delete(p)
    BY <1>1, <2>2 DEF Change, Delete, TypeOK, TrackType, ChangeIsTracked, PollIsTracked
  <2>3. QED
    BY <2>1, <2>2
<1>5. QED
  BY <1>2, <1>3, <1>4, PartsGiveInv

-----------------------------------------------------------------------------
(* Sidecars *)

(* One of the counters of the handlers of p changes. *)
LEMMA OneCounter ==
  ASSUME NEW rs \in [Paths -> [Read -> Nat]], NEW p \in Paths, NEW r \in Read, NEW n \in Nat,
         NEW new, new = [rs EXCEPT ![p][r] = n]
  PROVE  /\ new \in [Paths -> [Read -> Nat]]
         /\ new[p][r] = n
         /\ \A s \in Read \ {r} : new[p][s] = rs[p][s]
         /\ \A q \in Paths \ {p} : new[q] = rs[q]
<1>1. new = [rs EXCEPT ![p] = [rs[p] EXCEPT ![r] = n]]
  OBVIOUS
<1>2. rs[p] \in [Read -> Nat] /\ [rs[p] EXCEPT ![r] = n] \in [Read -> Nat]
  OBVIOUS
<1>3. QED
  BY <1>1, <1>2

(* The events and handlers of p that may yet observe it *)
LEMMA CountersType ==
  ASSUME TypeOK, NEW p \in Paths
  PROVE  notices[p] \in Nat /\ \A r \in Read : reading[p][r] \in Nat
BY DEF TypeOK

LEMMA ChangeTextInv ==
  ASSUME DiscoveryInv, NEW p \in Paths, NEW text \in Texts \cup {NULL},
         WriteSidecar(p) \/ EditSidecar(p, text)
  PROVE  DiscoveryInv'
<1> USE DEF DiscoveryInv
<1>1. PICK t \in Texts \cup {NULL} :
        /\ ChangeText(p, t)
        /\ unnoticed' = IF t \in UserTexts THEN unnoticed \cup {p} ELSE unnoticed \ {p}
        /\ written' \in SUBSET Paths
  <2>1. CASE WriteSidecar(p)
    <3>1. ChangeText(p, "own") /\ written' = written \cup {p} /\ unnoticed' = unnoticed \ {p}
      BY <2>1 DEF WriteSidecar
    <3>2. "own" \in Texts \cup {NULL} /\ "own" \notin UserTexts
      BY DEF Texts, UserTexts
    <3>3. QED
      BY <3>1, <3>2 DEF TypeOK
  <2>2. CASE EditSidecar(p, text)
    BY <2>2 DEF EditSidecar, TypeOK
  <2>3. QED
    BY <2>1, <2>2
<1>2. MediaType' /\ TrackType' /\ ChangeIsTracked' /\ PollIsTracked'
  BY <1>1 DEF ChangeText, media, TypeOK, MediaType, TrackType, ChangeIsTracked, PollIsTracked
<1>3. LyricsType'
  BY <1>1 DEF ChangeText, media, TypeOK, LyricsType
<1>4. EditIsNoticed'
  <2>1. UNCHANGED reading /\ (t \in UserTexts => notices' = [notices EXCEPT ![p] = @ + 1])
    BY <1>1, NullAssumption DEF ChangeText, Texts
  <2>2. \A q \in unnoticed' \ {p} : q \in unnoticed /\ q \in Paths /\ notices'[q] = notices[q]
    BY <1>1 DEF ChangeText, TypeOK
  <2>3. p \in unnoticed' => notices'[p] = notices[p] + 1
    BY <1>1, <2>1 DEF TypeOK
  <2>4. QED
    BY <2>1, <2>2, <2>3, CountersType DEF EditIsNoticed, Read
<1>5. QED
  BY <1>2, <1>3, <1>4, PartsGiveInv

LEMMA RememberInv ==
  ASSUME DiscoveryInv, NEW p \in Paths, NEW recorded \in BOOLEAN, Remember(p, recorded)
  PROVE  DiscoveryInv'
<1> USE DEF DiscoveryInv
<1>1. MediaType' /\ TrackType' /\ ChangeIsTracked' /\ PollIsTracked' /\ EditIsNoticed'
  BY DEF Remember, media, TypeOK, MediaType, TrackType, ChangeIsTracked, PollIsTracked, EditIsNoticed
<1>2. LyricsType'
  BY DEF Remember, TypeOK, LyricsType
<1>3. QED
  BY <1>1, <1>2, PartsGiveInv

LEMMA NoticeInv ==
  ASSUME DiscoveryInv, NEW p \in Paths, Notice(p)
  PROVE  DiscoveryInv'
<1> USE DEF DiscoveryInv
<1>1. UNCHANGED <<media, sidecar, edits, written, suppressed>> /\ notices[p] > 0
      /\ notices' = [notices EXCEPT ![p] = @ - 1]
  BY DEF Notice
<1>2. MediaType'
  BY <1>1 DEF media, TypeOK, MediaType
<1>3. \/ unnoticed' = unnoticed \ {p} /\ UNCHANGED <<track, unanswered, reading>>
      \/ /\ reading' = [reading EXCEPT ![p]["unread"] = @ + 1]
         /\ UNCHANGED <<track, unanswered, unnoticed>>
      \/ Observed(p) /\ unnoticed' = unnoticed \ {p} /\ UNCHANGED reading
  BY DEF Notice
<1>4. TrackType' /\ ChangeIsTracked' /\ PollIsTracked'
  <2>1. CASE UNCHANGED <<track, unanswered>>
    BY <1>1, <2>1 DEF media, TypeOK, TrackType, ChangeIsTracked, PollIsTracked
  <2>2. CASE Observed(p)
    BY <1>1, <2>2, ObservedTracks DEF media
  <2>3. QED
    BY <1>3, <2>1, <2>2
<1>5. notices'[p] = notices[p] - 1 /\ \A q \in Paths \ {p} : notices'[q] = notices[q]
  BY <1>1 DEF TypeOK
<1>6. LyricsType' /\ EditIsNoticed'
  <2>1. notices' \in [Paths -> Nat]
    BY <1>1 DEF TypeOK
  <2>2. CASE unnoticed' = unnoticed \ {p} /\ UNCHANGED reading
    BY <1>1, <1>5, <2>1, <2>2 DEF TypeOK, LyricsType, EditIsNoticed
  <2>3. CASE reading' = [reading EXCEPT ![p]["unread"] = @ + 1] /\ UNCHANGED unnoticed
    <3>1. "unread" \in Read /\ reading[p]["unread"] + 1 \in Nat
      BY CountersType DEF Read
    <3>2. /\ reading' \in [Paths -> [Read -> Nat]]
          /\ reading'[p]["unread"] = reading[p]["unread"] + 1
          /\ \A s \in Read \ {"unread"} : reading'[p][s] = reading[p][s]
          /\ \A q \in Paths \ {p} : reading'[q] = reading[q]
      BY <2>3, <3>1, OneCounter DEF TypeOK
    <3>3. LyricsType'
      BY <1>1, <2>1, <2>3, <3>2 DEF TypeOK, LyricsType
    <3>4. EditIsNoticed'
      BY <1>1, <1>5, <2>3, <3>2, CountersType DEF TypeOK, EditIsNoticed, Read
    <3>5. QED
      BY <3>3, <3>4
  <2>4. QED
    BY <1>3, <2>2, <2>3
<1>7. QED
  BY <1>2, <1>4, <1>6, PartsGiveInv

(* What is read while the user's text is there is not the daemon's. *)
LEMMA ReadHashInv ==
  ASSUME DiscoveryInv, NEW p \in Paths, ReadHash(p)
  PROVE  DiscoveryInv'
<1> USE DEF DiscoveryInv
<1>1. MediaType' /\ TrackType' /\ ChangeIsTracked' /\ PollIsTracked'
  BY DEF ReadHash, media, TypeOK, MediaType, TrackType, ChangeIsTracked, PollIsTracked
<1>2. PICK r \in IF sidecar[p] = "own" THEN {"expected", "other"} ELSE {"other"} :
        reading' = [reading EXCEPT ![p]["unread"] = @ - 1, ![p][r] = @ + 1]
  BY DEF ReadHash
<1>3. r \in Read \ {"unread"} /\ (sidecar[p] = "user" => r = "other")
  BY <1>2 DEF Read
<1>4. reading[p] \in [Read -> Nat] /\ reading[p]["unread"] > 0
  BY DEF ReadHash, TypeOK
<1>5. /\ reading' \in [Paths -> [Read -> Nat]]
      /\ reading'[p][r] = reading[p][r] + 1
      /\ \A s \in Read \ {"unread", r} : reading'[p][s] = reading[p][s]
      /\ \A q \in Paths \ {p} : reading'[q] = reading[q]
  <2> DEFINE less == [reading EXCEPT ![p]["unread"] = @ - 1]
  <2>1. "unread" \in Read /\ reading[p]["unread"] - 1 \in Nat
    BY <1>4 DEF Read
  <2>2. /\ less \in [Paths -> [Read -> Nat]]
        /\ \A s \in Read \ {"unread"} : less[p][s] = reading[p][s]
        /\ \A q \in Paths \ {p} : less[q] = reading[q]
    BY <2>1, OneCounter DEF TypeOK
  <2>3. reading' = [less EXCEPT ![p][r] = @ + 1]
    BY <1>2
  <2> HIDE DEF less
  <2>4. less[p][r] = reading[p][r] /\ reading[p][r] + 1 \in Nat
    BY <1>3, <1>4, <2>2
  <2>5. reading' = [less EXCEPT ![p][r] = reading[p][r] + 1]
    BY <2>3, <2>4
  <2>6. QED
    BY <1>3, <2>2, <2>4, <2>5, OneCounter
<1>6. LyricsType'
  BY <1>5 DEF ReadHash, TypeOK, LyricsType
<1>7. EditIsNoticed'
  <2>1. \A q \in unnoticed' : q \in unnoticed /\ q \in Paths /\ (q = p => sidecar[q] = "user")
    BY DEF ReadHash, TypeOK, UserTexts
  <2>2. UNCHANGED notices
    BY DEF ReadHash
  <2>3. p \in unnoticed' => reading'[p]["other"] > 0
    BY <1>3, <1>5, <2>1, CountersType DEF Read
  <2>4. \A s \in Read : reading'[p][s] \in Nat
    BY <1>5
  <2>5. QED
    BY <1>5, <2>1, <2>2, <2>3, <2>4, CountersType DEF EditIsNoticed, Read
<1>8. QED
  BY <1>1, <1>6, <1>7, PartsGiveInv

(* The edit a handler dies of is given up, the others keep their handlers. *)
LEMMA HandlerDiesInv ==
  ASSUME DiscoveryInv, NEW p \in Paths, HandlerDies(p)
  PROVE  DiscoveryInv'
<1> USE DEF DiscoveryInv
<1>1. MediaType' /\ TrackType' /\ ChangeIsTracked' /\ PollIsTracked'
  BY DEF HandlerDies, media, TypeOK, MediaType, TrackType, ChangeIsTracked, PollIsTracked
<1>2. "unread" \in Read /\ reading[p]["unread"] - 1 \in Nat
  BY CountersType DEF HandlerDies, Read
<1>3. /\ reading' \in [Paths -> [Read -> Nat]]
      /\ \A q \in Paths \ {p} : reading'[q] = reading[q]
  BY <1>2, OneCounter DEF HandlerDies, TypeOK
<1>4. LyricsType'
  BY <1>3 DEF HandlerDies, TypeOK, LyricsType
<1>5. EditIsNoticed'
  BY <1>3 DEF HandlerDies, TypeOK, EditIsNoticed
<1>6. QED
  BY <1>1, <1>4, <1>5, PartsGiveInv

(* One handler fewer, but not one that counts for a text of the user's, or *)
(* the text is observed.                                                   *)
LEMMA IgnoreInv ==
  ASSUME DiscoveryInv, NEW p \in Paths, Ignore(p)
  PROVE  DiscoveryInv'
<1> USE DEF DiscoveryInv
<1>1. MediaType' /\ TrackType' /\ ChangeIsTracked' /\ PollIsTracked'
  BY DEF Ignore, media, TypeOK, MediaType, TrackType, ChangeIsTracked, PollIsTracked
<1>2. "expected" \in Read /\ reading[p]["expected"] - 1 \in Nat
  BY CountersType DEF Ignore, Read
<1>3. /\ reading' \in [Paths -> [Read -> Nat]]
      /\ \A s \in Read \ {"expected"} : reading'[p][s] = reading[p][s]
      /\ \A q \in Paths \ {p} : reading'[q] = reading[q]
  BY <1>2, OneCounter DEF Ignore, TypeOK
<1>4. LyricsType'
  BY <1>3 DEF Ignore, TypeOK, LyricsType
<1>5. EditIsNoticed'
  BY <1>3 DEF Ignore, TypeOK, EditIsNoticed, Read
<1>6. QED
  BY <1>1, <1>4, <1>5, PartsGiveInv

LEMMA DiffersInv ==
  ASSUME DiscoveryInv, NEW p \in Paths, Differs(p)
  PROVE  DiscoveryInv'
<1> USE DEF DiscoveryInv
<1>1. MediaType'
  BY DEF Differs, media, TypeOK, MediaType
<1>2. TrackType' /\ ChangeIsTracked' /\ PollIsTracked'
  BY ObservedTracks DEF Differs, media
<1>3. /\ reading' \in [Paths -> [Read -> Nat]]
      /\ \A q \in Paths \ {p} : reading'[q] = reading[q]
  <2>1. "other" \in Read /\ reading[p]["other"] - 1 \in Nat
    BY CountersType DEF Differs, Read
  <2>2. QED
    BY <2>1, OneCounter DEF Differs, TypeOK
<1>4. LyricsType'
  BY <1>3 DEF Differs, TypeOK, LyricsType
<1>5. EditIsNoticed'
  BY <1>3 DEF Differs, TypeOK, EditIsNoticed
<1>6. QED
  BY <1>1, <1>2, <1>4, <1>5, PartsGiveInv

-----------------------------------------------------------------------------
(* Polls *)

(* A step of the poll that leaves the detector alone *)
LEMMA PollInv ==
  ASSUME DiscoveryInv, UNCHANGED <<file, changes, events, track, lyrics>>,
         unanswered' \subseteq unanswered,
         poll' \in Poll \cup {NULL}, ChangeIsTracked', PollIsTracked'
  PROVE  DiscoveryInv'
<1> USE DEF DiscoveryInv
<1>1. LyricsType' /\ EditIsNoticed'
  BY DEF lyrics, TypeOK, LyricsType, EditIsNoticed
<1>2. MediaType' /\ TrackType'
  BY DEF TypeOK, MediaType, TrackType
<1>3. QED
  BY <1>1, <1>2, PartsGiveInv

LEMMA BeginInv == ASSUME DiscoveryInv, Begin PROVE DiscoveryInv'
<1> USE DEF DiscoveryInv
<1>1. poll' \in Poll
  BY DEF Begin, Poll
<1>2. poll' # NULL
  BY <1>1
<1>3. ChangeIsTracked' /\ PollIsTracked'
  BY <1>2 DEF Begin, ChangeIsTracked, PollIsTracked
<1>4. QED
  BY <1>1, <1>3, PollInv DEF Begin

LEMMA SkipInv == ASSUME DiscoveryInv, NEW p \in Paths, Skip(p) PROVE DiscoveryInv'
<1> USE DEF DiscoveryInv
<1>1. poll \in Poll
  BY DEF Skip, Polling, TypeOK
<1>2. poll' \in Poll
  BY <1>1 DEF Skip, Poll
<1>3. poll' # NULL
  BY <1>2
<1>4. ChangeIsTracked' /\ PollIsTracked'
  BY <1>1, <1>3 DEF Skip, Polling, Poll, ChangeIsTracked, PollIsTracked
<1>5. QED
  BY <1>2, <1>4, PollInv DEF Skip

LEMMA StatInv == ASSUME DiscoveryInv, Stat PROVE DiscoveryInv'
<1> USE DEF DiscoveryInv
<1>1. poll \in Poll
  BY DEF Stat, TypeOK
<1>2. poll' \in Poll
  BY <1>1 DEF Stat, Poll, TypeOK
<1>3. poll' # NULL
  BY <1>2
<1>4. ChangeIsTracked' /\ PollIsTracked'
  BY <1>1, <1>3 DEF Stat, Poll, ChangeIsTracked, PollIsTracked
<1>5. QED
  BY <1>2, <1>4, PollInv DEF Stat

(* What is handed over is answered, unless it is observed again. *)
LEMMA HandOverInv == ASSUME DiscoveryInv, NEW p \in Paths, HandOver(p) PROVE DiscoveryInv'
<1> USE DEF DiscoveryInv
<1>1. poll \in Poll
  BY DEF HandOver, Polled, Polling, TypeOK
<1>2. poll' \in Poll
  BY <1>1 DEF HandOver, Poll
<1>3. poll' # NULL
  BY <1>2
<1>4. ChangeIsTracked' /\ PollIsTracked'
  BY <1>1, <1>3 DEF HandOver, Poll, Polled, Polling, ChangeIsTracked, PollIsTracked
<1>5. QED
  BY <1>2, <1>4, PollInv DEF HandOver

LEMMA PollEndsInv == ASSUME DiscoveryInv, Refused \/ Done PROVE DiscoveryInv'
<1> USE DEF DiscoveryInv
<1>1. ChangeIsTracked' /\ PollIsTracked'
  BY DEF Refused, Done, ChangeIsTracked, PollIsTracked
<1>2. QED
  BY <1>1, PollInv DEF Refused, Done

(* The file probed is one of those the poll has yet to look at. *)
LEMMA ProbeInv == ASSUME DiscoveryInv, NEW p \in Paths, Probe(p) PROVE DiscoveryInv'
<1> USE DEF DiscoveryInv
<1>1. poll \in Poll /\ track[p] \in Track
  BY DEF Probe, Polling, TypeOK, PollIsTracked
<1>2. poll' \in Poll
  BY <1>1 DEF Probe, Poll
<1>3. poll' # NULL
  BY <1>2
<1>4. [track[p] EXCEPT !.probed = poll.age] \in Track
  <2>1. poll.age \in 0 .. Gap + MaxLag
    BY <1>1 DEF Poll
  <2>2. QED
    BY <1>1, <2>1 DEF Track
<1>5. [track[p] EXCEPT !.probed = poll.age] # NULL
  BY <1>4
<1>6. track' = [track EXCEPT ![p] = [track[p] EXCEPT !.probed = poll.age]]
  BY DEF Probe
<1>7. LyricsType' /\ EditIsNoticed'
  BY DEF Probe, lyrics, TypeOK, LyricsType, EditIsNoticed
<1>8. MediaType' /\ TrackType'
  BY <1>2, <1>4, <1>6 DEF Probe, TypeOK, MediaType, TrackType
<1>9. ChangeIsTracked'
  BY <1>1, <1>3, <1>5, <1>6 DEF Probe, Poll, TypeOK, ChangeIsTracked
<1>10. PollIsTracked'
  BY <1>1, <1>3, <1>5, <1>6 DEF Probe, Polling, Poll, TypeOK, PollIsTracked
<1>11. QED
  BY <1>7, <1>8, <1>9, <1>10, PartsGiveInv

-----------------------------------------------------------------------------
(* The poll goes on after an await: the file is still tracked, whatever    *)
(* has been observed meanwhile.                                            *)
LEMMA ResumesTracked ==
  ASSUME DiscoveryInv, Resumes
  PROVE  /\ poll \in Poll /\ poll.at \in Paths /\ poll.at \notin poll.todo
         /\ track[poll.at] \in Track
<1>1. poll \in Poll /\ poll.at # NULL
  BY DEF Resumes, DiscoveryInv, TypeOK
<1>2. poll.at \in Paths
  BY <1>1 DEF Poll
<1>3. QED
  BY <1>1, <1>2 DEF Resumes, DiscoveryInv, TypeOK, PollIsTracked

LEMMA ResumeInv ==
  ASSUME DiscoveryInv, Resumes, UNCHANGED <<file, changes, events, lyrics>>,
         NEW t \in Track \cup {NULL}, track' = [track EXCEPT ![poll.at] = t],
         NEW ready \in SUBSET Paths, Resume(ready),
         poll.ready \subseteq ready,
         unanswered' \subseteq unanswered,
         t = NULL => poll.at \in ready \/ poll.at \notin unanswered'
  PROVE  DiscoveryInv'
<1> USE DEF DiscoveryInv
<1>1. /\ poll \in Poll /\ poll.at \in Paths /\ poll.at \notin poll.todo
      /\ track[poll.at] \in Track
  BY ResumesTracked
<1>2. poll' \in Poll
  BY <1>1 DEF Resume, Poll
<1>3. poll' # NULL
  BY <1>2
<1>4. poll'.at = NULL /\ poll'.todo = poll.todo /\ poll'.ready = ready
  BY <1>1 DEF Resume, Poll
<1>5. LyricsType' /\ EditIsNoticed'
  BY DEF lyrics, TypeOK, LyricsType, EditIsNoticed
<1>6. MediaType' /\ TrackType'
  BY <1>1, <1>2 DEF TypeOK, MediaType, TrackType
<1>7. \A q \in Paths \ {poll.at} : track'[q] = track[q]
  BY DEF TypeOK
<1>8. track'[poll.at] = t
  BY <1>1 DEF TypeOK
<1>9. ChangeIsTracked'
  BY <1>3, <1>4, <1>7, <1>8 DEF TypeOK, ChangeIsTracked
<1>10. PollIsTracked'
  BY <1>1, <1>4, <1>7 DEF Poll, PollIsTracked, Resumes
<1>11. QED
  BY <1>5, <1>6, <1>9, <1>10, PartsGiveInv

LEMMA GoneInv == ASSUME DiscoveryInv, Gone PROVE DiscoveryInv'
<1>1. poll \in Poll
  BY ResumesTracked DEF Gone
<1>2. poll.ready \in SUBSET Paths
  BY <1>1 DEF Poll
<1>3. QED
  BY <1>2, ResumeInv DEF Gone

LEMMA ChangedInv == ASSUME DiscoveryInv, Changed PROVE DiscoveryInv'
<1> DEFINE old == track[poll.at]
           t == [old EXCEPT !.stamp = poll.stat, !.probes = 1]
<1>1. poll \in Poll /\ poll.at \in Paths /\ old \in Track
  BY ResumesTracked DEF Changed
<1>2. poll.ready \in SUBSET Paths /\ poll.stat \in Stamps \cup {NULL}
  BY <1>1 DEF Poll
<1>3. t \in Track
  <2> DEFINE u == [old EXCEPT !.stamp = poll.stat]
  <2>1. u \in Track
    BY <1>1, <1>2 DEF Track
  <2>2. t = [u EXCEPT !.probes = 1]
    OBVIOUS
  <2> HIDE DEF u, t
  <2>3. QED
    BY <2>1, <2>2 DEF Track
<1>4. t # NULL
  BY <1>3
<1>5. track' = [track EXCEPT ![poll.at] = t]
  BY <1>1 DEF Changed, DiscoveryInv, TypeOK
<1> HIDE DEF t, old
<1>6. QED
  BY <1>2, <1>3, <1>4, <1>5, ResumeInv DEF Changed

LEMMA SameInv == ASSUME DiscoveryInv, Same PROVE DiscoveryInv'
<1> DEFINE old == track[poll.at]
           t == [old EXCEPT !.probes = 1]
<1>1. poll \in Poll /\ poll.at \in Paths /\ old \in Track
  BY ResumesTracked DEF Same
<1>2. poll.ready \in SUBSET Paths
  BY <1>1 DEF Poll
<1>3. CASE old.probes = 1
  <2>1. /\ track' = [track EXCEPT ![poll.at] = NULL]
        /\ Resume(poll.ready \cup {poll.at})
    BY <1>3 DEF Same
  <2>2. poll.ready \cup {poll.at} \in SUBSET Paths /\ NULL \in Track \cup {NULL}
    BY <1>1, <1>2
  <2>3. Resumes /\ UNCHANGED <<file, changes, events, lyrics>> /\ unanswered' = unanswered
    BY DEF Same
  <2> HIDE DEF old
  <2>4. QED
    BY <2>1, <2>2, <2>3, ResumeInv
<1>4. CASE old.probes # 1
  <2>1. t \in Track
    BY <1>1 DEF Track
  <2>2. t # NULL
    BY <2>1
  <2>3. track' = [track EXCEPT ![poll.at] = t] /\ Resume(poll.ready)
    BY <1>1, <1>4 DEF Same, DiscoveryInv, TypeOK
  <2> HIDE DEF t, old
  <2>4. QED
    BY <1>2, <2>1, <2>2, <2>3, ResumeInv DEF Same
<1>5. QED
  BY <1>3, <1>4

-----------------------------------------------------------------------------
(* Time passes *)
LEMMA TickInv == ASSUME DiscoveryInv, Tick PROVE DiscoveryInv'
<1> USE DEF DiscoveryInv
<1> DEFINE aged(t) == [t EXCEPT !.seen = Older(@, Quiet + MaxLag),
                                !.probed = IF @ = NULL THEN NULL ELSE Older(@, Gap + MaxLag)]
<1>1. ASSUME NEW t \in Track
      PROVE  aged(t) \in Track
  <2>1. t.seen \in 0 .. Quiet + MaxLag /\ t.probed \in (0 .. Gap + MaxLag) \cup {NULL}
    BY DEF Track
  <2>2. Older(t.seen, Quiet + MaxLag) \in 0 .. Quiet + MaxLag
    BY <2>1 DEF Older
  <2>3. (IF t.probed = NULL THEN NULL ELSE Older(t.probed, Gap + MaxLag))
          \in (0 .. Gap + MaxLag) \cup {NULL}
    BY <2>1 DEF Older
  <2>4. QED
    BY <2>2, <2>3 DEF Track
<1>2. track' = [q \in Paths |-> IF track[q] = NULL THEN NULL ELSE aged(track[q])]
  BY DEF Tick
<1> HIDE DEF aged
<1>3. \A q \in Paths : track'[q] \in Track \cup {NULL} /\ (track'[q] = NULL <=> track[q] = NULL)
  BY <1>1, <1>2 DEF TypeOK
<1>4. (poll = NULL /\ poll' = NULL) \/ (poll # NULL /\ poll' = [poll EXCEPT !.age = @ + 1])
  BY DEF Tick
<1>5. CASE poll = NULL /\ poll' = NULL
  <2>1. MediaType' /\ TrackType' /\ LyricsType'
    BY <1>2, <1>3, <1>5 DEF Tick, lyrics, TypeOK, MediaType, TrackType, LyricsType
  <2>2. ChangeIsTracked' /\ PollIsTracked' /\ EditIsNoticed'
    BY <1>3, <1>5 DEF Tick, lyrics, TypeOK, ChangeIsTracked, PollIsTracked, EditIsNoticed
  <2>3. QED
    BY <2>1, <2>2, PartsGiveInv
<1>6. CASE poll # NULL /\ poll' = [poll EXCEPT !.age = @ + 1]
  <2>1. poll \in Poll
    BY <1>6 DEF TypeOK
  <2>2. poll' \in Poll
    <3>1. poll.age + 1 \in 0 .. MaxLag
      <4>1. poll.age < MaxLag
        BY <1>6 DEF Tick
      <4>2. poll.age \in 0 .. MaxLag
        BY <2>1 DEF Poll
      <4>3. QED
        BY <4>1, <4>2
    <3>2. poll' = [poll EXCEPT !.age = poll.age + 1]
      BY <1>6
    <3>3. QED
      BY <2>1, <3>1, <3>2 DEF Poll
  <2>3. poll' # NULL
    BY <2>2
  <2>4. poll'.todo = poll.todo /\ poll'.at = poll.at /\ poll'.ready = poll.ready
    BY <1>6, <2>1 DEF Poll
  <2>5. MediaType' /\ TrackType' /\ LyricsType'
    BY <1>2, <1>3, <2>2 DEF Tick, lyrics, TypeOK, MediaType, TrackType, LyricsType
  <2>6. ChangeIsTracked' /\ EditIsNoticed'
    BY <1>3, <1>6, <2>3, <2>4 DEF Tick, lyrics, TypeOK, ChangeIsTracked, EditIsNoticed
  <2>7. PollIsTracked'
    BY <1>3, <1>6, <2>1, <2>4 DEF Poll, PollIsTracked
  <2>8. QED
    BY <2>5, <2>6, <2>7, PartsGiveInv
<1>7. QED
  BY <1>4, <1>5, <1>6

LEMMA StutterInv == ASSUME DiscoveryInv, UNCHANGED vars PROVE DiscoveryInv'
BY DEF vars, media, lyrics, DiscoveryInv, TypeOK, ChangeIsTracked, EditIsNoticed, PollIsTracked

LEMMA NextInv == DiscoveryInv /\ [Next]_vars => DiscoveryInv'
<1> SUFFICES ASSUME DiscoveryInv, [Next]_vars
             PROVE  DiscoveryInv'
  OBVIOUS
<1>1. CASE \E p \in Paths : Change(p) \/ Delete(p) \/ Observe(p)
  BY <1>1, FilesInv
<1>2. CASE \E p \in Paths : WriteSidecar(p) \/ SidecarStep(p)
  <2>1. PICK p \in Paths : WriteSidecar(p) \/ SidecarStep(p)
    BY <1>2
  <2>2. CASE WriteSidecar(p)
    BY <2>2, ChangeTextInv
  <2>3. CASE SidecarStep(p)
    BY <2>3, RememberInv, NoticeInv, ReadHashInv, HandlerDiesInv, IgnoreInv, DiffersInv
       DEF SidecarStep
  <2>4. QED
    BY <2>1, <2>2, <2>3
<1>3. CASE \E p \in Paths, text \in Texts \cup {NULL} : EditSidecar(p, text)
  BY <1>3, ChangeTextInv
<1>4. CASE PollStep
  <2>1. CASE Begin \/ Stat \/ Gone \/ Changed \/ Same \/ Done
    BY <2>1, BeginInv, StatInv, GoneInv, ChangedInv, SameInv, PollEndsInv
  <2>2. CASE \E p \in Paths : Skip(p) \/ Probe(p) \/ HandOver(p)
    BY <2>2, SkipInv, ProbeInv, HandOverInv
  <2>3. QED
    BY <1>4, <2>1, <2>2 DEF PollStep
<1>5. CASE Refused
  BY <1>5, PollEndsInv
<1>6. CASE Tick
  BY <1>6, TickInv
<1>7. CASE UNCHANGED vars
  BY <1>7, StutterInv
<1>8. QED
  BY <1>1, <1>2, <1>3, <1>4, <1>5, <1>6, <1>7 DEF Next

-----------------------------------------------------------------------------
(* The file whose stat is awaited was quiet when the poll began, or it has *)
(* been observed since and has no probe to its name.                       *)
AwaitedWasQuiet ==
  poll # NULL /\ poll.at # NULL /\ track[poll.at].probes = 1 => IsQuiet(poll.at)

LEMMA ObservedQuiet ==
  ASSUME DiscoveryInv, AwaitedWasQuiet, NEW p \in Paths, Observed(p), UNCHANGED poll
  PROVE  AwaitedWasQuiet'
<1>1. track[p] \in Track \cup {NULL}
  BY DEF DiscoveryInv, TypeOK
<1>2. track' = [track EXCEPT ![p] = Seen(track[p])] /\ track \in [Paths -> Track \cup {NULL}]
  BY DEF Observed, DiscoveryInv, TypeOK
<1>3. Seen(track[p]).probes = 0
  <2>1. CASE track[p] = NULL
    BY <2>1 DEF Seen, New
  <2>2. CASE track[p] # NULL
    BY <1>1, <2>2 DEF Seen, Track
  <2>3. QED
    BY <2>1, <2>2
<1>4. track'[p].probes = 0 /\ \A q \in Paths \ {p} : track'[q] = track[q]
  BY <1>2, <1>3
<1>5. SUFFICES ASSUME poll # NULL, poll.at # NULL, track'[poll.at].probes = 1
               PROVE  track'[poll.at].seen - poll.age >= Quiet
  BY DEF AwaitedWasQuiet, IsQuiet
<1>6. poll.at \in Paths \ {p}
  BY <1>4, <1>5 DEF DiscoveryInv, TypeOK, Poll
<1>7. QED
  BY <1>4, <1>5, <1>6 DEF AwaitedWasQuiet, IsQuiet

LEMMA TickQuiet ==
  ASSUME DiscoveryInv, AwaitedWasQuiet, Tick
  PROVE  AwaitedWasQuiet'
<1>1. SUFFICES ASSUME poll' # NULL, poll'.at # NULL, track'[poll'.at].probes = 1
               PROVE  track'[poll'.at].seen - poll'.age >= Quiet
  BY DEF AwaitedWasQuiet, IsQuiet
<1>2. poll # NULL /\ poll' = [poll EXCEPT !.age = @ + 1]
  BY <1>1 DEF Tick
<1>3. poll \in Poll
  BY <1>2 DEF DiscoveryInv, TypeOK
<1>4. poll'.age = poll.age + 1 /\ poll'.at = poll.at /\ poll.age \in 0 .. MaxLag
  BY <1>2, <1>3 DEF Poll
<1>5. poll.age < MaxLag
  BY <1>2 DEF Tick
<1> DEFINE t == track[poll.at]
<1>6. poll.at \in Paths /\ t \in Track /\ t # NULL
  BY <1>1, <1>2, <1>3, <1>4 DEF Poll, DiscoveryInv, TypeOK, PollIsTracked
<1>7. track'[poll.at] = [t EXCEPT !.seen = Older(@, Quiet + MaxLag),
                                  !.probed = IF @ = NULL THEN NULL ELSE Older(@, Gap + MaxLag)]
  BY <1>6 DEF Tick
<1>8. track'[poll.at].seen = Older(t.seen, Quiet + MaxLag) /\ track'[poll.at].probes = t.probes
  BY <1>6, <1>7 DEF Track
<1>9. t.seen - poll.age >= Quiet /\ t.seen \in 0 .. Quiet + MaxLag
  BY <1>1, <1>2, <1>4, <1>6, <1>8 DEF AwaitedWasQuiet, IsQuiet, Track
<1> HIDE DEF t
<1>10. QED
  BY <1>4, <1>5, <1>8, <1>9 DEF Older

(* A step that begins no await, and one that goes on with it *)
LEMMA NoAwaitQuiet ==
  ASSUME poll' = NULL \/ poll'.at = NULL
  PROVE  AwaitedWasQuiet'
BY DEF AwaitedWasQuiet

LEMMA PollQuiet ==
  ASSUME DiscoveryInv, AwaitedWasQuiet, PollStep \/ Refused
  PROVE  AwaitedWasQuiet'
<1>1. CASE Begin \/ Refused \/ Done
  BY <1>1, NoAwaitQuiet DEF Begin, Refused, Done
<1>2. CASE Stat
  <2>1. poll \in Poll /\ poll # NULL
    BY <1>2 DEF Stat, DiscoveryInv, TypeOK
  <2>2. poll'.at = poll.at /\ poll'.age = poll.age
    BY <1>2, <2>1 DEF Stat, Poll
  <2>3. UNCHANGED track
    BY <1>2 DEF Stat
  <2>4. QED
    BY <2>1, <2>2, <2>3 DEF AwaitedWasQuiet, IsQuiet
<1>3. CASE Gone \/ Changed \/ Same
  <2>1. PICK ready : Resume(ready)
    BY <1>3 DEF Gone, Changed, Same
  <2>2. poll \in Poll
    BY <1>3, ResumesTracked DEF Gone, Changed, Same
  <2>3. poll'.at = NULL
    BY <2>1, <2>2 DEF Resume, Poll
  <2>4. QED
    BY <2>3, NoAwaitQuiet
<1>4. ASSUME NEW p \in Paths, Skip(p) \/ HandOver(p)
      PROVE  AwaitedWasQuiet'
  <2>1. poll \in Poll /\ poll.at = NULL
    BY <1>4 DEF Skip, HandOver, Polled, Polling, DiscoveryInv, TypeOK
  <2>2. poll'.at = NULL
    BY <1>4, <2>1 DEF Skip, HandOver, Poll
  <2>3. QED
    BY <2>2, NoAwaitQuiet
<1>5. ASSUME NEW p \in Paths, Probe(p)
      PROVE  AwaitedWasQuiet'
  <2>1. poll \in Poll /\ track[p] \in Track
    BY <1>5 DEF Probe, Polling, DiscoveryInv, TypeOK, PollIsTracked
  <2>2. poll'.at = p /\ poll'.age = poll.age
    BY <1>5, <2>1 DEF Probe, Poll
  <2>3. track' = [track EXCEPT ![p] = [track[p] EXCEPT !.probed = poll.age]]
    BY <1>5 DEF Probe
  <2>4. track'[p] = [track[p] EXCEPT !.probed = poll.age]
    BY <2>3 DEF DiscoveryInv, TypeOK
  <2>5. track'[p].seen = track[p].seen
    BY <2>1, <2>4 DEF Track
  <2>6. track[p].seen - poll.age >= Quiet
    BY <1>5 DEF Probe, IsQuiet
  <2>7. QED
    BY <2>2, <2>5, <2>6 DEF AwaitedWasQuiet, IsQuiet
<1>6. QED
  BY <1>1, <1>2, <1>3, <1>4, <1>5 DEF PollStep

LEMMA NextQuiet == DiscoveryInv /\ AwaitedWasQuiet /\ [Next]_vars => AwaitedWasQuiet'
<1> SUFFICES ASSUME DiscoveryInv, AwaitedWasQuiet, [Next]_vars
             PROVE  AwaitedWasQuiet'
  OBVIOUS
<1>1. CASE UNCHANGED <<track, poll>>
  BY <1>1 DEF AwaitedWasQuiet, IsQuiet
<1>2. CASE \E p \in Paths : Change(p) \/ Delete(p) \/ Observe(p)
  BY <1>1, <1>2, ObservedQuiet DEF Change, Delete, Observe
<1>3. CASE \E p \in Paths : WriteSidecar(p) \/ SidecarStep(p)
  BY <1>1, <1>3, ObservedQuiet
     DEF WriteSidecar, ChangeText, SidecarStep, Remember, Notice, ReadHash, HandlerDies,
         Ignore, Differs, media
<1>4. CASE \E p \in Paths, text \in Texts \cup {NULL} : EditSidecar(p, text)
  BY <1>1, <1>4 DEF EditSidecar, ChangeText, media
<1>5. CASE PollStep \/ Refused
  BY <1>5, PollQuiet
<1>6. CASE Tick
  BY <1>6, TickQuiet
<1>7. CASE UNCHANGED vars
  BY <1>1, <1>7 DEF vars, media
<1>8. QED
  BY <1>2, <1>3, <1>4, <1>5, <1>6, <1>7 DEF Next

(* Only with the same stamp does a file become ready. *)
LEMMA ReadyStep ==
  ASSUME DiscoveryInv, AwaitedWasQuiet, [Next]_vars, NEW p \in Paths, BecomesReady(p)
  PROVE  IsQuiet(p) /\ track[p].probes = 1 /\ poll.stat = track[p].stamp
<1>1. poll \in Poll /\ poll # NULL /\ poll' # NULL /\ p \in poll'.ready /\ p \notin poll.ready
  BY DEF BecomesReady, DiscoveryInv, TypeOK
<1>2. CASE UNCHANGED poll
  BY <1>1, <1>2
<1>3. CASE \E q \in Paths : Skip(q) \/ Probe(q) \/ HandOver(q)
  <2>1. poll'.ready \subseteq poll.ready
    BY <1>1, <1>3 DEF Skip, Probe, HandOver, Poll
  <2>2. QED
    BY <1>1, <2>1
<1>4. CASE Stat \/ Tick
  <2>1. poll'.ready = poll.ready
    BY <1>1, <1>4 DEF Stat, Tick, Poll
  <2>2. QED
    BY <1>1, <2>1
<1>5. CASE Gone \/ Changed
  <2>1. poll'.ready = poll.ready
    BY <1>1, <1>5 DEF Gone, Changed, Resume, Poll
  <2>2. QED
    BY <1>1, <2>1
<1>6. CASE Same
  <2>1. \/ Resume(poll.ready)
        \/ track[poll.at].probes = 1 /\ Resume(poll.ready \cup {poll.at})
    BY <1>6 DEF Same
  <2>2. track[poll.at].probes = 1 /\ p = poll.at
    <3>1. CASE Resume(poll.ready)
      <4>1. poll'.ready = poll.ready
        BY <1>1, <3>1 DEF Resume, Poll
      <4>2. QED
        BY <1>1, <4>1
    <3>2. CASE track[poll.at].probes = 1 /\ Resume(poll.ready \cup {poll.at})
      <4>1. poll'.ready = poll.ready \cup {poll.at}
        BY <1>1, <3>2 DEF Resume, Poll
      <4>2. QED
        BY <1>1, <3>2, <4>1
    <3>3. QED
      BY <2>1, <3>1, <3>2
  <2>3. poll.at # NULL /\ poll.stat = track[poll.at].stamp
    BY <1>6 DEF Same, Resumes
  <2>4. QED
    BY <1>1, <2>2, <2>3 DEF AwaitedWasQuiet
<1>7. CASE Begin \/ Refused \/ Done
  BY <1>1, <1>7 DEF Begin, Refused, Done
<1>8. QED
  BY <1>2, <1>3, <1>4, <1>5, <1>6, <1>7
     DEF Next, PollStep, SidecarStep, vars, media, Change, Delete, Observe, WriteSidecar,
         EditSidecar, ChangeText, Remember, Notice, ReadHash, HandlerDies, Ignore, Differs

-----------------------------------------------------------------------------
THEOREM DiscoveryInvariant == Spec => []DiscoveryInv
BY InitInv, NextInv, PTL DEF Spec

THEOREM TypeCorrect == Spec => []TypeOK
<1>1. DiscoveryInv => TypeOK
  BY DEF DiscoveryInv
<1>2. QED
  BY <1>1, DiscoveryInvariant, PTL

(* No change that has been observed is lost between events, probes and     *)
(* polls: it stays tracked until its file is handed over or given up.      *)
THEOREM ChangesStayTracked == Spec => []ChangeIsTracked
<1>1. DiscoveryInv => ChangeIsTracked
  BY DEF DiscoveryInv
<1>2. QED
  BY <1>1, DiscoveryInvariant, PTL

(* A file is ready only when the last event observed of it lies the quiet  *)
(* period back, and two probes have seen it unchanged.                     *)
THEOREM ReadyFilesWereQuiet == Spec => ReadyWasQuiet
<1>1. Init => AwaitedWasQuiet
  BY DEF Init, AwaitedWasQuiet
<1>2. DiscoveryInv /\ AwaitedWasQuiet /\ [Next]_vars =>
        [\A p \in Paths : BecomesReady(p) =>
           IsQuiet(p) /\ track[p].probes = 1 /\ poll.stat = track[p].stamp]_vars
  BY ReadyStep
<1>3. QED
  BY <1>1, <1>2, NextQuiet, DiscoveryInvariant, PTL DEF Spec, ReadyWasQuiet

(* No edit of the user's is taken for the daemon's own: one that is not    *)
(* observed is on its way to be, unless it is not UTF-8 and a handler has  *)
(* died of it.                                                             *)
THEOREM EditsAreNoticed == Spec => []EditIsNoticed
<1>1. DiscoveryInv => EditIsNoticed
  BY DEF DiscoveryInv
<1>2. QED
  BY <1>1, DiscoveryInvariant, PTL

=============================================================================
