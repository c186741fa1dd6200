--------------------------- MODULE Provider_proof ---------------------------
(***************************************************************************)
(* Proofs about lookups, for any number of callers, any interval, and any  *)
(* responses: what the client never returns; that the pacer's queue holds  *)
(* who waits; that to the breaker all of it is calls that end; that the    *)
(* circuit, for any threshold and windows, is open as long as it should    *)
(* be; and that requests keep their distance.                              *)
(*                                                                         *)
(* Each of the four parts has an inductive invariant of its own: FetchOK   *)
(* and QueueOK of lookups, CircuitInv of the breaker, which is inductive   *)
(* for the steps of Circuit and so, through the refinement, for those of   *)
(* lookups, and SlotInv of the pacer's clock.                              *)
(***************************************************************************)
EXTENDS Provider, SequenceTheorems, TLAPS

LEMMA PayloadResult ==
  ASSUME NEW p \in Lrc!Payload
  PROVE  /\ Lrc!FromPayload(p).status = "matched" <=> Lrc!HasText(p) /\ p.title /\ p.artist
         /\ Lrc!FromPayload(p).status \in {"matched", "ambiguous", "invalid_content"}
         /\ Lrc!FromPayload(p).status = "invalid_content" <=> ~Lrc!HasText(p)
<1>1. p.title \in BOOLEAN /\ p.artist \in BOOLEAN /\ p.duration \in BOOLEAN
  BY DEF Lrc!Payload
<1>2. Lrc!Score(p) >= Lrc!MatchThreshold <=> p.title /\ p.artist
  BY <1>1 DEF Lrc!Score, Lrc!MatchThreshold
<1>3. QED
  BY <1>2 DEF Lrc!FromPayload, Lrc!Ends

(* No failure that is reported for a response counts as a match. *)
LEMMA FailureResult ==
  ASSUME NEW r, Lrc!HttpFailure(r) # NULL
  PROVE  Lrc!HttpFailure(r).status \in {"transient_failure", "rejected"}
BY DEF Lrc!HttpFailure, Lrc!Ends

(* A lookup matches only a payload with a text whose title and artist are  *)
(* the track's: that the duration agrees makes up for neither.             *)
THEOREM GetMatchesTheSong ==
  ASSUME NEW r, r.body = NULL \/ r.body \in Lrc!Payload,
         Lrc!GetResult(r).status = "matched"
  PROVE  r.body # NULL /\ Lrc!HasText(r.body) /\ r.body.title /\ r.body.artist
<1>1. r.code # 404 /\ Lrc!HttpFailure(r) = NULL /\ r.body # NULL
  BY FailureResult DEF Lrc!GetResult, Lrc!Ends
<1>2. Lrc!GetResult(r) = Lrc!FromPayload(r.body)
  BY <1>1 DEF Lrc!GetResult
<1>3. QED
  BY <1>1, <1>2, PayloadResult

(* Of candidates there is a best one. *)
Rank(p) == 2 * Lrc!Score(p) + (IF p.synced THEN 1 ELSE 0)

LEMMA RanksHaveMaximum ==
  ASSUME NEW R \in SUBSET {0, 1, 20, 21, 90, 91, 110, 111, 180, 181, 200, 201}, R # {}
  PROVE  \E m \in R : \A n \in R : n <= m
<1> SUFFICES ASSUME \A m \in R : \E n \in R : m < n
             PROVE  FALSE
  OBVIOUS
<1>1. 201 \notin R
  OBVIOUS
<1>2. 200 \notin R /\ 181 \notin R
  BY <1>1
<1>3. 180 \notin R /\ 111 \notin R
  BY <1>1, <1>2
<1>4. 110 \notin R /\ 91 \notin R
  BY <1>1, <1>2, <1>3
<1>5. 90 \notin R /\ 21 \notin R
  BY <1>1, <1>2, <1>3, <1>4
<1>6. 20 \notin R /\ 1 \notin R
  BY <1>1, <1>2, <1>3, <1>4, <1>5
<1>7. 0 \notin R
  BY <1>1, <1>2, <1>3, <1>4, <1>5, <1>6
<1>8. PICK n \in R : TRUE
  OBVIOUS
<1>9. QED
  BY <1>1, <1>2, <1>3, <1>4, <1>5, <1>6, <1>7, <1>8

LEMMA BestExists ==
  ASSUME NEW ps \in SUBSET Lrc!Payload, ps # {}
  PROVE  Lrc!Best(ps) \in ps
<1>1. ASSUME NEW p \in Lrc!Payload
      PROVE  Rank(p) \in {0, 1, 20, 21, 90, 91, 110, 111, 180, 181, 200, 201}
  <2>1. p.title \in BOOLEAN /\ p.artist \in BOOLEAN /\ p.duration \in BOOLEAN /\ p.synced \in BOOLEAN
    BY DEF Lrc!Payload
  <2>2. QED
    BY <2>1 DEF Rank, Lrc!Score
<1>2. ASSUME NEW p \in Lrc!Payload, NEW q \in Lrc!Payload, Rank(q) <= Rank(p)
      PROVE  Lrc!AtLeast(p, q)
  <2>1. /\ p.title \in BOOLEAN /\ p.artist \in BOOLEAN /\ p.duration \in BOOLEAN /\ p.synced \in BOOLEAN
        /\ q.title \in BOOLEAN /\ q.artist \in BOOLEAN /\ q.duration \in BOOLEAN /\ q.synced \in BOOLEAN
    BY DEF Lrc!Payload
  <2>2. Lrc!Score(p) \in Int /\ Lrc!Score(q) \in Int
    BY <2>1 DEF Lrc!Score
  <2>3. QED
    BY <1>2, <2>1, <2>2 DEF Lrc!AtLeast, Rank
<1> DEFINE R == {Rank(p) : p \in ps}
<1>3. R \in SUBSET {0, 1, 20, 21, 90, 91, 110, 111, 180, 181, 200, 201} /\ R # {}
  BY <1>1
<1>4. \E m \in R : \A n \in R : n <= m
  BY <1>3, RanksHaveMaximum
<1>5. \E p \in ps : \A q \in ps : Rank(q) <= Rank(p)
  BY <1>4
<1>6. \E p \in ps : \A q \in ps : Lrc!AtLeast(p, q)
  BY <1>2, <1>5
<1>7. QED
  BY <1>6 DEF Lrc!Best

(* So does a search, and a search never ends in ambiguous: a candidate     *)
(* that is not good enough counts as nothing found.                        *)
THEOREM SearchMatchesTheSong ==
  ASSUME NEW r, r.body = NULL \/ r.body \in SUBSET Lrc!Payload
  PROVE  /\ Lrc!SearchResult(r).status # "ambiguous"
         /\ Lrc!SearchResult(r).status = "matched" =>
              \E p \in r.body : Lrc!HasText(p) /\ p.title /\ p.artist
<1> DEFINE best == Lrc!Best(Lrc!Usable(r.body))
<1>1. CASE Lrc!HttpFailure(r) # NULL
  BY <1>1, FailureResult DEF Lrc!SearchResult
<1>2. CASE Lrc!HttpFailure(r) = NULL /\ r.body = NULL
  BY <1>2 DEF Lrc!SearchResult, Lrc!Ends
<1>3. CASE Lrc!HttpFailure(r) = NULL /\ r.body # NULL
           /\ (Lrc!Usable(r.body) = {} \/ Lrc!Score(best) < Lrc!MatchThreshold)
  BY <1>3 DEF Lrc!SearchResult, Lrc!Ends
<1>4. CASE Lrc!HttpFailure(r) = NULL /\ r.body # NULL
           /\ Lrc!Usable(r.body) # {} /\ ~(Lrc!Score(best) < Lrc!MatchThreshold)
  <2>1. Lrc!SearchResult(r) = Lrc!FromPayload(best)
    BY <1>4 DEF Lrc!SearchResult
  <2>2. best \in r.body /\ best \in Lrc!Payload /\ Lrc!HasText(best)
    BY <1>4, BestExists DEF Lrc!Usable
  <2>3. best.title \in BOOLEAN /\ best.artist \in BOOLEAN /\ best.duration \in BOOLEAN
    BY <2>2 DEF Lrc!Payload
  <2> HIDE DEF best
  <2>4. best.title /\ best.artist
    BY <1>4, <2>3 DEF Lrc!Score, Lrc!MatchThreshold
  <2>5. Lrc!FromPayload(best).status = "matched"
    BY <2>2, <2>4, PayloadResult
  <2>6. QED
    BY <2>1, <2>2, <2>4, <2>5
<1>5. QED
  BY <1>1, <1>2, <1>3, <1>4

-----------------------------------------------------------------------------
FetchOK == fetch \in [Callers -> Fetch \cup {NULL}]

(* A request that goes on from one place to another has the same role. *)
LEMMA SameCall ==
  ASSUME FetchOK, NEW c \in Callers, fetch[c] # NULL, NEW f \in Fetch, f.role = fetch[c].role,
         fetch' = [fetch EXCEPT ![c] = f]
  PROVE  CallOf' = CallOf
<1>1. f # NULL
  BY NullAssumption
<1>2. \A d \in Callers : d # c => fetch'[d] = fetch[d]
  BY DEF FetchOK
<1>3. fetch'[c] = f
  BY DEF FetchOK
<1>4. \A d \in Callers : (IF fetch'[d] = NULL THEN "none" ELSE fetch'[d].role)
                       = (IF fetch[d] = NULL THEN "none" ELSE fetch[d].role)
  BY <1>1, <1>2, <1>3
<1>5. QED
  BY <1>4 DEF CallOf

LEMMA FetchInit == Init => FetchOK
BY DEF Init, FetchOK

LEMMA FetchNext == FetchOK /\ [Next]_vars => FetchOK'
<1> SUFFICES ASSUME FetchOK, [Next]_vars
             PROVE  FetchOK'
  OBVIOUS
<1>1. CASE Tick \/ UNCHANGED vars
  BY <1>1 DEF Tick, vars, FetchOK
<1>2. ASSUME NEW c \in Callers, LetOut(c)
      PROVE  FetchOK'
  <2>1. Queued("request", "get") \in Fetch /\ Queued("probe", "get") \in Fetch
    BY DEF Queued, Fetch
  <2>2. QED
    BY <1>2, <2>1 DEF LetOut, FetchOK
<1>3. ASSUME NEW c \in Callers, Sleep(c) \/ Send(c)
      PROVE  FetchOK'
  <2>1. fetch[c] \in Fetch
    BY <1>3 DEF Sleep, Send, HasTurn, Waits, FetchOK
  <2>2. [fetch[c] EXCEPT !.at = "asleep"] \in Fetch /\ [fetch[c] EXCEPT !.at = "sent"] \in Fetch
    BY <2>1 DEF Fetch
  <2>3. QED
    BY <1>3, <2>2 DEF Sleep, Send, FetchOK
<1>4. ASSUME NEW c \in Callers, NEW result, EndsWith(c, result)
      PROVE  FetchOK'
  BY <1>4 DEF EndsWith, FetchOK
<1>5. ASSUME NEW c \in Callers, NEW r, FallBack(c, r)
      PROVE  FetchOK'
  <2>1. fetch[c] \in Fetch
    BY <1>5 DEF FallBack, Sent, FetchOK
  <2>2. Queued(fetch[c].role, "search") \in Fetch
    BY <2>1 DEF Queued, Fetch
  <2>3. QED
    BY <1>5, <2>2 DEF FallBack, FetchOK
<1>6. ASSUME NEW c \in Callers, Raised(c)
      PROVE  FetchOK'
  BY <1>6 DEF Raised, FetchOK
<1>7. ASSUME NEW c \in Callers, Answered(c)
      PROVE  FetchOK'
  BY <1>4, <1>5, <1>7 DEF Answered, GetAnswered, SearchAnswered, Unanswered
<1>8. QED
  BY <1>1, <1>2, <1>3, <1>6, <1>7 DEF Next, GoesOn

-----------------------------------------------------------------------------
(* Who waits is in the queue, once; who sleeps is at its head.             *)
QueueOK ==
  /\ turn \in Seq(Callers)
  /\ IsInjective(turn)
  /\ \A c \in Callers : Waits(c) <=> \E i \in DOMAIN turn : turn[i] = c
  /\ \A c \in Callers : fetch[c] # NULL /\ fetch[c].at = "asleep" => c = Head(turn)

LEMMA QueueFacts ==
  ASSUME QueueOK
  PROVE  /\ Len(turn) \in Nat /\ DOMAIN turn = 1 .. Len(turn)
         /\ \A i \in 1 .. Len(turn) : turn[i] \in Callers
         /\ \A i, k \in 1 .. Len(turn) : turn[i] = turn[k] => i = k
         /\ \A c \in Callers : Waits(c) <=> \E i \in 1 .. Len(turn) : turn[i] = c
         /\ turn # <<>> <=> Len(turn) > 0
         /\ turn # <<>> => Head(turn) = turn[1]
         /\ \A c \in Callers : fetch[c] # NULL /\ fetch[c].at = "asleep" => Len(turn) > 0 /\ c = turn[1]
<1>1. /\ Len(turn) \in Nat /\ DOMAIN turn = 1 .. Len(turn)
      /\ \A i \in 1 .. Len(turn) : turn[i] \in Callers
      /\ turn # <<>> <=> Len(turn) > 0
      /\ turn # <<>> => Head(turn) = turn[1]
  BY DEF QueueOK
<1>2. \A i, k \in 1 .. Len(turn) : turn[i] = turn[k] => i = k
  BY <1>1 DEF QueueOK, IsInjective
<1>3. \A c \in Callers : Waits(c) <=> \E i \in 1 .. Len(turn) : turn[i] = c
  BY <1>1 DEF QueueOK
<1>4. ASSUME NEW c \in Callers, fetch[c] # NULL, fetch[c].at = "asleep"
      PROVE  Len(turn) > 0 /\ c = turn[1]
  <2>1. Waits(c)
    BY <1>4 DEF Waits
  <2>2. Len(turn) > 0
    BY <1>1, <1>3, <2>1
  <2>3. QED
    BY <1>1, <1>4, <2>2 DEF QueueOK
<1>5. QED
  BY <1>1, <1>2, <1>3, <1>4

(* The same, of the next state, of a queue given by its elements *)
LEMMA QueueFrom ==
  ASSUME turn' \in Seq(Callers),
         \A i, k \in 1 .. Len(turn') : turn'[i] = turn'[k] => i = k,
         \A c \in Callers : Waits(c)' <=> \E i \in 1 .. Len(turn') : turn'[i] = c,
         \A c \in Callers : fetch'[c] # NULL /\ fetch'[c].at = "asleep" => Len(turn') > 0 /\ c = turn'[1]
  PROVE  QueueOK'
<1>1. Len(turn') \in Nat /\ DOMAIN turn' = 1 .. Len(turn') /\ (Len(turn') > 0 => Head(turn') = turn'[1])
  OBVIOUS
<1>2. QED
  BY <1>1 DEF QueueOK, IsInjective

(* A lookup asks for its turn at the end of the queue. *)
LEMMA Joins ==
  ASSUME FetchOK, QueueOK, NEW c \in Callers, ~Waits(c), NEW f \in Fetch, f.at = "turn",
         fetch' = [fetch EXCEPT ![c] = f], turn' = Append(turn, c)
  PROVE  QueueOK'
<1>1. /\ turn' \in Seq(Callers) /\ Len(turn') = Len(turn) + 1 /\ turn'[Len(turn) + 1] = c
      /\ \A i \in 1 .. Len(turn) : turn'[i] = turn[i]
  BY DEF QueueOK
<1>2. f # NULL /\ fetch'[c] = f /\ \A d \in Callers : d # c => fetch'[d] = fetch[d]
  BY NullAssumption DEF FetchOK
<1>3. ~\E i \in 1 .. Len(turn) : turn[i] = c
  BY QueueFacts
<1>4. \A i, k \in 1 .. Len(turn') : turn'[i] = turn'[k] => i = k
  BY <1>1, <1>3, QueueFacts
<1>5. \A d \in Callers : Waits(d)' <=> Waits(d) \/ d = c
  BY <1>2 DEF Waits
<1>6. \A d \in Callers : (\E i \in 1 .. Len(turn') : turn'[i] = d) <=> d = c \/ \E i \in 1 .. Len(turn) : turn[i] = d
  <2> TAKE d \in Callers
  <2>1. d = c => Len(turn) + 1 \in 1 .. Len(turn') /\ turn'[Len(turn) + 1] = d
    BY <1>1, QueueFacts
  <2>2. \A i \in 1 .. Len(turn) : i \in 1 .. Len(turn')
    BY <1>1, QueueFacts
  <2>3. \A i \in 1 .. Len(turn') : i = Len(turn) + 1 \/ i \in 1 .. Len(turn)
    BY <1>1, QueueFacts
  <2>4. QED
    BY <1>1, <2>1, <2>2, <2>3
<1>7. \A d \in Callers : fetch'[d] # NULL /\ fetch'[d].at = "asleep" => Len(turn') > 0 /\ d = turn'[1]
  BY <1>1, <1>2, QueueFacts
<1>8. QED
  BY <1>1, <1>4, <1>5, <1>6, <1>7, QueueFacts, QueueFrom

(* Whatever becomes of a lookup that does not wait, the queue is the same. *)
LEMMA Stays ==
  ASSUME FetchOK, QueueOK, NEW c \in Callers, ~Waits(c),
         fetch' = [fetch EXCEPT ![c] = NULL], turn' = turn
  PROVE  QueueOK'
<1>1. fetch'[c] = NULL /\ \A d \in Callers : d # c => fetch'[d] = fetch[d]
  BY DEF FetchOK
<1>2. \A d \in Callers : Waits(d)' <=> Waits(d)
  BY <1>1 DEF Waits
<1>3. QED
  BY <1>1, <1>2 DEF QueueOK

(* Somebody leaves the queue at some place. *)
LEMMA Leaves ==
  ASSUME FetchOK, QueueOK, NEW i \in 1 .. Len(turn), turn' = RemoveAt(turn, i),
         NEW f \in Fetch \cup {NULL}, f = NULL \/ f.at = "sent",
         fetch' = [fetch EXCEPT ![turn[i]] = f]
  PROVE  QueueOK'
<1> PICK c \in Callers : c = turn[i]
  BY QueueFacts
<1>0. i \in Nat /\ 1 <= i /\ i <= Len(turn) /\ Len(turn) \in Nat
  BY QueueFacts
<1>1. /\ turn' \in Seq(Callers) /\ Len(turn') = Len(turn) - 1
      /\ \A k \in 1 .. Len(turn) - 1 : turn'[k] = IF k < i THEN turn[k] ELSE turn[k + 1]
  <2> DEFINE a == SubSeq(turn, 1, i - 1)
             b == SubSeq(turn, i + 1, Len(turn))
  <2>1. /\ a \in Seq(Callers) /\ Len(a) = i - 1 /\ \A k \in 1 .. i - 1 : a[k] = turn[k]
        /\ b \in Seq(Callers) /\ Len(b) = Len(turn) - i /\ \A k \in 1 .. Len(turn) - i : b[k] = turn[k + i]
    BY <1>0 DEF QueueOK
  <2>2. turn' = a \o b
    BY DEF RemoveAt
  <2> HIDE DEF a, b
  <2>3. /\ a \o b \in Seq(Callers) /\ Len(a \o b) = Len(a) + Len(b)
        /\ \A k \in 1 .. Len(a) + Len(b) : (a \o b)[k] = IF k <= Len(a) THEN a[k] ELSE b[k - Len(a)]
    BY <2>1, ConcatProperties
  <2>4. Len(a) + Len(b) = Len(turn) - 1
    BY <1>0, <2>1
  <2>5. ASSUME NEW k \in 1 .. Len(turn) - 1
        PROVE  turn'[k] = IF k < i THEN turn[k] ELSE turn[k + 1]
    <3>1. CASE k < i
      BY <1>0, <2>1, <2>2, <2>3, <2>4, <3>1
    <3>2. CASE ~(k < i)
      <4>1. k - (i - 1) \in 1 .. Len(turn) - i /\ ~(k <= i - 1) /\ (k - (i - 1)) + i = k + 1
        BY <1>0, <3>2
      <4>2. turn'[k] = b[k - (i - 1)]
        BY <2>1, <2>2, <2>3, <2>4, <4>1
      <4>3. QED
        BY <2>1, <3>2, <4>1, <4>2
    <3>3. QED
      BY <3>1, <3>2
  <2>6. QED
    BY <2>2, <2>3, <2>4, <2>5
<1>2. fetch'[c] = f /\ \A d \in Callers : d # c => fetch'[d] = fetch[d]
  BY DEF FetchOK
<1>3. \A k, l \in 1 .. Len(turn') : turn'[k] = turn'[l] => k = l
  <2> SUFFICES ASSUME NEW k \in 1 .. Len(turn) - 1, NEW l \in 1 .. Len(turn) - 1, turn'[k] = turn'[l]
               PROVE  k = l
    BY <1>1
  <2> PICK x \in 1 .. Len(turn) : x = IF k < i THEN k ELSE k + 1
    BY <1>0
  <2> PICK y \in 1 .. Len(turn) : y = IF l < i THEN l ELSE l + 1
    BY <1>0
  <2>1. turn'[k] = turn[x] /\ turn'[l] = turn[y]
    BY <1>1
  <2>2. \A m, n \in 1 .. Len(turn) : turn[m] = turn[n] => m = n
    BY QueueFacts
  <2>3. turn[x] = turn[y]
    BY <2>1
  <2>4. x = y
    BY <2>2, <2>3
  <2>5. QED
    BY <1>0, <2>4
<1>4. \A d \in Callers : Waits(d)' <=> Waits(d) /\ d # c
  <2>1. ~Waits(c)'
    BY <1>2 DEF Waits
  <2>2. \A d \in Callers : d # c => (Waits(d)' <=> Waits(d))
    BY <1>2 DEF Waits
  <2>3. QED
    BY <2>1, <2>2
<1>5. ASSUME NEW d \in Callers
      PROVE  (\E k \in 1 .. Len(turn') : turn'[k] = d) <=> d # c /\ \E k \in 1 .. Len(turn) : turn[k] = d
  <2>1. ASSUME NEW k \in 1 .. Len(turn) - 1, turn'[k] = d
        PROVE  d # c /\ \E l \in 1 .. Len(turn) : turn[l] = d
    <3>1. /\ turn'[k] = turn[IF k < i THEN k ELSE k + 1] /\ (IF k < i THEN k ELSE k + 1) \in 1 .. Len(turn)
          /\ (IF k < i THEN k ELSE k + 1) # i
      BY <1>0, <1>1
    <3>2. QED
      BY <2>1, <3>1, QueueFacts
  <2>2. ASSUME NEW l \in 1 .. Len(turn), turn[l] = d, d # c
        PROVE  \E k \in 1 .. Len(turn) - 1 : turn'[k] = d
    <3>1. l # i
      BY <2>2
    <3>2. CASE l < i
      <4>1. l \in 1 .. Len(turn) - 1 /\ turn'[l] = turn[l]
        BY <1>0, <1>1, <3>2
      <4>2. QED
        BY <2>2, <4>1
    <3>3. CASE l > i
      <4>1. l - 1 \in 1 .. Len(turn) - 1 /\ ~(l - 1 < i) /\ (l - 1) + 1 = l
        BY <1>0, <3>3
      <4>2. turn'[l - 1] = turn[l]
        BY <1>1, <4>1
      <4>3. QED
        BY <2>2, <4>1, <4>2
    <3>4. QED
      BY <1>0, <3>1, <3>2, <3>3
  <2>3. QED
    BY <1>1, <2>1, <2>2
<1>6. ASSUME NEW d \in Callers, fetch'[d] # NULL, fetch'[d].at = "asleep"
      PROVE  Len(turn') > 0 /\ d = turn'[1]
  <2>1. d # c /\ fetch'[d] = fetch[d]
    BY <1>2, <1>6
  <2>2. d = turn[1] /\ Len(turn) > 0 /\ i # 1
    BY <1>6, <2>1, QueueFacts
  <2>3. Len(turn') > 0 /\ 1 \in 1 .. Len(turn) - 1 /\ 1 < i
    BY <1>0, <1>1, <2>2
  <2>4. QED
    BY <1>1, <2>2, <2>3
<1>7. QED
  BY <1>1, <1>3, <1>4, <1>5, <1>6, QueueFacts, QueueFrom

LEMMA QueueInit == Init => QueueOK
BY DEF Init, QueueOK, IsInjective, Waits

LEMMA EndsQueue ==
  ASSUME FetchOK, QueueOK, NEW c \in Callers, NEW asks, Sent(c, asks), NEW result, EndsWith(c, result)
  PROVE  QueueOK'
BY Stays DEF Sent, EndsWith, Waits

LEMMA QueueNext == FetchOK /\ QueueOK /\ [Next]_vars => QueueOK'
<1> SUFFICES ASSUME FetchOK, QueueOK, [Next]_vars
             PROVE  QueueOK'
  OBVIOUS
<1>1. CASE Tick \/ UNCHANGED vars
  BY <1>1 DEF Tick, vars, QueueOK, Waits
<1>2. ASSUME NEW c \in Callers, LetOut(c)
      PROVE  QueueOK'
  <2>1. ~Waits(c)
    BY <1>2 DEF LetOut, Waits
  <2>2. PICK role \in {"request", "probe"} : fetch' = [fetch EXCEPT ![c] = Queued(role, "get")]
    BY <1>2 DEF LetOut
  <2>3. Queued(role, "get") \in Fetch /\ Queued(role, "get").at = "turn"
    BY DEF Queued, Fetch
  <2>4. QED
    BY <1>2, <2>1, <2>2, <2>3, Joins DEF LetOut
<1>3. ASSUME NEW c \in Callers, Sleep(c)
      PROVE  QueueOK'
  <2>1. turn' = turn /\ c = Head(turn) /\ fetch[c] # NULL /\ fetch[c] \in Fetch /\ Waits(c)
    BY <1>3 DEF Sleep, HasTurn, Waits, FetchOK
  <2> DEFINE f == [fetch[c] EXCEPT !.at = "asleep"]
  <2>2. f \in Fetch /\ f.at = "asleep" /\ f # NULL
    BY <2>1, NullAssumption DEF Fetch
  <2>3. fetch' = [fetch EXCEPT ![c] = f]
    BY <1>3 DEF Sleep
  <2> HIDE DEF f
  <2>4. fetch'[c] = f /\ \A d \in Callers : d # c => fetch'[d] = fetch[d]
    BY <2>3 DEF FetchOK
  <2>5. \A d \in Callers : Waits(d)' <=> Waits(d)
    BY <2>1, <2>2, <2>4 DEF Waits
  <2>6. QED
    BY <2>1, <2>4, <2>5 DEF QueueOK
<1>4. ASSUME NEW c \in Callers, Send(c)
      PROVE  QueueOK'
  <2>1. turn # <<>> /\ c = Head(turn) /\ turn' = Tail(turn) /\ fetch[c] \in Fetch
    BY <1>4 DEF Send, HasTurn, Waits, FetchOK
  <2> DEFINE f == [fetch[c] EXCEPT !.at = "sent"]
  <2>2. f \in Fetch /\ f.at = "sent" /\ fetch' = [fetch EXCEPT ![c] = f]
    BY <1>4, <2>1 DEF Send, Fetch
  <2> HIDE DEF f
  <2>3. 1 \in 1 .. Len(turn) /\ turn[1] = c
    BY <2>1, QueueFacts
  <2>4. turn' = RemoveAt(turn, 1)
    <3>1. SubSeq(turn, 1, 0) = <<>> /\ Tail(turn) = SubSeq(turn, 2, Len(turn)) /\ Tail(turn) \in Seq(Callers)
      BY <2>1, SubSeqEmpty, TailIsSubSeq, HeadTailProperties DEF QueueOK
    <3>2. <<>> \o Tail(turn) = Tail(turn)
      BY <3>1, ConcatEmptySeq
    <3>3. QED
      BY <2>1, <3>1, <3>2 DEF RemoveAt
  <2>5. QED
    BY <2>2, <2>3, <2>4, Leaves
<1>5. ASSUME NEW c \in Callers, NEW r, FallBack(c, r)
      PROVE  QueueOK'
  <2>1. fetch[c] \in Fetch /\ ~Waits(c)
    BY <1>5 DEF FallBack, Sent, Waits, FetchOK
  <2>2. Queued(fetch[c].role, "search") \in Fetch /\ Queued(fetch[c].role, "search").at = "turn"
    BY <2>1 DEF Queued, Fetch
  <2>3. QED
    BY <1>5, <2>1, <2>2, Joins DEF FallBack
<1>6. ASSUME NEW c \in Callers, Answered(c)
      PROVE  QueueOK'
  BY <1>5, <1>6, EndsQueue DEF Answered, GetAnswered, SearchAnswered, Unanswered
<1>7. ASSUME NEW c \in Callers, Raised(c)
      PROVE  QueueOK'
  <2>1. CASE ~Waits(c) /\ UNCHANGED turn
    BY <1>7, <2>1, Stays DEF Raised
  <2>2. ASSUME NEW i \in DOMAIN turn, turn[i] = c, turn' = RemoveAt(turn, i)
        PROVE  QueueOK'
    BY <1>7, <2>2, QueueFacts, Leaves DEF Raised
  <2>3. QED
    BY <1>7, <2>1, <2>2 DEF Raised
<1>8. QED
  BY <1>1, <1>2, <1>3, <1>4, <1>6, <1>7 DEF Next, GoesOn

-----------------------------------------------------------------------------
(* A result that counts as a failure carries a Retry-After the breaker     *)
(* reckons with.                                                           *)
LEMMA FailuresHaveRetryAfter ==
  /\ \A r \in GetResponses :
       Lrc!GetResult(r).status = "transient_failure" => Lrc!GetResult(r).retryAfter \in RetryAfters
  /\ \A r \in SearchResponses :
       Lrc!SearchResult(r).status = "transient_failure" => Lrc!SearchResult(r).retryAfter \in RetryAfters
  /\ Lrc!NetworkFailure.retryAfter \in RetryAfters
<1>1. \A status : Lrc!Ends(status).retryAfter = 0 /\ 0 \in RetryAfters
  BY ProviderAssumption DEF Lrc!Ends
<1>2. \A p : Lrc!FromPayload(p).retryAfter = 0
  BY DEF Lrc!FromPayload, Lrc!Ends
<1>3. ASSUME NEW r, Lrc!RetryAfter(r.header) \in RetryAfters, Lrc!HttpFailure(r) # NULL
      PROVE  Lrc!HttpFailure(r).retryAfter \in RetryAfters
  BY <1>1, <1>3 DEF Lrc!HttpFailure
<1>4. ASSUME NEW r, Lrc!RetryAfter(r.header) \in RetryAfters
      PROVE  Lrc!GetResult(r).retryAfter \in RetryAfters
  BY <1>1, <1>2, <1>3, <1>4 DEF Lrc!GetResult
<1>5. ASSUME NEW r, Lrc!RetryAfter(r.header) \in RetryAfters
      PROVE  Lrc!SearchResult(r).retryAfter \in RetryAfters
  BY <1>1, <1>2, <1>3, <1>5 DEF Lrc!SearchResult
<1>6. QED
  BY <1>1, <1>4, <1>5, ProviderAssumption DEF Lrc!NetworkFailure

LEMMA EndsForBreaker ==
  ASSUME NEW c \in Callers, NEW result, EndsWith(c, result),
         result.status = "transient_failure" => result.retryAfter \in RetryAfters
  PROVE  Breaker!Ends(c)
BY DEF EndsWith, Breaker!Ends

LEMMA StepOfBreaker == FetchOK /\ [Next]_vars => [Breaker!Next]_(Breaker!vars)
<1> SUFFICES ASSUME FetchOK, [Next]_vars
             PROVE  [Breaker!Next]_(Breaker!vars)
  OBVIOUS
<1> DEFINE Rests == UNCHANGED breaker /\ CallOf' = CallOf
<1>1. Rests => UNCHANGED Breaker!vars
  BY DEF breaker, Breaker!vars
<1>2. CASE Tick
  <2>1. CallOf' = CallOf
    BY <1>2 DEF Tick, CallOf
  <2>2. QED
    BY <1>1, <1>2, <2>1 DEF Tick, Breaker!Next
<1>3. CASE UNCHANGED vars
  BY <1>1, <1>3 DEF vars, breaker, CallOf
<1>4. ASSUME NEW c \in Callers, LetOut(c)
      PROVE  Breaker!Next
  BY <1>4 DEF LetOut, Breaker!LetOut, Breaker!Next
<1>5. ASSUME NEW c \in Callers, Sleep(c) \/ Send(c)
      PROVE  Rests
  <2>1. fetch[c] \in Fetch /\ fetch[c] # NULL
    BY <1>5 DEF Sleep, Send, HasTurn, Waits, FetchOK
  <2>2. PICK where \in {"asleep", "sent"} : fetch' = [fetch EXCEPT ![c] = [fetch[c] EXCEPT !.at = where]]
    BY <1>5, <2>1 DEF Sleep, Send, FetchOK
  <2>3. [fetch[c] EXCEPT !.at = where] \in Fetch /\ [fetch[c] EXCEPT !.at = where].role = fetch[c].role
    BY <2>1 DEF Fetch
  <2>4. QED
    BY <1>5, <2>1, <2>2, <2>3, SameCall DEF Sleep, Send
<1>6. ASSUME NEW c \in Callers, NEW r, FallBack(c, r)
      PROVE  Rests
  <2>1. fetch[c] \in Fetch /\ fetch[c] # NULL
    BY <1>6 DEF FallBack, Sent, FetchOK
  <2>2. Queued(fetch[c].role, "search") \in Fetch /\ Queued(fetch[c].role, "search").role = fetch[c].role
    BY <2>1 DEF Queued, Fetch
  <2>3. fetch' = [fetch EXCEPT ![c] = Queued(fetch[c].role, "search")]
    BY <1>6 DEF FallBack
  <2>4. CallOf' = CallOf
    BY <2>1, <2>2, <2>3, SameCall
  <2>5. QED
    BY <1>6, <2>4 DEF FallBack
<1>7. ASSUME NEW c \in Callers, Raised(c)
      PROVE  Breaker!Next
  BY <1>7 DEF Raised, Breaker!Ends, Breaker!Next
<1>8. ASSUME NEW c \in Callers, Answered(c)
      PROVE  Breaker!Next \/ Rests
  <2>1. ASSUME NEW r \in GetResponses, GetAnswered(c, r)
        PROVE  Breaker!Ends(c)
    BY <2>1, FailuresHaveRetryAfter, EndsForBreaker DEF GetAnswered
  <2>2. ASSUME NEW r \in SearchResponses, SearchAnswered(c, r)
        PROVE  Breaker!Ends(c)
    BY <2>2, FailuresHaveRetryAfter, EndsForBreaker DEF SearchAnswered
  <2>3. ASSUME Unanswered(c)
        PROVE  Breaker!Ends(c)
    BY <2>3, FailuresHaveRetryAfter, EndsForBreaker DEF Unanswered
  <2>4. QED
    BY <1>6, <1>8, <2>1, <2>2, <2>3 DEF Answered, Breaker!Next
<1>9. QED
  BY <1>1, <1>2, <1>3, <1>4, <1>5, <1>7, <1>8 DEF Next, GoesOn

(* To the breaker, a lookup that waits for turns and asks twice is a call  *)
(* that ends.                                                              *)
THEOREM ImplementsBreaker == Spec => Breaker!Spec
<1>1. Init => Breaker!Init
  BY DEF Init, Breaker!Init, CallOf
<1>2. QED
  BY <1>1, FetchInit, FetchNext, StepOfBreaker, PTL DEF Spec, Breaker!Spec

-----------------------------------------------------------------------------
(* The circuit for itself, whatever the calls: the invariants of Circuit   *)
(* are inductive together with its type invariant.                         *)
USE CircuitAssumption

CircuitInv ==
  /\ Breaker!TypeOK
  /\ Breaker!ProbeIsUnderWay
  /\ Breaker!OpenMeansFailing
  /\ Breaker!WindowIsBounded

-----------------------------------------------------------------------------
(* A window is a time, and not beyond the cap whatever the provider asks.  *)
LEMMA WindowIsCapped ==
  ASSUME Breaker!TypeOK, NEW r \in RetryAfters
  PROVE  Breaker!Window(r) \in Nat /\ Breaker!Window(r) <= MaxOpenSeconds /\ Breaker!Window(r) # NULL
<1> DEFINE doubled == OpenSeconds * 2^trips
<1>1. 2^trips \in Nat
  BY PowersAreNaturals DEF Breaker!TypeOK
<1>2. doubled \in Nat
  BY <1>1
<1> HIDE DEF doubled
<1>3. r \in Nat
  OBVIOUS
<1> QED BY <1>2, <1>3 DEF Breaker!Window, Breaker!Smaller, Breaker!Larger, doubled

LEMMA CircuitInit == Breaker!Init => CircuitInv
<1> SUFFICES ASSUME Breaker!Init
             PROVE  CircuitInv
  OBVIOUS
<1>1. Breaker!TypeOK
  <2>1. failures \in 0 .. Threshold /\ trips \in 0 .. MaxTrips
    BY DEF Breaker!Init
  <2>2. CallOf \in [Callers -> Breaker!Calls]
    BY DEF Breaker!Init, Breaker!Calls
  <2>3. openFor \in Nat \cup {NULL} /\ probing \in BOOLEAN
    BY DEF Breaker!Init
  <2> QED BY <2>1, <2>2, <2>3 DEF Breaker!TypeOK
<1>2. Breaker!ProbeIsUnderWay
  BY DEF Breaker!Init, Breaker!ProbeIsUnderWay
<1>3. Breaker!OpenMeansFailing /\ Breaker!WindowIsBounded
  BY DEF Breaker!Init, Breaker!OpenMeansFailing, Breaker!WindowIsBounded
<1> QED BY <1>1, <1>2, <1>3 DEF CircuitInv

(* A request that is let out is the probe the flag stands for, or leaves   *)
(* the one under way alone.                                                *)
LEMMA LetOutCircuit ==
  ASSUME CircuitInv, NEW c \in Callers, Breaker!LetOut(c)
  PROVE  CircuitInv'
<1> USE DEF CircuitInv
<1>1. CASE Breaker!Request(c)
  <2>1. Breaker!TypeOK' /\ Breaker!OpenMeansFailing' /\ Breaker!WindowIsBounded'
    BY <1>1 DEF Breaker!Request, Breaker!TypeOK, Breaker!Calls, Breaker!OpenMeansFailing, Breaker!WindowIsBounded
  <2>2. Breaker!ProbeIsUnderWay'
    BY <1>1 DEF Breaker!Request, Breaker!TypeOK, Breaker!ProbeIsUnderWay
  <2> QED BY <2>1, <2>2
<1>2. CASE Breaker!Probe(c)
  <2>1. Breaker!TypeOK' /\ Breaker!OpenMeansFailing' /\ Breaker!WindowIsBounded'
    BY <1>2 DEF Breaker!Probe, Breaker!TypeOK, Breaker!Calls, Breaker!OpenMeansFailing, Breaker!WindowIsBounded
  <2>2. Breaker!ProbeIsUnderWay'
    BY <1>2 DEF Breaker!Probe, Breaker!TypeOK, Breaker!ProbeIsUnderWay
  <2> QED BY <2>1, <2>2
<1> QED BY <1>1, <1>2 DEF Breaker!LetOut

(* The end of any request lowers the flag; only failures open the circuit. *)
LEMMA EndsCircuit ==
  ASSUME CircuitInv, NEW c \in Callers, Breaker!Ends(c)
  PROVE  CircuitInv'
<1> USE DEF CircuitInv
<1>1. /\ ~probing'
      /\ CallOf' \in [Callers -> Breaker!Calls] /\ probing' \in BOOLEAN
  BY DEF Breaker!Ends, Breaker!Success, Breaker!Raised, Breaker!Failure, Breaker!Answered,
         Breaker!TypeOK, Breaker!Calls
<1>2. Breaker!ProbeIsUnderWay'
  BY <1>1 DEF Breaker!ProbeIsUnderWay
<1>3. CASE Breaker!Success(c)
  BY <1>1, <1>2, <1>3 DEF Breaker!Success, Breaker!TypeOK, Breaker!OpenMeansFailing, Breaker!WindowIsBounded
<1>4. CASE Breaker!Raised(c)
  BY <1>1, <1>2, <1>4 DEF Breaker!Raised, Breaker!TypeOK, Breaker!OpenMeansFailing, Breaker!WindowIsBounded
<1>5. CASE \E r \in RetryAfters : Breaker!Failure(c, r)
  <2>1. PICK r \in RetryAfters : Breaker!Failure(c, r)
    BY <1>5
  <2>2. failures \in 0 .. Threshold /\ trips \in 0 .. MaxTrips /\ r \in Nat
    BY DEF Breaker!TypeOK
  <2>3. failures' = Breaker!Smaller(failures + 1, Threshold)
    BY <2>1 DEF Breaker!Failure
  <2>4. CASE Breaker!Opens
    <3>1. failures' = Threshold
      BY <2>2, <2>3, <2>4 DEF Breaker!Opens, Breaker!Smaller, Breaker!OpenMeansFailing
    <3>2. openFor' \in Nat /\ openFor' <= MaxOpenSeconds /\ openFor' # NULL
      BY <2>1, <2>4, WindowIsCapped DEF Breaker!Failure
    <3>3. trips' \in 0 .. MaxTrips
      BY <2>1, <2>2, <2>4 DEF Breaker!Failure, Breaker!Smaller, Breaker!Larger
    <3> QED BY <1>1, <1>2, <3>1, <3>2, <3>3 DEF Breaker!TypeOK, Breaker!OpenMeansFailing, Breaker!WindowIsBounded
  <2>5. CASE ~Breaker!Opens
    <3>1. UNCHANGED <<openFor, trips>> /\ openFor = NULL /\ failures + 1 < Threshold
      BY <2>1, <2>2, <2>5 DEF Breaker!Failure, Breaker!Opens
    <3>2. failures' = failures + 1
      BY <2>2, <2>3, <3>1 DEF Breaker!Smaller
    <3> QED BY <1>1, <1>2, <2>2, <3>1, <3>2 DEF Breaker!TypeOK, Breaker!OpenMeansFailing, Breaker!WindowIsBounded
  <2> QED BY <2>4, <2>5
<1> QED BY <1>3, <1>4, <1>5 DEF Breaker!Ends

LEMMA TickCircuit ==
  ASSUME CircuitInv, Breaker!Tick
  PROVE  CircuitInv'
<1> USE DEF CircuitInv, Breaker!Tick
<1>1. openFor \in Nat
  BY DEF Breaker!TypeOK
<1>2. openFor' \in Nat /\ openFor' # NULL /\ openFor' <= openFor
  BY <1>1 DEF Breaker!Larger
<1>3. Breaker!TypeOK'
  BY <1>2 DEF Breaker!TypeOK
<1> QED BY <1>1, <1>2, <1>3 DEF Breaker!ProbeIsUnderWay, Breaker!OpenMeansFailing, Breaker!WindowIsBounded

(* The inductive invariant of the circuit. *)
THEOREM CircuitInvariant == Breaker!Spec => []CircuitInv
<1>1. CircuitInv /\ UNCHANGED Breaker!vars => CircuitInv'
  BY DEF CircuitInv, Breaker!vars, Breaker!TypeOK, Breaker!ProbeIsUnderWay, Breaker!OpenMeansFailing,
         Breaker!WindowIsBounded
<1>2. CircuitInv /\ [Breaker!Next]_(Breaker!vars) => CircuitInv'
  BY <1>1, LetOutCircuit, EndsCircuit, TickCircuit DEF Breaker!Next
<1> QED BY <1>2, CircuitInit, PTL DEF Breaker!Spec

-----------------------------------------------------------------------------
(* Nobody is kept out for the sake of a probe that is not there: a crash   *)
(* of the provider's client, a cancellation or a straggler cannot leave    *)
(* the flag up.                                                            *)
THEOREM ProbesAreUnderWay == Spec => []Breaker!ProbeIsUnderWay
<1>1. CircuitInv => Breaker!ProbeIsUnderWay
  BY DEF CircuitInv
<1> QED BY <1>1, ImplementsBreaker, CircuitInvariant, PTL

(* The circuit is open exactly while the last Threshold results were       *)
(* transient failures, however the lookups wait and search.                *)
THEOREM OpenMeansFailures == Spec => []OpenMeansFailing
<1>1. CircuitInv => OpenMeansFailing
  BY DEF CircuitInv, OpenMeansFailing
<1>2. QED
  BY <1>1, ImplementsBreaker, CircuitInvariant, PTL

(* No Retry-After of any response keeps it open beyond the maximum.        *)
THEOREM WindowsAreBounded == Spec => []WindowIsBounded
<1>1. CircuitInv => WindowIsBounded
  BY DEF CircuitInv, WindowIsBounded
<1>2. QED
  BY <1>1, ImplementsBreaker, CircuitInvariant, PTL

HIDE CircuitAssumption

-----------------------------------------------------------------------------
(* What is left of the wait for the slot and what has passed since the     *)
(* last request make up the interval.                                      *)
SlotInv ==
  /\ slot \in 0 .. MinInterval
  /\ since \in 0 .. MinInterval
  /\ slot + since >= MinInterval

LEMMA SlotInit == Init => SlotInv
BY ProviderAssumption DEF Init, SlotInv

LEMMA SlotNext == SlotInv /\ [Next]_vars => SlotInv'
<1> SUFFICES ASSUME SlotInv, [Next]_vars
             PROVE  SlotInv'
  OBVIOUS
<1> USE ProviderAssumption
<1>1. CASE Tick
  BY <1>1 DEF Tick, SlotInv
<1>2. ASSUME NEW c \in Callers, Send(c)
      PROVE  SlotInv'
  BY <1>2 DEF Send, SlotInv
<1>3. ASSUME UNCHANGED <<slot, since>>
      PROVE  SlotInv'
  BY <1>3 DEF SlotInv
<1>4. ASSUME NEW c \in Callers, LetOut(c) \/ Sleep(c) \/ Answered(c) \/ Raised(c)
      PROVE  UNCHANGED <<slot, since>>
  BY <1>4 DEF LetOut, Sleep, Answered, GetAnswered, FallBack, SearchAnswered, Unanswered, EndsWith, Raised
<1>5. QED
  BY <1>1, <1>2, <1>3, <1>4 DEF Next, GoesOn, vars

(* Two requests go out at least the interval apart, whoever sleeps, leaves *)
(* the queue, or asks a second time.                                       *)
THEOREM RequestsAreSpaced == Spec => Spaced
<1> DEFINE Out == \A c \in Callers : Waits(c) /\ Sent(c, fetch[c].asks)' => since >= MinInterval
<1>1. FetchOK /\ SlotInv /\ [Next]_vars => [Out]_vars
  <2> SUFFICES ASSUME FetchOK, SlotInv, Next, NEW c \in Callers, Waits(c), Sent(c, fetch[c].asks)'
               PROVE  since >= MinInterval
    BY DEF Out
  <2>0. fetch[c].at \in {"turn", "asleep"} /\ fetch'[c] # NULL /\ fetch'[c].at = "sent" /\ fetch'[c] # fetch[c]
    BY DEF Waits, Sent
  <2>1. ~Tick
    BY <2>0 DEF Tick
  <2>2. PICK d \in Callers : LetOut(d) \/ GoesOn(d) \/ Raised(d)
    BY <2>1 DEF Next
  <2>3. d = c
    BY <2>0, <2>2 DEF LetOut, GoesOn, Sleep, Send, Answered, GetAnswered, FallBack, SearchAnswered,
                      Unanswered, EndsWith, Raised, FetchOK
  <2>4. ~LetOut(c) /\ ~Raised(c) /\ ~Answered(c)
    BY <2>0 DEF LetOut, Waits, Raised, Answered, GetAnswered, FallBack, SearchAnswered, Unanswered, Sent, FetchOK
  <2>5. ~Sleep(c)
    <3>1. fetch[c] \in Fetch
      BY DEF Waits, FetchOK
    <3>2. Sleep(c) => fetch'[c] = [fetch[c] EXCEPT !.at = "asleep"]
      BY DEF Sleep, FetchOK
    <3>3. QED
      BY <2>0, <3>1, <3>2 DEF Fetch
  <2>6. slot = 0
    BY <2>2, <2>3, <2>4, <2>5 DEF GoesOn, Send
  <2>7. QED
    BY <2>6, ProviderAssumption DEF SlotInv
<1>2. QED
  BY <1>1, FetchInit, FetchNext, SlotInit, SlotNext, PTL DEF Spec, Spaced

-----------------------------------------------------------------------------
(* Who waits for a turn is in the pacer's queue, once, and who holds its   *)
(* lock while it sleeps is at the head: also after a caller that was       *)
(* cancelled has left, wherever it waited.                                 *)
THEOREM TypeCorrect == Spec => []TypeOK
<1>1. CircuitInv /\ FetchOK /\ QueueOK /\ SlotInv => TypeOK
  BY DEF TypeOK, CircuitInv, FetchOK, QueueOK, SlotInv
<1>2. Spec => []CircuitInv
  BY ImplementsBreaker, CircuitInvariant, PTL
<1>3. QED
  BY <1>1, <1>2, FetchInit, FetchNext, QueueInit, QueueNext, SlotInit, SlotNext, PTL DEF Spec

=============================================================================
