------------------------------- MODULE Lrclib -------------------------------
(***************************************************************************)
(* What the LRCLIB client makes of the server's answers                    *)
(* (infrastructure/provider/lrclib.py): functions, without state.  The     *)
(* waiting for a turn and the sending are in Provider.                     *)
(*                                                                         *)
(* A payload is reduced to what is asked of it: whether its title, artist  *)
(* and duration agree with the track's, and which texts it has.  A score   *)
(* is in hundredths.                                                       *)
(***************************************************************************)
EXTENDS Integers

CONSTANT NULL   \* Python None

Payload ==
  [title    : BOOLEAN,   \* trackName is the track's title, both normalized
   artist   : BOOLEAN,
   duration : BOOLEAN,   \* known, a whole number, and at most 2 seconds off
   synced   : BOOLEAN,   \* there are syncedLyrics
   plain    : BOOLEAN]   \* there are plainLyrics

(* A response: its code, its Retry-After header, and its body, which is    *)
(* NULL when it is not JSON, or not an object (a list for a search).       *)
Header == [kind : {"none", "seconds", "date", "junk"}, value : Int]
IsResponse(r) == r.code \in Nat /\ r.header \in Header

Statuses ==
  {"matched", "ambiguous", "not_found", "invalid_content", "rejected", "transient_failure"}

Result == [status : Statuses, retryAfter : Nat]

(* No Retry-After counts as none to wait. *)
Ends(status) == [status |-> status, retryAfter |-> 0]

-----------------------------------------------------------------------------
HasText(p) == p.synced \/ p.plain

Score(p) ==
  (IF p.title THEN 45 ELSE 0) + (IF p.artist THEN 45 ELSE 0) + (IF p.duration THEN 10 ELSE 0)

MatchThreshold == 80

FromPayload(p) ==
  IF ~HasText(p) THEN Ends("invalid_content")
  ELSE IF Score(p) >= MatchThreshold THEN Ends("matched")
  ELSE Ends("ambiguous")

(* Seconds, or a date, here in seconds from now; what lies in the past is  *)
(* no time at all.                                                         *)
RetryAfter(h) ==
  IF h.kind \in {"seconds", "date"} /\ h.value > 0 THEN h.value ELSE 0

(* NULL: the body counts. *)
HttpFailure(r) ==
  IF r.code >= 500 \/ r.code = 429
    THEN [status |-> "transient_failure", retryAfter |-> RetryAfter(r.header)]
  ELSE IF r.code \in 400 .. 499 /\ r.code # 404 THEN Ends("rejected")
  ELSE NULL

(* A timeout, or no connection *)
NetworkFailure == Ends("transient_failure")

(* The answer to /api/get, unless it is 404 and the search is tried. *)
GetResult(r) ==
  IF r.code = 404 THEN Ends("not_found")
  ELSE IF HttpFailure(r) # NULL THEN HttpFailure(r)
  ELSE IF r.body = NULL THEN Ends("transient_failure")
  ELSE FromPayload(r.body)

-----------------------------------------------------------------------------
(* The search's candidates that have a text *)
Usable(ps) == {p \in ps : HasText(p)}

(* Comparing score first, synced lyrics second *)
AtLeast(p, q) ==
  \/ Score(p) > Score(q)
  \/ Score(p) = Score(q) /\ (q.synced => p.synced)

Best(ps) == CHOOSE p \in ps : \A q \in ps : AtLeast(p, q)

(* The answer to /api/search *)
SearchResult(r) ==
  IF HttpFailure(r) # NULL THEN HttpFailure(r)
  ELSE IF r.body = NULL THEN Ends("transient_failure")
  ELSE IF Usable(r.body) = {} THEN Ends("not_found")
  ELSE IF Score(Best(Usable(r.body))) < MatchThreshold THEN Ends("not_found")
  ELSE FromPayload(Best(Usable(r.body)))

=============================================================================
