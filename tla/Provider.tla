------------------------------ MODULE Provider ------------------------------
(***************************************************************************)
(* A lookup, from the worker's call to its result: the circuit breaker,    *)
(* the request pacer (both application/resilient_provider.py) and the      *)
(* LRCLIB client, shared by all workers.  A lookup that is let out waits   *)
(* for its turn, asks /api/get, and after a 404 waits for another turn and *)
(* asks /api/search.                                                       *)
(*                                                                         *)
(* The pacer is an asyncio.Lock, held by the caller at the head of turn    *)
(* while it sleeps until the next slot.  Time is kept as what is left: of  *)
(* the wait for the slot, and of the open window in Circuit.  A sleep does *)
(* not end early.                                                          *)
(*                                                                         *)
(* The breaker only sees that a lookup is under way: this module           *)
(* implements Circuit, with its fairness, however long turns take.         *)
(* Definitions whose name begins with Slip are mistakes that could be made *)
(* in the definition that follows; model checking notices them.            *)
(***************************************************************************)
EXTENDS Sequences, SequencesExt, CircuitConstants

CONSTANTS
  MinInterval,      \* provider_min_interval_seconds
  SearchFallback,   \* provider_search_fallback
  GetResponses,     \* responses of the server to /api/get
  SearchResponses   \* and to /api/search

VARIABLES
  failures, trips, openFor, probing,   \* of Circuit
  fetch,     \* the lookup each worker has under way
  turn,      \* who holds the pacer's lock, and who waits for it
  slot,      \* seconds until _next_slot
  since      \* history: seconds since a request went out, counted to MinInterval

vars == <<failures, trips, openFor, probing, fetch, turn, slot, since>>
breaker == <<failures, trips, openFor, probing>>

Lrc == INSTANCE Lrclib

ASSUME ProviderAssumption ==
  /\ MinInterval \in Nat
  /\ SearchFallback \in BOOLEAN
  /\ \A r \in GetResponses :
       Lrc!IsResponse(r) /\ r.body \in Lrc!Payload \cup {NULL} /\ Lrc!RetryAfter(r.header) \in RetryAfters
  /\ \A r \in SearchResponses :
       Lrc!IsResponse(r) /\ (r.body = NULL \/ r.body \subseteq Lrc!Payload) /\ Lrc!RetryAfter(r.header) \in RetryAfters
  /\ 0 \in RetryAfters

Fetch ==
  [role : {"request", "probe"},         \* what the breaker let it out as
   asks : {"get", "search"},
   at   : {"turn", "asleep", "sent"}]

ASSUME NullAssumption == NULL \notin Fetch

(* The breaker's view of a lookup *)
CallOf == [c \in Callers |-> IF fetch[c] = NULL THEN "none" ELSE fetch[c].role]

Breaker == INSTANCE Circuit WITH call <- CallOf

Waits(c) == fetch[c] # NULL /\ fetch[c].at \in {"turn", "asleep"}

TypeOK ==
  /\ Breaker!TypeOK
  /\ fetch \in [Callers -> Fetch \cup {NULL}]
  /\ turn \in Seq(Callers)
  /\ IsInjective(turn)
  /\ \A c \in Callers : Waits(c) <=> \E i \in DOMAIN turn : turn[i] = c
  /\ \A c \in Callers : fetch[c] # NULL /\ fetch[c].at = "asleep" => c = Head(turn)
  /\ slot \in 0 .. MinInterval
  /\ since \in 0 .. MinInterval

Init ==
  /\ failures = 0
  /\ trips = 0
  /\ openFor = NULL
  /\ probing = FALSE
  /\ fetch = [c \in Callers |-> NULL]
  /\ turn = <<>>
  /\ slot = 0
  /\ since = MinInterval

-----------------------------------------------------------------------------
Queued(role, asks) == [role |-> role, asks |-> asks, at |-> "turn"]

(* ResilientProvider.fetch lets the lookup out. *)
LetOut(c) ==
  /\ fetch[c] = NULL
  /\ \/ fetch' = [fetch EXCEPT ![c] = Queued("request", "get")] /\ Breaker!Request(c)
     \/ fetch' = [fetch EXCEPT ![c] = Queued("probe", "get")] /\ Breaker!Probe(c)
  /\ turn' = Append(turn, c)
  /\ UNCHANGED <<slot, since>>

HasTurn(c) == turn # <<>> /\ Head(turn) = c /\ Waits(c)

(* RequestPacer.wait, with the lock held: it is not time yet, ...          *)
Sleep(c) ==
  /\ HasTurn(c)
  /\ fetch[c].at = "turn"
  /\ slot > 0
  /\ fetch' = [fetch EXCEPT ![c].at = "asleep"]
  /\ UNCHANGED <<breaker, turn, slot, since>>

(* ... or it is: the lock is released, and the request goes out.           *)
Send(c) ==
  /\ HasTurn(c)
  /\ slot = 0
  /\ fetch' = [fetch EXCEPT ![c].at = "sent"]
  /\ turn' = Tail(turn)
  /\ slot' = slot + MinInterval
  /\ since' = 0
  /\ UNCHANGED breaker

-----------------------------------------------------------------------------
Sent(c, asks) == fetch[c] # NULL /\ fetch[c].at = "sent" /\ fetch[c].asks = asks

(* the breaker does not hear of a rejection *)
SlipEndsWith(c, result) ==
  /\ fetch' = [fetch EXCEPT ![c] = NULL]
  /\ CASE result.status = "transient_failure" -> Breaker!Failure(c, result.retryAfter)
       [] result.status = "rejected" -> UNCHANGED breaker
       [] OTHER -> Breaker!Success(c)
  /\ UNCHANGED <<turn, slot, since>>

(* The lookup ends: the breaker records its result. *)
EndsWith(c, result) ==
  /\ fetch' = [fetch EXCEPT ![c] = NULL]
  /\ IF result.status = "transient_failure"
       THEN Breaker!Failure(c, result.retryAfter)
       ELSE Breaker!Success(c)
  /\ UNCHANGED <<turn, slot, since>>

GetAnswered(c, r) ==
  /\ Sent(c, "get")
  /\ r.code = 404 => ~SearchFallback
  /\ EndsWith(c, Lrc!GetResult(r))

(* the search does not wait for a turn *)
SlipFallBack(c, r) ==
  /\ Sent(c, "get")
  /\ r.code = 404
  /\ SearchFallback
  /\ fetch' = [fetch EXCEPT ![c] = [@ EXCEPT !.asks = "search"]]
  /\ since' = 0
  /\ UNCHANGED <<breaker, turn, slot>>

(* The search is a request of its own. *)
FallBack(c, r) ==
  /\ Sent(c, "get")
  /\ r.code = 404
  /\ SearchFallback
  /\ fetch' = [fetch EXCEPT ![c] = Queued(@.role, "search")]
  /\ turn' = Append(turn, c)
  /\ UNCHANGED <<breaker, slot, since>>

(* a search that fails is tried again at once *)
SlipSearchAnswered(c, r) ==
  /\ Sent(c, "search")
  /\ IF Lrc!SearchResult(r).status = "transient_failure"
       THEN /\ fetch' = [fetch EXCEPT ![c] = Queued(@.role, "search")]
            /\ turn' = Append(turn, c)
            /\ UNCHANGED <<breaker, slot, since>>
       ELSE EndsWith(c, Lrc!SearchResult(r))

SearchAnswered(c, r) ==
  /\ Sent(c, "search")
  /\ EndsWith(c, Lrc!SearchResult(r))

Unanswered(c) ==
  /\ Sent(c, "get") \/ Sent(c, "search")
  /\ EndsWith(c, Lrc!NetworkFailure)

(* whoever is cancelled keeps its place *)
SlipRaised(c) ==
  /\ fetch[c] # NULL
  /\ fetch' = [fetch EXCEPT ![c] = NULL]
  /\ Breaker!Raised(c)
  /\ UNCHANGED <<turn, slot, since>>

(* The caller is cancelled wherever it waits, and leaves the queue and the *)
(* lock; or the client raises something that is no httpx.HTTPError.        *)
Raised(c) ==
  /\ fetch[c] # NULL
  /\ fetch' = [fetch EXCEPT ![c] = NULL]
  /\ Breaker!Raised(c)
  /\ \/ ~Waits(c) /\ UNCHANGED turn
     \/ \E i \in DOMAIN turn : turn[i] = c /\ turn' = RemoveAt(turn, i)
  /\ UNCHANGED <<slot, since>>

Tick ==
  /\ slot > 0 \/ (openFor # NULL /\ openFor > 0)
  /\ slot' = IF slot > 0 THEN slot - 1 ELSE 0
  /\ since' = IF since < MinInterval THEN since + 1 ELSE since
  /\ fetch' = fetch
  /\ IF openFor # NULL /\ openFor > 0 THEN Breaker!Tick ELSE UNCHANGED breaker
  /\ UNCHANGED turn

-----------------------------------------------------------------------------
(* The caller goes on, or the server answers within the timeout. *)
Answered(c) ==
  \/ \E r \in GetResponses : GetAnswered(c, r) \/ FallBack(c, r)
  \/ \E r \in SearchResponses : SearchAnswered(c, r)
  \/ Unanswered(c)

GoesOn(c) == Sleep(c) \/ Send(c) \/ Answered(c)

Next == Tick \/ \E c \in Callers : LetOut(c) \/ GoesOn(c) \/ Raised(c)

Spec == Init /\ [][Next]_vars

(* Deferred jobs come back, so that some worker asks again; a request has  *)
(* a timeout; time passes.                                                 *)
Fairness ==
  /\ WF_vars(\E c \in Callers : LetOut(c))
  /\ \A c \in Callers : WF_vars(GoesOn(c))
  /\ WF_vars(Tick)

FairSpec == Spec /\ Fairness

-----------------------------------------------------------------------------
(* Two requests, of one or two workers, lookups or searches, go out at     *)
(* least the interval apart, also when sleepers are cancelled.             *)
Spaced == [][\A c \in Callers : Waits(c) /\ Sent(c, fetch[c].asks)' => since >= MinInterval]_vars

(* A lookup comes to its end: nobody who leaves the queue takes the turns  *)
(* of the others along.                                                    *)
EveryLookupEnds == \A c \in Callers : fetch[c] # NULL ~> fetch[c] = NULL

(* To the breaker all of this is a call that ends. *)
ImplementsCircuit == Breaker!FairSpec

(* What Circuit promises, here of lookups that wait for turns.             *)
(* The circuit is open exactly when the last Threshold results were        *)
(* transient failures.                                                     *)
OpenMeansFailing == Breaker!OpenMeansFailing

(* No Retry-After closes the circuit for longer than the maximum. *)
WindowIsBounded == Breaker!WindowIsBounded

(* An open circuit always comes to let a probe out, or closes. *)
ProbeGoesOut == Breaker!ProbeGoesOut

=============================================================================
