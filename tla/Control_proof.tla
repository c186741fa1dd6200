--------------------------- MODULE Control_proof ----------------------------
(***************************************************************************)
(* Proofs about control requests, for any number of files, requests,       *)
(* requests per poll, errors and restarts.                                 *)
(*                                                                         *)
(* What the promises rest on is that a request is taken out of pending     *)
(* before anything is queued for it, and that a poll returns the oldest    *)
(* pending requests without a gap, which stays so while it is worked off:  *)
(* new requests are younger, and nobody else takes one.                    *)
(***************************************************************************)
EXTENDS Control, FiniteSetTheorems, TLAPS

USE ControlAssumption

(* Nothing has been queued for a request that is pending, or yet to come. *)
PendingIsUntouched ==
  \A r \in Ids : (r \in DOMAIN requests => requests[r].status = "pending") =>
    \A p \in Paths : queued[r][p] = 0

(* What a poll has returned and is left are the oldest pending requests. *)
PolledAreOldest ==
  drain # NULL => \A r \in drain.polled :
    /\ r \in InStatus({"pending"})
    /\ \A q \in InStatus({"pending"}) : q < r => q \in drain.polled

(* Of the request that is executed, what is left has not been queued, and  *)
(* the rest has.                                                           *)
ExecutionIsExact ==
  drain # NULL /\ drain.at # NULL =>
    /\ drain.at \in DOMAIN requests
    /\ \A p \in drain.todo : queued[drain.at][p] = 0
    /\ \A p \in requests[drain.at].asks \ drain.todo : queued[drain.at][p] > 0

ControlInv ==
  /\ TypeOK
  /\ AtMostOnce
  /\ CompletedIsDone
  /\ OldestFirst
  /\ PendingIsUntouched
  /\ PolledAreOldest
  /\ ExecutionIsExact

-----------------------------------------------------------------------------
(* The status of one request changes, what it asks for does not. *)
LEMMA StatusChanges ==
  ASSUME TypeOK, NEW r \in DOMAIN requests, NEW status \in {"pending", "claimed", "completed", "failed"},
         requests' = [requests EXCEPT ![r].status = status]
  PROVE  /\ requests' \in Seq(Request)
         /\ Len(requests') = Len(requests)
         /\ DOMAIN requests' = DOMAIN requests
         /\ requests'[r].status = status
         /\ requests'[r].asks = requests[r].asks
         /\ \A q \in DOMAIN requests : q # r => requests'[q] = requests[q]
<1>1. requests \in Seq(Request) /\ requests[r] \in Request
  BY DEF TypeOK
<1>2. [requests[r] EXCEPT !.status = status] \in Request
  BY <1>1 DEF Request
<1>3. QED
  BY <1>1, <1>2 DEF Request

LEMMA Numbered ==
  ASSUME TypeOK
  PROVE  /\ Len(requests) \in Nat
         /\ DOMAIN requests = 1 .. Len(requests)
         /\ DOMAIN requests \subseteq Ids
BY DEF TypeOK, Ids

(* The oldest ones of a set leave no gap. *)
LEMMA OldestHaveNoGap ==
  ASSUME NEW n \in Nat, NEW ids \in SUBSET (1 .. n),
         NEW r \in Oldest(ids), NEW q \in ids, q < r
  PROVE  q \in Oldest(ids)
<1> DEFINE Before(k) == {i \in ids : i < k}
<1>1. IsFiniteSet(Before(r))
  <2>1. IsFiniteSet(1 .. n)
    BY FS_Interval
  <2>2. Before(r) \in SUBSET (1 .. n)
    OBVIOUS
  <2>3. QED
    BY <2>1, <2>2, FS_Subset
<1>2. Before(q) \subseteq Before(r)
  <2>1. r \in 1 .. n /\ q \in 1 .. n
    BY DEF Oldest
  <2>2. ASSUME NEW i \in ids, i < q
        PROVE  i < r
    BY <2>1, <2>2
  <2>3. QED
    BY <2>2
<1>3. Cardinality(Before(q)) <= Cardinality(Before(r)) /\ IsFiniteSet(Before(q))
  BY <1>1, <1>2, FS_Subset
<1>4. Cardinality(Before(q)) \in Nat /\ Cardinality(Before(r)) \in Nat
  BY <1>1, <1>3, FS_CardinalityType
<1>5. Cardinality(Before(r)) < Limit
  BY DEF Oldest
<1>6. Cardinality(Before(q)) < Limit
  BY <1>3, <1>4, <1>5
<1>7. QED
  BY <1>6 DEF Oldest

LEMMA InitInv == Init => ControlInv
<1> SUFFICES ASSUME Init
             PROVE  ControlInv
  OBVIOUS
<1>1. requests = <<>> /\ drain = NULL /\ faults = 0
      /\ queued = [r \in Ids |-> [p \in Paths |-> 0]]
  BY DEF Init
<1>2. TypeOK
  BY <1>1 DEF TypeOK
<1>3. AtMostOnce /\ PendingIsUntouched
  BY <1>1 DEF AtMostOnce, PendingIsUntouched
<1>4. CompletedIsDone /\ OldestFirst /\ PolledAreOldest /\ ExecutionIsExact
  BY <1>1 DEF CompletedIsDone, OldestFirst, PolledAreOldest, ExecutionIsExact
<1>5. QED
  BY <1>2, <1>3, <1>4 DEF ControlInv

-----------------------------------------------------------------------------
(* A new request is the youngest, and pending. *)
LEMMA AskInv ==
  ASSUME ControlInv, NEW paths \in SUBSET Paths, Ask(paths)
  PROVE  ControlInv'
<1> DEFINE new == [asks |-> paths, status |-> "pending"]
<1> USE Numbered DEF ControlInv
<1>1. requests \in Seq(Request) /\ new \in Request
  BY DEF TypeOK, Request
<1>2. /\ requests' = Append(requests, new)
      /\ Len(requests) < MaxRequests
      /\ UNCHANGED <<drain, queued, faults>>
  BY DEF Ask
<1> HIDE DEF new
<1>3. /\ requests' \in Seq(Request)
      /\ Len(requests') = Len(requests) + 1
      /\ DOMAIN requests' = 1 .. Len(requests) + 1
      /\ \A r \in DOMAIN requests : r \in DOMAIN requests' /\ requests'[r] = requests[r]
      /\ requests'[Len(requests) + 1] = new
  BY <1>1, <1>2
<1>4. new.status = "pending" /\ new.asks = paths
  BY DEF new
<1>5. \A r \in DOMAIN requests' : r \in DOMAIN requests \/ r = Len(requests) + 1
  BY <1>3
<1>6. /\ InStatus({"pending"}) \subseteq InStatus({"pending"})'
      /\ \A q \in InStatus({"pending"})' : q \in InStatus({"pending"}) \/ q = Len(requests) + 1
  BY <1>3, <1>4, <1>5 DEF InStatus
<1>7. ExecutionIsExact'
  BY <1>2, <1>3 DEF ExecutionIsExact
<1>8. TypeOK'
  BY <1>2, <1>3, <1>7 DEF TypeOK, ExecutionIsExact
<1>9. AtMostOnce' /\ PendingIsUntouched'
  BY <1>2, <1>3, <1>4, <1>5 DEF AtMostOnce, PendingIsUntouched
<1>10. CompletedIsDone'
  BY <1>2, <1>3, <1>4, <1>5 DEF CompletedIsDone
<1>11. OldestFirst'
  BY <1>2, <1>3, <1>4, <1>5 DEF OldestFirst
<1>12. PolledAreOldest'
  <2>1. \A r \in InStatus({"pending"}) : r \in DOMAIN requests
    BY DEF InStatus
  <2>2. QED
    BY <1>2, <1>3, <1>6, <2>1 DEF PolledAreOldest
<1>13. QED
  BY <1>7, <1>8, <1>9, <1>10, <1>11, <1>12

(* A poll takes the oldest. *)
LEMMA PollInv ==
  ASSUME ControlInv, Poll
  PROVE  ControlInv'
<1> USE Numbered DEF ControlInv
<1>1. /\ drain' = [polled |-> Oldest(Pollable), at |-> NULL, todo |-> {}, broken |-> FALSE]
      /\ UNCHANGED <<requests, queued, faults>>
  BY DEF Poll
<1>2. Pollable = InStatus({"pending"}) /\ Pollable \subseteq 1 .. Len(requests)
  BY DEF Pollable, InStatus
<1>3. Oldest(Pollable) \subseteq Pollable
  BY DEF Oldest
<1>4. drain' \in Drain /\ drain'.at = NULL /\ drain'.polled = Oldest(Pollable)
  <2>1. Oldest(Pollable) \subseteq Ids
    BY <1>2, <1>3
  <2>2. drain' \in Drain
    BY <1>1, <2>1 DEF Drain
  <2>3. drain'.at = NULL /\ drain'.polled = Oldest(Pollable)
    BY <1>1
  <2>4. QED
    BY <2>2, <2>3
<1>5. InStatus({"pending"})' = Pollable
  BY <1>1, <1>2 DEF InStatus
<1>6. PolledAreOldest'
  <2> SUFFICES ASSUME NEW r \in Oldest(Pollable)
               PROVE  r \in Pollable /\ \A q \in Pollable : q < r => q \in Oldest(Pollable)
    BY <1>4, <1>5 DEF PolledAreOldest
  <2>1. QED
    BY <1>2, <1>3, OldestHaveNoGap
<1>7. TypeOK' /\ ExecutionIsExact'
  BY <1>1, <1>4 DEF TypeOK, ExecutionIsExact
<1>8. AtMostOnce' /\ CompletedIsDone' /\ OldestFirst' /\ PendingIsUntouched'
  BY <1>1 DEF AtMostOnce, CompletedIsDone, OldestFirst, PendingIsUntouched
<1>9. QED
  BY <1>6, <1>7, <1>8

(* The oldest request of the poll is claimed, and with it the oldest that  *)
(* is pending.                                                             *)
LEMMA ClaimInv ==
  ASSUME ControlInv, Claim
  PROVE  ControlInv'
<1> USE Numbered DEF ControlInv
<1>1. PICK r \in drain.polled :
        /\ \A q \in drain.polled : r <= q
        /\ requests' = [requests EXCEPT ![r].status = "claimed"]
        /\ drain' = [drain EXCEPT !.polled = @ \ {r}, !.at = r, !.todo = requests[r].asks]
  BY DEF Claim
<1>2. drain # NULL /\ drain \in Drain /\ drain.at = NULL /\ UNCHANGED <<queued, faults>>
  BY DEF Claim, Between, TypeOK
<1>3. r \in DOMAIN requests /\ requests[r].status = "pending" /\ r \in Ids
  BY <1>2 DEF PolledAreOldest, InStatus
<1>4. /\ requests' \in Seq(Request)
      /\ Len(requests') = Len(requests)
      /\ DOMAIN requests' = DOMAIN requests
      /\ requests'[r].status = "claimed"
      /\ requests'[r].asks = requests[r].asks
      /\ \A q \in DOMAIN requests : q # r => requests'[q] = requests[q]
  BY <1>1, <1>3, StatusChanges
<1>5. requests[r].asks \subseteq Paths
  <2>1. requests[r] \in Request
    BY <1>3 DEF TypeOK
  <2>2. QED
    BY <2>1 DEF Request
<1>6. /\ drain' \in Drain
      /\ drain'.polled = drain.polled \ {r} /\ drain'.at = r /\ drain'.todo = requests[r].asks
  BY <1>1, <1>2, <1>3, <1>5 DEF Drain
<1>7. \A p \in Paths : queued[r][p] = 0
  BY <1>3 DEF PendingIsUntouched
<1>8. TypeOK'
  BY <1>2, <1>4, <1>6 DEF TypeOK
<1>9. AtMostOnce' /\ PendingIsUntouched'
  BY <1>2, <1>4 DEF AtMostOnce, PendingIsUntouched
<1>10. CompletedIsDone'
  BY <1>2, <1>4 DEF CompletedIsDone
<1>11. \A q \in InStatus({"pending"}) : r <= q
  BY <1>1, <1>2, <1>3 DEF PolledAreOldest, InStatus
<1>12. OldestFirst'
  <2> SUFFICES ASSUME NEW i \in DOMAIN requests, NEW q \in 1 .. i - 1, requests'[q].status = "pending"
               PROVE  requests'[i].status = "pending"
    BY <1>4 DEF OldestFirst
  <2>1. q \in DOMAIN requests /\ q # r /\ requests[q].status = "pending"
    BY <1>4
  <2>2. i # r
    BY <1>11, <2>1 DEF InStatus
  <2>3. QED
    BY <1>4, <2>1, <2>2 DEF OldestFirst
<1>13. PolledAreOldest'
  <2>1. InStatus({"pending"})' = InStatus({"pending"}) \ {r}
    BY <1>4 DEF InStatus
  <2>2. QED
    BY <1>2, <1>6, <2>1 DEF PolledAreOldest
<1>14. ExecutionIsExact'
  BY <1>2, <1>3, <1>4, <1>5, <1>6, <1>7 DEF ExecutionIsExact
<1>15. QED
  BY <1>8, <1>9, <1>10, <1>12, <1>13, <1>14

(* Files are queued one by one. *)
LEMMA ExecuteInv ==
  ASSUME ControlInv, Execute
  PROVE  ControlInv'
<1> USE Numbered DEF ControlInv
<1>1. PICK p \in drain.todo :
        /\ queued' = [queued EXCEPT ![drain.at][p] = @ + 1]
        /\ drain' = [drain EXCEPT !.todo = @ \ {p}]
  BY DEF Execute
<1>2. drain # NULL /\ drain \in Drain /\ drain.at # NULL /\ UNCHANGED <<requests, faults>>
  BY DEF Execute, Executing, TypeOK
<1>3. drain.at \in Ids /\ drain.todo \subseteq Paths /\ p \in Paths
  BY <1>2 DEF Drain
<1>4. /\ drain.at \in DOMAIN requests /\ requests[drain.at].status = "claimed"
      /\ queued[drain.at][p] = 0
  BY <1>2 DEF TypeOK, ExecutionIsExact
<1>5. /\ drain' \in Drain
      /\ drain'.polled = drain.polled /\ drain'.at = drain.at /\ drain'.todo = drain.todo \ {p}
  BY <1>1, <1>2 DEF Drain
<1>6. queued \in [Ids -> [Paths -> Nat]]
  BY DEF TypeOK
<1>7. /\ queued' \in [Ids -> [Paths -> Nat]]
      /\ queued'[drain.at][p] = 1
      /\ \A r \in Ids, q \in Paths : r # drain.at \/ q # p => queued'[r][q] = queued[r][q]
  BY <1>1, <1>3, <1>4, <1>6
<1>8. TypeOK'
  BY <1>2, <1>5, <1>7 DEF TypeOK
<1>9. AtMostOnce'
  BY <1>7 DEF AtMostOnce
<1>10. CompletedIsDone'
  <2> SUFFICES ASSUME NEW r \in DOMAIN requests, requests[r].status = "completed",
                      NEW q \in requests[r].asks
               PROVE  queued'[r][q] > 0
    BY <1>2 DEF CompletedIsDone
  <2>1. r # drain.at
    BY <1>4
  <2>2. requests[r] \in Request
    BY DEF TypeOK
  <2>3. r \in Ids /\ q \in Paths
    BY <2>2 DEF Request
  <2>4. QED
    BY <1>7, <2>1, <2>3 DEF CompletedIsDone
<1>11. PendingIsUntouched'
  BY <1>2, <1>4, <1>7 DEF PendingIsUntouched
<1>12. OldestFirst' /\ PolledAreOldest'
  BY <1>2, <1>5 DEF OldestFirst, PolledAreOldest, InStatus
<1>13. ExecutionIsExact'
  <2>1. requests[drain.at] \in Request
    BY <1>4 DEF TypeOK
  <2>2. requests[drain.at].asks \subseteq Paths
    BY <2>1 DEF Request
  <2>3. \A q \in drain.todo \ {p} : queued'[drain.at][q] = 0
    BY <1>2, <1>3, <1>7 DEF ExecutionIsExact
  <2>4. \A q \in requests[drain.at].asks \ (drain.todo \ {p}) : queued'[drain.at][q] > 0
    <3> SUFFICES ASSUME NEW q \in requests[drain.at].asks, q = p \/ q \notin drain.todo
                 PROVE  queued'[drain.at][q] > 0
      OBVIOUS
    <3>1. CASE q = p
      BY <1>7, <3>1
    <3>2. CASE q # p
      BY <1>2, <1>3, <1>7, <2>2, <3>2 DEF ExecutionIsExact
    <3>3. QED
      BY <3>1, <3>2
  <2>5. QED
    BY <1>2, <1>4, <1>5, <2>3, <2>4 DEF ExecutionIsExact
<1>14. QED
  BY <1>8, <1>9, <1>10, <1>11, <1>12, <1>13

(* The request is closed: when it is completed, nothing is left of it.     *)
LEMMA CloseInv ==
  ASSUME ControlInv, Executing, NEW status \in {"completed", "failed"}, Close(status),
         status = "completed" => drain.todo = {}
  PROVE  ControlInv'
<1> USE Numbered DEF ControlInv
<1>1. drain # NULL /\ drain \in Drain /\ drain.at # NULL /\ UNCHANGED <<queued, faults>>
  BY DEF Executing, Close, TypeOK
<1>2. drain.at \in DOMAIN requests /\ requests[drain.at].status = "claimed"
  BY <1>1 DEF TypeOK, ExecutionIsExact
<1>3. /\ requests' \in Seq(Request)
      /\ Len(requests') = Len(requests)
      /\ DOMAIN requests' = DOMAIN requests
      /\ requests'[drain.at].status = status
      /\ requests'[drain.at].asks = requests[drain.at].asks
      /\ \A q \in DOMAIN requests : q # drain.at => requests'[q] = requests[q]
  BY <1>2, StatusChanges DEF Close
<1>4. drain' \in Drain /\ drain'.polled = drain.polled /\ drain'.at = NULL
  BY <1>1 DEF Close, Drain
<1>5. TypeOK'
  BY <1>1, <1>3, <1>4 DEF TypeOK
<1>6. AtMostOnce' /\ PendingIsUntouched'
  BY <1>1, <1>2, <1>3 DEF AtMostOnce, PendingIsUntouched
<1>7. CompletedIsDone'
  <2>1. status = "completed" => \A p \in requests[drain.at].asks : queued[drain.at][p] > 0
    BY <1>1 DEF ExecutionIsExact
  <2>2. QED
    BY <1>1, <1>3, <2>1 DEF CompletedIsDone
<1>8. InStatus({"pending"})' = InStatus({"pending"})
  BY <1>2, <1>3 DEF InStatus
<1>9. OldestFirst'
  <2> SUFFICES ASSUME NEW i \in DOMAIN requests, NEW q \in 1 .. i - 1, requests'[q].status = "pending"
               PROVE  requests'[i].status = "pending"
    BY <1>3 DEF OldestFirst
  <2>1. q \in DOMAIN requests /\ requests[q].status = "pending"
    BY <1>3
  <2>2. requests[i].status = "pending"
    BY <2>1 DEF OldestFirst
  <2>3. QED
    BY <1>2, <1>3, <2>2
<1>10. PolledAreOldest' /\ ExecutionIsExact'
  BY <1>1, <1>4, <1>8 DEF PolledAreOldest, ExecutionIsExact
<1>11. QED
  BY <1>5, <1>6, <1>7, <1>9, <1>10

(* The end of a drain, wherever it was, leaves the requests alone; so does *)
(* all that happens elsewhere.                                             *)
LEMMA LeaveInv ==
  ASSUME ControlInv, drain' = NULL \/ UNCHANGED drain,
         UNCHANGED <<requests, queued>>, faults' \in 0 .. MaxFaults
  PROVE  ControlInv'
<1> USE DEF ControlInv
<1>1. CASE drain' = NULL
  BY <1>1 DEF TypeOK, AtMostOnce, CompletedIsDone, OldestFirst, PendingIsUntouched,
              PolledAreOldest, ExecutionIsExact
<1>2. CASE UNCHANGED drain
  BY <1>2 DEF TypeOK, AtMostOnce, CompletedIsDone, OldestFirst, PendingIsUntouched,
              PolledAreOldest, ExecutionIsExact, InStatus
<1>3. QED
  BY <1>1, <1>2

(* Errors and restarts leave the requests alone. *)
LEMMA RestInv ==
  ASSUME ControlInv, Breaks \/ Interrupt \/ Done \/ UNCHANGED vars
  PROVE  ControlInv'
<1>1. faults \in 0 .. MaxFaults
  BY DEF ControlInv, TypeOK
<1>2. CASE Breaks
  <2> USE DEF ControlInv
  <2>1. drain # NULL /\ drain \in Drain /\ UNCHANGED <<requests, queued>> /\ faults' \in 0 .. MaxFaults
    BY <1>2 DEF Breaks, Executing, TypeOK
  <2>2. /\ drain' \in Drain
        /\ drain'.polled = drain.polled /\ drain'.at = drain.at /\ drain'.todo = drain.todo
    BY <1>2, <2>1 DEF Breaks, Drain
  <2>3. QED
    BY <2>1, <2>2 DEF TypeOK, AtMostOnce, CompletedIsDone, OldestFirst, PendingIsUntouched,
                      PolledAreOldest, ExecutionIsExact, InStatus
<1>3. CASE Interrupt \/ Done \/ UNCHANGED vars
  BY <1>1, <1>3, LeaveInv DEF Interrupt, Done, vars
<1>4. QED
  BY <1>2, <1>3

LEMMA NextInv ==
  ASSUME ControlInv, [Next]_vars
  PROVE  ControlInv'
<1>1. CASE \E p \in Paths : Ask({p})
  BY <1>1, AskInv
<1>2. CASE Ask(Paths)
  BY <1>2, AskInv
<1>3. CASE DrainStep
  <2>1. CASE Poll
    BY <2>1, PollInv
  <2>2. CASE Claim
    BY <2>2, ClaimInv
  <2>3. CASE Execute
    BY <2>3, ExecuteInv
  <2>4. CASE Complete
    BY <2>4, CloseInv DEF Complete, CanComplete
  <2>5. CASE Fail
    BY <2>5, CloseInv DEF Fail
  <2>6. CASE Done
    BY <2>6, RestInv
  <2>7. QED
    BY <1>3, <2>1, <2>2, <2>3, <2>4, <2>5, <2>6 DEF DrainStep
<1>4. CASE Breaks \/ Interrupt \/ UNCHANGED vars
  BY <1>4, RestInv
<1>5. QED
  BY <1>1, <1>2, <1>3, <1>4 DEF Next

-----------------------------------------------------------------------------
(* The conjunction is inductive. *)
THEOREM ControlInvariant == Spec => []ControlInv
<1>1. Init => ControlInv
  BY InitInv
<1>2. ControlInv /\ [Next]_vars => ControlInv'
  BY NextInv
<1>3. QED
  BY <1>1, <1>2, PTL DEF Spec

(* No file is queued twice for one request, through any errors and         *)
(* restarts.                                                               *)
THEOREM RequestsAreExecutedOnce == Spec => []AtMostOnce
BY ControlInvariant, PTL DEF ControlInv

(* A request is only recorded as completed when all that it asked for has  *)
(* been queued.                                                            *)
THEOREM CompletedRequestsAreDone == Spec => []CompletedIsDone
BY ControlInvariant, PTL DEF ControlInv

(* Requests are taken up in the order in which their rows appear, however  *)
(* many there are and however few a poll takes.                            *)
THEOREM OldestRequestsFirst == Spec => []OldestFirst
BY ControlInvariant, PTL DEF ControlInv

=============================================================================
