------------------------------ MODULE Control ------------------------------
(***************************************************************************)
(* Control requests: rows that the command line inserts and the daemon     *)
(* drains (application/services.py, ControlRequestService; the control     *)
(* loop of bootstrap.py; infrastructure/persistence/repository.py).        *)
(*                                                                         *)
(* A rescan asks for one file, a full scan for every file of a root.  What *)
(* the request asks for is queued one file after the other, so that an     *)
(* error or the end of the daemon can leave a part of it undone.  Rows are *)
(* numbered in the order of requested_at.  Definitions whose name begins   *)
(* with Slip are mistakes that could be made in the definition that        *)
(* follows; model checking notices them.                                   *)
(***************************************************************************)
EXTENDS Sequences, FiniteSets, ControlConstants

VARIABLES
  requests,  \* control_requests, as a sequence
  drain,     \* the drain_once under way, NULL while the control loop sleeps
  queued,    \* history: how often a file was queued for a request
  faults     \* counter for the bound

vars == <<requests, drain, queued, faults>>

Ids == 1 .. MaxRequests
Request ==
  [asks   : SUBSET Paths,
   status : {"pending", "claimed", "completed", "failed"}]

Drain ==
  [polled : SUBSET Ids,         \* requests of the poll not taken up yet
   at     : Ids \cup {NULL},    \* the request that is executed
   todo   : SUBSET Paths,       \* files still to queue for it
   broken : BOOLEAN]            \* its execution has raised

TypeOK ==
  /\ requests \in Seq(Request)
  /\ Len(requests) <= MaxRequests
  /\ drain \in Drain \cup {NULL}
  /\ drain # NULL /\ drain.at # NULL => requests[drain.at].status = "claimed"
  /\ queued \in [Ids -> [Paths -> Nat]]
  /\ faults \in 0 .. MaxFaults

Init ==
  /\ requests = <<>>
  /\ drain = NULL
  /\ queued = [r \in Ids |-> [p \in Paths |-> 0]]
  /\ faults = 0

-----------------------------------------------------------------------------
(* request-rescan and request-full-scan *)
Ask(paths) ==
  /\ Len(requests) < MaxRequests
  /\ requests' = Append(requests, [asks |-> paths, status |-> "pending"])
  /\ UNCHANGED <<drain, queued, faults>>

InStatus(statuses) == {r \in DOMAIN requests : requests[r].status \in statuses}

(* a claimed request is taken up again *)
SlipPollable == InStatus({"pending", "claimed"})

Pollable == InStatus({"pending"})

(* the newest ones *)
SlipOldest(ids) == {r \in ids : Cardinality({q \in ids : q > r}) < Limit}

Oldest(ids) == {r \in ids : Cardinality({q \in ids : q < r}) < Limit}

(* the limit counts requests that are no longer pending *)
SlipPoll ==
  /\ drain = NULL
  /\ drain' = [polled |-> Oldest(DOMAIN requests) \cap Pollable, at |-> NULL, todo |-> {},
               broken |-> FALSE]
  /\ UNCHANGED <<requests, queued, faults>>

(* poll_control_requests *)
Poll ==
  /\ drain = NULL
  /\ drain' = [polled |-> Oldest(Pollable), at |-> NULL, todo |-> {}, broken |-> FALSE]
  /\ UNCHANGED <<requests, queued, faults>>

Between == drain # NULL /\ drain.at = NULL

(* claim_control_request, of the oldest request of the poll *)
Claim ==
  /\ Between
  /\ \E r \in drain.polled :
       /\ \A q \in drain.polled : r <= q
       /\ requests' = [requests EXCEPT ![r].status = "claimed"]
       /\ drain' = [drain EXCEPT !.polled = @ \ {r}, !.at = r, !.todo = requests[r].asks]
  /\ UNCHANGED <<queued, faults>>

Executing == drain # NULL /\ drain.at # NULL

(* A file is queued: the one to rescan, or the next one of a full scan. *)
Execute ==
  /\ Executing
  /\ ~drain.broken
  /\ \E p \in drain.todo :
       /\ queued' = [queued EXCEPT ![drain.at][p] = @ + 1]
       /\ drain' = [drain EXCEPT !.todo = @ \ {p}]
  /\ UNCHANGED <<requests, faults>>

(* the request is closed whatever is left of it *)
SlipCanComplete == Executing

CanComplete == Executing /\ drain.todo = {}

Close(status) ==
  /\ requests' = [requests EXCEPT ![drain.at].status = status]
  /\ drain' = [drain EXCEPT !.at = NULL, !.todo = {}, !.broken = FALSE]
  /\ UNCHANGED <<queued, faults>>

(* complete_control_request *)
Complete == CanComplete /\ ~drain.broken /\ Close("completed")

(* Queueing, the scan or complete_control_request raises, ... *)
Breaks ==
  /\ faults < MaxFaults
  /\ faults' = faults + 1
  /\ Executing
  /\ ~drain.broken
  /\ drain' = [drain EXCEPT !.broken = TRUE]
  /\ UNCHANGED <<requests, queued>>

(* ... and fail_control_request closes the request. *)
Fail == Executing /\ drain.broken /\ Close("failed")

(* The poll, a claim or fail_control_request raises, or the daemon ends    *)
(* and starts again: drain_once ends where it was.                         *)
Interrupt ==
  /\ faults < MaxFaults
  /\ faults' = faults + 1
  /\ drain # NULL
  /\ drain' = NULL
  /\ UNCHANGED <<requests, queued>>

Done ==
  /\ Between
  /\ drain.polled = {}
  /\ drain' = NULL
  /\ UNCHANGED <<requests, queued, faults>>

-----------------------------------------------------------------------------
DrainStep == Poll \/ Claim \/ Execute \/ Complete \/ Fail \/ Done

Next ==
  \/ \E p \in Paths : Ask({p})
  \/ Ask(Paths)
  \/ DrainStep \/ Breaks \/ Interrupt

Spec == Init /\ [][Next]_vars

(* The control loop drains, sleeps and drains again, under its supervisor. *)
FairSpec == Spec /\ WF_vars(DrainStep)

-----------------------------------------------------------------------------
(* No file is queued twice for one request, through any errors and         *)
(* restarts: a second time would undo what the first has led to, with the  *)
(* flags of a forced rescan.                                               *)
AtMostOnce == \A r \in Ids, p \in Paths : queued[r][p] <= 1

(* A completed request has been executed in full. *)
CompletedIsDone ==
  \A r \in DOMAIN requests : requests[r].status = "completed" =>
    \A p \in requests[r].asks : queued[r][p] > 0

(* A request is taken up in the end, also when others keep coming and a    *)
(* poll takes only some of them.                                           *)
EveryRequestIsTaken ==
  \A r \in Ids :
    r \in InStatus({"pending"}) ~> r \in InStatus({"claimed", "completed", "failed"})

(* Of two requests, the older one is taken up first, the rows being taken  *)
(* to appear in the order of requested_at.  In the code that time is set   *)
(* before the row is committed: a younger request whose row appears sooner *)
(* can be taken up before an older one.                                    *)
OldestFirst ==
  \A r \in DOMAIN requests : \A q \in 1 .. r - 1 :
    requests[q].status = "pending" => requests[r].status = "pending"

(* A control request is a command "executed by the running daemon"         *)
(* (GLOSSARY.md): in the end it has been executed, or is marked failed.    *)
RequestsAreExecuted ==
  \A r \in Ids :
    r \in InStatus({"pending"}) ~>
      \/ r \in InStatus({"failed"})
      \/ r \in DOMAIN requests /\ \A p \in requests[r].asks : queued[r][p] > 0

=============================================================================
