-------------------------- MODULE JobQueueConstants --------------------------
(* Parameters of the job queue, the shape of its rows and what is assumed  *)
(* of both, for JobQueue and for the modules that contain it.              *)
EXTENDS Integers, FiniteSets

CONSTANTS
  Jobs,               \* job keys: one per media path
  Workers,            \* worker loops ("worker-0", ...)
  Priorities,         \* ranks of priorities, most urgent lowest
  Requests,           \* the sets of flags a request can carry
  FileAttempts,       \* retry.file_unstable.max_attempts
  ProviderAttempts,   \* retry.provider_transient.max_attempts
  Delays,             \* seconds until a retry or the end of a deferral
  LeaseTTL,           \* retry.lease_ttl_seconds
  Faults,             \* whether the database can refuse a call (locked, full)
  Lag,                \* how long before its effect a call may have read the clock
  NULL,               \* SQL NULL, Python None
  MaxTime,            \* bound: the clock stops here
  MaxEnqueues,        \* bound: requests made
  MaxRestarts,        \* bound: stops and crashes
  MaxBeats            \* bound: heartbeat writes under way at once

ASSUME JobQueueAssumption ==
  /\ Priorities \subseteq Nat
  /\ FileAttempts \in Nat \ {0}
  /\ ProviderAttempts \in Nat \ {0}
  /\ Delays \subseteq Nat \ {0}
  /\ LeaseTTL \in Nat \ {0}
  /\ Faults \in BOOLEAN
  /\ Lag \in Nat
  /\ NULL \notin Int
  /\ MaxTime \in Nat
  /\ MaxEnqueues \in Nat
  /\ MaxRestarts \in Nat

Flags == UNION Requests

States == {"pending", "processing", "completed", "failed"}

Row == [state    : States,
        priority : Priorities,
        attempts : Nat,              \* attempt_count
        nextAt   : Nat \cup {NULL},  \* next_attempt_at
        dirty    : BOOLEAN,
        flags    : SUBSET Flags,     \* force, overwrite_existing, allow_manual_overwrite
        owner    : Workers \cup {NULL},   \* lease_owner
        lease    : Nat \cup {NULL}]  \* lease_until

(* The EnrichmentJob a worker keeps in memory from the lease on, and when  *)
(* it got it: the clock is read for a retry after that.                    *)
Held == [job : Jobs, attempt : Nat \ {0}, flags : SUBSET Flags, since : Nat]

ASSUME NullAssumption == NULL \notin Workers \cup Row \cup Held

=============================================================================
