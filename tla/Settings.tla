------------------------------ MODULE Settings ------------------------------
(***************************************************************************)
(* What the validators of config/settings.py let pass, and the two things  *)
(* that are computed from it elsewhere and rest on them: the delay before  *)
(* a retry (JobProcessor._build_retry), of which JobQueue assumes that it  *)
(* is positive, and the library root of a file                             *)
(* (VersarrRuntime._match_root).  Functions, without state.                *)
(***************************************************************************)
EXTENDS Integers, Sequences

CONSTANT NULL   \* Python None

-----------------------------------------------------------------------------
(* retry.file_unstable and retry.provider_transient *)
RetryWindow == [initial : Int, max : Int, attempts : Int]

ValidWindow(w) ==
  /\ 0 < w.initial
  /\ w.initial <= w.max
  /\ 0 < w.attempts

ValidLease(heartbeat, ttl) == 0 < heartbeat /\ heartbeat < ttl

Lesser(a, b) == IF a < b THEN a ELSE b

(* Seconds before the attempt that follows attempt n *)
Backoff(w, n) == Lesser(w.initial * 2 ^ (IF n > 1 THEN n - 1 ELSE 0), w.max)

(* In tenths of a second: retries after provider failures are spread by    *)
(* up to a tenth.                                                          *)
Jitter == 9 .. 11
Spread(w, n, jitter) == Lesser(Backoff(w, n) * jitter, 10 * w.max)

(* _build_retry: the delays there can be, none after the last attempt.     *)
RetryDelays(w, n) == IF n >= w.attempts THEN {} ELSE {Spread(w, n, jitter) : jitter \in Jitter}

-----------------------------------------------------------------------------
(* A path is the sequence of its names, resolved: without links.           *)
Below(a, b) == Len(a) < Len(b) /\ \A i \in 1 .. Len(a) : a[i] = b[i]

Within(a, b) == a = b \/ Below(a, b)

(* library_roots: each is configured by a name, and resolves to a target,  *)
(* NULL when it does not exist.  One directory can have two names.         *)
Root(Names) == [name : Seq(Names), target : Seq(Names) \cup {NULL}]

ValidRoots(roots) ==
  /\ roots # <<>>
  /\ \A i \in DOMAIN roots : roots[i].target # NULL
  /\ \A i, j \in DOMAIN roots : i # j =>
       /\ roots[i].name # roots[j].name
       /\ ~Below(roots[i].target, roots[j].target)

Matches(roots, media) == {i \in DOMAIN roots : Within(roots[i].target, media)}

(* _match_root: the first root that matches *)
MatchRoot(roots, media) ==
  IF Matches(roots, media) = {} THEN NULL
  ELSE roots[CHOOSE i \in Matches(roots, media) : \A j \in Matches(roots, media) : i <= j]

=============================================================================
