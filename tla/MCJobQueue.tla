----------------------------- MODULE MCJobQueue -----------------------------
(***************************************************************************)
(* Instances of JobQueue for TLC: the .cfg files give its constants their  *)
(* values.  They check liveness, so no symmetry is declared.               *)
(***************************************************************************)
EXTENDS JobQueue, Sequences, TLC

Config == INSTANCE Settings

SmallWindows == [initial : -1 .. 3, max : -1 .. 5, attempts : 0 .. 4]

(* Delays of accepted windows are as the queue assumes them, and do not    *)
(* shrink from one attempt to the next, jitter aside.                      *)
ASSUME DelaysFit ==
  \A w \in {v \in SmallWindows : Config!ValidWindow(v)}, n \in 1 .. 4 :
    /\ \A d \in Config!RetryDelays(w, n) : d \in 9 .. 10 * w.max
    /\ Config!Backoff(w, n) <= Config!Backoff(w, n + 1)

Trees == UNION {[1 .. n -> {"a", "b"}] : n \in 1 .. 2}
TwoRoots == [1 .. 2 -> [name : Trees, target : Trees]]

(* Of two accepted roots a file has at most one directory, and the one it  *)
(* is matched with contains it.                                            *)
ASSUME RootsFit ==
  \A roots \in {r \in TwoRoots : Config!ValidRoots(r)}, media \in Trees :
    /\ Cardinality({roots[i].target : i \in Config!Matches(roots, media)}) <= 1
    /\ LET root == Config!MatchRoot(roots, media)
       IN  root = NULL \/ Config!Within(root.target, media)

=============================================================================
