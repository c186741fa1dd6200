----------------------------- MODULE MCProvider -----------------------------
(***************************************************************************)
(* Instances of Provider for TLC: one response of every kind.  They check  *)
(* liveness, so no symmetry is declared.                                   *)
(***************************************************************************)
EXTENDS Provider, TLC

NoHeader == [kind |-> "none", value |-> 0]
Seconds(n) == [kind |-> "seconds", value |-> n]

Track(same) == [title |-> same, artist |-> TRUE, duration |-> TRUE, synced |-> TRUE, plain |-> FALSE]

Answer(code, body) == [code |-> code, header |-> NoHeader, body |-> body]

MCFailures ==
  {[code |-> 429, header |-> Seconds(9), body |-> NULL],
   [code |-> 503, header |-> [kind |-> "date", value |-> -1], body |-> NULL],
   Answer(403, NULL), Answer(200, NULL)}

MCGetResponses == MCFailures \cup {Answer(404, NULL), Answer(200, Track(TRUE)), Answer(200, Track(FALSE))}

MCSearchResponses == MCFailures \cup {Answer(200, {Track(TRUE), Track(FALSE)}), Answer(200, {}), Answer(404, NULL)}

(* Over every set of up to three candidates: a search finds the track      *)
(* exactly when a candidate with a text has its title and artist.          *)
ASSUME SearchFinds ==
  \A p, q, r \in Lrc!Payload :
    Lrc!SearchResult(Answer(200, {p, q, r})).status =
      IF \E x \in {p, q, r} : Lrc!HasText(x) /\ x.title /\ x.artist THEN "matched" ELSE "not_found"

=============================================================================
