---------------------------- MODULE MCEnrichment ----------------------------
(* Constant values for checking Enrichment. *)
EXTENDS Enrichment, TLC

CONSTANT LrcPath    \* the path of the sidecar that every track's lyrics go to

MCSidecarOf == [j \in Jobs |-> LrcPath]

MCSymmetry == Permutations(Jobs) \cup Permutations(Workers) \cup Permutations(Lyrics)

=============================================================================
