--------------------------- MODULE MCJobQueueSql ---------------------------
(* Constant values for checking JobQueueSql. *)
EXTENDS JobQueueSql, TLC

MCSymmetry == Permutations(Jobs) \cup Permutations(Workers) \cup Permutations(Enqueuers)

=============================================================================
