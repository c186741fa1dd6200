------------------------- MODULE MCReconciliation -------------------------
(***************************************************************************)
(* Instances of Reconciliation for TLC: the .cfg files give its constants  *)
(* their values.  They check liveness, so no symmetry is declared.         *)
(***************************************************************************)
EXTENDS Reconciliation, TLC

=============================================================================
