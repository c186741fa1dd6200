---------------------------- MODULE MCDiscovery ----------------------------
(***************************************************************************)
(* Instances of Discovery for TLC: the .cfg files give its constants their *)
(* values.  They check liveness, so no symmetry is declared.               *)
(***************************************************************************)
EXTENDS Discovery, TLC

=============================================================================
