------------------------------ MODULE JobPolicy ------------------------------
(***************************************************************************)
(* The decision ladder of application/job_policy.py: what to do with a     *)
(* track, from the facts the worker has gathered about it.  decide() is a  *)
(* pure function; it is the operator Decide here, used by Enrichment.tla.  *)
(*                                                                         *)
(* Facts are records with the fields of JobFacts.  The three request flags *)
(* of a job are one set, a subset of RequestFlags, so that "more consent"  *)
(* is set inclusion.  Reason codes and the two counters of JobDecision     *)
(* only feed metrics and are left out.                                     *)
(***************************************************************************)
EXTENDS Naturals

RequestFlags == {"force", "overwrite", "allowManual"}

JobFacts ==
  [sidecar     : BOOLEAN,   \* sidecar_exists
   embedded    : BOOLEAN,   \* embedded_exists
   provenance  : BOOLEAN,   \* has_provenance
   markDeleted : BOOLEAN,   \* provenance_sidecar_deleted
   hashMatches : BOOLEAN,   \* provenance_hash_matches_sidecar
   cooldown    : BOOLEAN,   \* cooldown_active
   attempt     : Nat,       \* attempt_count
   flags       : SUBSET RequestFlags]

Actions == {"preserve", "noop", "fetch"}

Decisions ==
  [action       : Actions,
   repair       : BOOLEAN,  \* repair_missing_provenance
   markDeleted  : BOOLEAN,  \* mark_sidecar_deleted
   markDiverged : BOOLEAN]  \* mark_manual_diverged

(* A decision that sets no mark. *)
Plain(action) ==
  [action |-> action, repair |-> FALSE, markDeleted |-> FALSE, markDiverged |-> FALSE]

-----------------------------------------------------------------------------
(* The rungs of the ladder, named for what each protects.                  *)
(*                                                                         *)
(* Definitions whose name begins with Slip are mistakes that could be made *)
(* in the definition that follows; model checking notices them.           *)

(* only once the removal has been marked *)
SlipRemoved(f) == ~f.sidecar /\ f.markDeleted

(* A sidecar Versarr wrote is gone: the user removed it. *)
Removed(f) == ~f.sidecar /\ f.provenance

(* A sidecar without provenance on a later attempt may be the write of an  *)
(* attempt that failed before it recorded provenance.                      *)
Repairable(f) == f.sidecar /\ ~f.provenance /\ f.attempt > 1

(* A sidecar that no longer holds what Versarr wrote. *)
Diverged(f) == f.sidecar /\ f.provenance /\ ~f.hashMatches

(* manual edits count for nothing *)
SlipMayReplace(f) == Repairable(f) \/ (f.provenance /\ {"force", "overwrite"} \subseteq f.flags)

(* The sidecar on disk may be replaced (or adopted by a repair). *)
MayReplace(f) ==
  \/ Repairable(f)
  \/ f.provenance /\ RequestFlags \subseteq f.flags
  \/ f.provenance /\ f.hashMatches /\ {"force", "overwrite"} \subseteq f.flags

Decide(f) ==
  IF Removed(f) /\ "force" \notin f.flags
    THEN [Plain("preserve") EXCEPT !.markDeleted = ~f.markDeleted]
  ELSE IF f.sidecar /\ ~MayReplace(f)
    THEN [Plain("preserve") EXCEPT !.markDiverged = Diverged(f)]
  ELSE IF ~f.sidecar /\ f.embedded
    THEN Plain("preserve")
  ELSE IF f.cooldown /\ ~Repairable(f) /\ "force" \notin f.flags
    THEN Plain("noop")
  ELSE [Plain("fetch") EXCEPT !.repair = Repairable(f), !.markDiverged = Diverged(f)]

(* The decision lets this attempt put new text on disk. *)
Writes(d) == d.action = "fetch" /\ ~d.repair

(* The job has what it takes to do so: over a sidecar, Versarr's provenance *)
(* of it and a force+overwrite request, which allows for manual edits when  *)
(* there are any; over a removal, force; beside embedded lyrics, a sidecar  *)
(* that is there already.                                                   *)
Consented(f) ==
  /\ f.sidecar =>
       /\ f.provenance
       /\ {"force", "overwrite"} \subseteq f.flags
       /\ f.hashMatches \/ "allowManual" \in f.flags
  /\ ~f.sidecar /\ f.provenance => "force" \in f.flags
  /\ f.embedded => f.sidecar

=============================================================================
