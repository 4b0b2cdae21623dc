-------------------------- MODULE PatchingCuration --------------------------
(* How the tables of Patching are read as the decisions of Curation.       *)
EXTENDS Patching

Decision(row) ==
  IF row.open THEN "open" ELSE IF row.merged THEN "accepted" ELSE "declined"

Decisions == INSTANCE Curation WITH
  FirstPatch <- LoadPatch,
  FirstVersion <- Apply(LoadPatch, [e \in Initial |-> e], EmptyData),
  versions <- dataset,
  proposal <- [i \in DOMAIN request |-> request[i].original],
  decision <- [i \in DOMAIN request |-> Decision(request[i])],
  named    <- MappedSkolems \cap Skolems

(* With reviews that do not overlap, the handlers are indivisible: every   *)
(* run of the workers, with requests being made, answered and dropped in   *)
(* between, is a run of Curation (merge, patching.py:206-270; reject,      *)
(* 177-203; update_request, 136-155).                                      *)
ImplementsCuration == Decisions!Spec
=============================================================================
