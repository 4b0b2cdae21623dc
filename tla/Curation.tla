------------------------------ MODULE Curation ------------------------------
(***************************************************************************)
(* What the change requests of patching.py promise, without workers,       *)
(* requests in flight, or database rows: a request is proposed, revised    *)
(* while it is open, and then accepted or declined once and for all.       *)
(* Accepting one is a single step from the current version of the dataset  *)
(* to the next; a skolem IRI is given a permanent identifier at most once. *)
(***************************************************************************)
EXTENDS Dataset, Sequences

CONSTANTS Patches, FirstPatch, FirstVersion

VARIABLES
  versions,   \* the datasets, oldest first
  proposal,   \* what each request asks for
  decision,   \* "open", "accepted" or "declined"
  named       \* skolem IRIs that have permanent identifiers

curation == <<versions, proposal, decision, named>>

Current == versions[Len(versions)]

Init ==
  /\ versions = <<FirstVersion>>
  /\ proposal = <<FirstPatch>>
  /\ decision = <<"accepted">>
  /\ named = {}

(* A proposal may have been checked against a version that has since been  *)
(* succeeded.                                                              *)
Submit ==
  \E p \in Patches, v \in DOMAIN versions :
    /\ Applicable(p, versions[v])
    /\ proposal' = Append(proposal, p)
    /\ decision' = Append(decision, "open")
    /\ UNCHANGED <<versions, named>>

Revise ==
  \E i \in DOMAIN proposal, p \in Patches :
    /\ decision[i] = "open"
    /\ Applicable(p, Current)
    /\ proposal' = [proposal EXCEPT ![i] = p]
    /\ UNCHANGED <<versions, decision, named>>

Accept ==
  \E i \in DOMAIN proposal :
    LET p == proposal[i]
    IN /\ decision[i] = "open"
       /\ Applicable(p, Current) /\ Describable(p)
       /\ ~AlreadyMapped(p, named)
       /\ \E ids \in Assignments(p, DOMAIN Current) :
            versions' = Append(versions, Apply(p, ids, Current))
       /\ decision' = [decision EXCEPT ![i] = "accepted"]
       /\ named' = named \cup (DOMAIN p.new \cap Skolems)
       /\ UNCHANGED proposal

Decline ==
  \E i \in DOMAIN proposal :
    /\ decision[i] = "open"
    /\ decision' = [decision EXCEPT ![i] = "declined"]
    /\ UNCHANGED <<versions, proposal, named>>

Next == Submit \/ Revise \/ Accept \/ Decline

Spec == Init /\ [][Next]_curation
=============================================================================
