------------------------------ MODULE History ------------------------------
(***************************************************************************)
(* What /history?full says of the entities of each merged request          *)
(* (provenance.add_entity_details).  A pair <<e, v>> is the IRI of e in    *)
(* version v, which a reader may follow: it leads somewhere if version v   *)
(* of the dataset has e.                                                   *)
(***************************************************************************)
EXTENDS Provenance

EntityVersions(entities, v) == {<<e, v>> : e \in entities}

(* prov:generated, by the change that request i made.                      *)
Generated(i) ==
  EntityVersions(request[i].created \cup request[i].updated, request[i].resulted_in)

(* prov:wasRevisionOf, from an entity's new version to the one before.     *)
WasRevisionOf(i) ==
  {<< <<e, request[i].resulted_in>>, <<e, request[i].applied_to>> >> : e \in request[i].updated}

Invalidated(i) == request[i].removed

Exists(entityVersion) == entityVersion[1] \in DOMAIN Version(entityVersion[2])

-----------------------------------------------------------------------------
(* Every entity version that the history says a change generated or        *)
(* revised is there to be read, although the entities were listed when the *)
(* request was submitted and the change was made to a later version        *)
(* (create_request and merge, patching.py:111, 245-260).                   *)
HistoryLeadsToVersions ==
  \A i \in Merged :
    /\ \A ev \in Generated(i) : Exists(ev)
    /\ \A revision \in WasRevisionOf(i) : Exists(revision[2])

(* What the history says a change invalidated is not in its result.  The   *)
(* removal of a mere field counts as that of its entity                    *)
(* (_analyze_change, patching.py:60-66) and is left out.                   *)
InvalidatedAreGone ==
  \A i \in Merged :
    request[i].applied.scope # "field" =>
      \A e \in Invalidated(i) : ~Exists(<<e, request[i].resulted_in>>)
=============================================================================
