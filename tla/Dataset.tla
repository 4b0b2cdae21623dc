------------------------------ MODULE Dataset ------------------------------
(***************************************************************************)
(* The PeriodO dataset and the JSON patches that change it, as pure        *)
(* operators: what a patch is taken to affect (patching.py), when the      *)
(* JSON-patch library accepts it, what it does to the data, and which      *)
(* permanent identifiers it may be given (identifier.py).                  *)
(*                                                                         *)
(* A dataset is a function from the identifiers it holds to their content: *)
(*   {"authorities": {a: {..., "periods": {q: {...}}}}}                    *)
(* with the nesting carried by AuthorityOf, as in the code, where the      *)
(* identifier of a period starts with that of its authority.  The content  *)
(* of an authority is what it holds besides its "periods".                 *)
(*                                                                         *)
(* A patch is one JSON-patch operation.  The groups CHANGE_PATH_PATTERN    *)
(* finds in its path are the fields authority and period (NoId: no match), *)
(* and "scope" is the part of the document the path ends at:               *)
(*   "authorities"  /authorities                                           *)
(*   "authority"    /authorities/{id or skolem IRI}                        *)
(*   "periods"      /authorities/{id}/periods                              *)
(*   "period"       /authorities/{id}/periods/{id or skolem IRI}           *)
(*   "field"        a member of an authority or of a period                *)
(* "new" maps each skolem IRI for which the patch wants an identifier to   *)
(* its parent: Root for an authority, an authority (its identifier or its  *)
(* skolem IRI) for a period.  "listing" holds the periods with permanent   *)
(* identifiers inside the value that replaces a whole authority.           *)
(***************************************************************************)
EXTENDS Naturals, FiniteSets, Functions

CONSTANTS
  AuthorityIds,   \* identifiers for_authority() may generate
  PeriodIds,      \* identifiers for_period() may generate
  AuthorityOf,    \* the authority a period identifier starts with
  Skolems,        \* .well-known/genid/... IRIs that clients make up
  Contents,       \* what an entity may say
  Root,           \* parent of a new authority
  NoId            \* "no such group in the path"

Ids == AuthorityIds \cup PeriodIds

ASSUME IdAssumption ==
  /\ AuthorityIds \cap PeriodIds = {}
  /\ AuthorityOf \in [PeriodIds -> AuthorityIds]
  /\ Skolems \cap Ids = {}
  /\ {Root, NoId} \cap (Ids \cup Skolems) = {}

Data == UNION {[S -> Contents] : S \in SUBSET Ids}

(* The dataset row with id 0 that schema.sql inserts: '{}'. *)
EmptyData == [e \in {} |-> NoId]

-----------------------------------------------------------------------------
(* Patches.  The IRI .../genid/assigned/<id> is written as <id> itself.    *)

PatchOps == {"add", "replace", "remove"}
Scopes == {"authorities", "authority", "periods", "period", "field"}

IsPatch(p) ==
  /\ DOMAIN p.new \subseteq Skolems \cup Ids
  /\ p \in [op : PatchOps, scope : Scopes,
            authority : AuthorityIds \cup {NoId}, period : PeriodIds \cup {NoId},
            listing : SUBSET PeriodIds, value : Contents,
            new : [DOMAIN p.new -> Ids \cup Skolems \cup {Root}]]
  /\ p.period # NoId => p.authority = AuthorityOf[p.period]
  /\ p.scope = "authorities" => p.authority = NoId
  /\ p.scope \in {"authorities", "authority", "periods"} => p.period = NoId
  /\ p.op = "remove" => p.listing = {} /\ DOMAIN p.new = {}

PeriodsOf(data, a) == {q \in PeriodIds \cap DOMAIN data : AuthorityOf[q] = a}

UpdatedAnyOp(p) == {p.authority, p.period} \ {NoId}
Updated(p) ==
  IF p.op = "remove" /\ p.period = NoId THEN {}
  ELSE IF p.op = "remove" THEN {p.authority}
  ELSE {p.authority, p.period} \ {NoId}

RemovedAnyOp(p, data) ==
  IF p.authority = NoId THEN {} ELSE IF p.period # NoId THEN {p.period}
  ELSE {p.authority} \cup PeriodsOf(data, p.authority)
Removed(p, data) ==
  IF p.op # "remove" \/ p.authority = NoId THEN {}
  ELSE IF p.period # NoId THEN {p.period}
  ELSE {p.authority} \cup PeriodsOf(data, p.authority)

-----------------------------------------------------------------------------
(* Applying a patch: jsonpatch's apply().                                  *)

Target(p) ==
  CASE p.scope = "authority" -> p.authority
    [] p.scope = "period"    -> p.period
    [] p.scope = "field"     -> IF p.period = NoId THEN p.authority ELSE p.period
    [] OTHER                 -> NoId

(* Every member of the path but the last exists (else JsonPointerException). *)
PointerResolves(p, data) ==
  /\ p.scope \in {"periods", "period", "field"} => p.authority \in DOMAIN data
  /\ p.scope = "field" /\ p.period # NoId => p.period \in DOMAIN data

(* "remove" and "replace" need the last member too (else JsonPatchConflict). *)
MemberExists(p, data) ==
  p.op # "add" /\ p.scope \in {"authority", "period"} => Target(p) \in DOMAIN data

Applicable(p, data) == PointerResolves(p, data) /\ MemberExists(p, data)

(* The entities whose entry goes away, or gives way to the patch's value. *)
Replaced(p, data) ==
  {e \in DOMAIN data :
     \/ p.scope = "authorities"
     \/ p.scope # "field" /\ e = Target(p)
     \/ p.scope \in {"authority", "periods"} /\ e \in PeriodsOf(data, p.authority)}

Written(p) ==
  IF p.op = "remove" /\ p.scope # "field" THEN {}
  ELSE ({Target(p)} \ {NoId}) \cup p.listing

Apply(p, ids, data) ==
  LET set == Written(p) \cup Range(ids)
  IN [e \in (DOMAIN data \ Replaced(p, data)) \cup set |->
        IF e \in set THEN p.value ELSE data[e]]

(* void.describe_dataset reads data["authorities"] and the "periods" of    *)
(* every authority, and raises KeyError when a patch has deleted them.     *)
Describable(p) == ~(p.op = "remove" /\ p.scope \in {"authorities", "periods"})

-----------------------------------------------------------------------------
(* Identifiers for the new entities of a patch: replace_skolem_ids().      *)

(* unprefix() strips "p0", which every identifier has: what is left is     *)
(* never one of the prefixed identifiers it is compared with.              *)
Unprefix(id) == <<"unprefixed", id>>

RemovedIdsOnly(data, removedKeys) == {Unprefix(k) : k \in removedKeys}
ExistingIds(data, removedKeys) == {Unprefix(k) : k \in removedKeys} \cup DOMAIN data

AlreadyMapped(p, known) == \E s \in DOMAIN p.new : s \in Skolems /\ s \in known

Parent(p, ids, s) == IF p.new[s] \in DOMAIN ids THEN ids[p.new[s]] ELSE p.new[s]

IsChild(id, parent) ==
  IF parent = Root THEN id \in AuthorityIds
  ELSE id \in PeriodIds /\ AuthorityOf[id] = parent

(* The assignments replace_skolem_ids() may return as patch_id_map.        *)
Assignments(p, existing) ==
  {ids \in [DOMAIN p.new -> Ids \ existing] :
     /\ IsInjective(ids)
     /\ \A s \in DOMAIN p.new :
          IF s \in Ids THEN ids[s] = s ELSE IsChild(ids[s], Parent(p, ids, s))}

(* unused_identifier() gives up after 10 tries, an assigned id at once:    *)
(* both need an existing identifier of the kind that was asked for.        *)
MayCollide(p, existing) ==
  \E s \in DOMAIN p.new :
     IF s \in Ids THEN s \in existing
     ELSE \E id \in Ids \cap existing :
            p.new[s] \in {Root} \cup AuthorityIds /\ IsChild(id, p.new[s])
=============================================================================
