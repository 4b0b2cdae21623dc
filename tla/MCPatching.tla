----------------------------- MODULE MCPatching -----------------------------
(* Values for the model-checking runs of Patching, Provenance and History. *)
EXTENDS History, PatchingCuration, TLC

CONSTANTS w1, w2, author, editor, a1, a2, p1, p2, p3, p4, s1, s2, s3,
          asLoaded, changed

MCAuthorityOf == p1 :> a1 @@ p2 :> a1 @@ p3 :> a1 @@ p4 :> a2

None == [s \in {} |-> NoId]
P(op, scope, a, q, new) ==
  [op |-> op, scope |-> scope, authority |-> a, period |-> q,
   listing |-> {}, value |-> changed, new |-> new]

EditPeriod      == P("replace", "field",  a1, p1, None)
EditBack        == [EditPeriod EXCEPT !.value = asLoaded]
AddPeriod       == P("add",     "period", a1, NoId, s1 :> a1)
RemovePeriod    == P("remove",  "period", a1, p1, None)
RemoveAuthority == P("remove",  "authority", a1, NoId, None)
ReplaceAuthority == [P("replace", "authority", a1, NoId, s2 :> a1) EXCEPT !.listing = {p2}]
AddAuthority    == P("add", "authority", NoId, NoId, s2 :> Root @@ s3 :> s2)
DropPeriods     == P("remove", "periods", a1, NoId, None)

OverlapPatches   == {EditPeriod, AddPeriod, RemoveAuthority, ReplaceAuthority}
SerialPatches    == {AddPeriod, RemovePeriod, AddAuthority}
SequencePatches  == {EditPeriod, EditBack, AddPeriod, RemovePeriod, RemoveAuthority, DropPeriods}

Edits            == {EditPeriod, EditBack}
AddOnly          == {AddPeriod}
AddAndRemove     == {AddPeriod, RemovePeriod}
AddAndRemoveAll  == {AddPeriod, RemoveAuthority}

WorkerSymmetry == Permutations(Workers)
=============================================================================
