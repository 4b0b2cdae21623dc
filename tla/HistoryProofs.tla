---------------------------- MODULE HistoryProofs ---------------------------
(***************************************************************************)
(* Theorems about Provenance, History and Export, for any number of        *)
(* workers, requests, versions and dumps, when reviews do not overlap.     *)
(***************************************************************************)
EXTENDS CurationProofs, Export, SequenceTheorems, FiniteSetTheorems, WellFoundedInduction

-----------------------------------------------------------------------------
(* A dump taken while the server goes on.                                  *)

(* A dump does nothing to the database: what holds of Patching holds here. *)
LEMMA ExportIsPatching == ExportSpec => Spec
<1>1. ExportInit => Init
  BY DEF ExportInit
<1>2. [ExportNext]_exportVars => [Next]_vars
  BY DEF ExportNext, exportVars, DumpTable, DumpEnd
<1> QED BY <1>1, <1>2, PTL DEF ExportSpec, Spec

(* What has been sent so far: versions that are in the table still, and    *)
(* then rows that account for each of the versions sent.                   *)
SourcesFor(d, r) ==
  \A v \in 1..Len(d) : \E i \in DOMAIN r : r[i].merged /\ r[i].resulted_in = v

DumpOK ==
  \/ dump = <<>>
  \/ \E d \in Seq(Data) : dump = <<d>> /\ Len(d) =< Latest
  \/ \E d \in Seq(Data), r \in Seq(Rows) : dump = <<d, r>> /\ SourcesFor(d, r)

LEMMA AppendToOne ==
  ASSUME NEW a, NEW b
  PROVE  Append(<<a>>, b) = <<a, b>>
<1> DEFINE S == {a, b}
           s == Append(<<a>>, b)
<1>1. <<a>> \in Seq(S) /\ <<a, b>> \in Seq(S) /\ b \in S
  OBVIOUS
<1>2. Len(<<a>>) = 1 /\ Len(<<a, b>>) = 2
  OBVIOUS
<1>3. s \in Seq(S) /\ Len(s) = 2 /\ s[1] = a /\ s[2] = b
  BY <1>1, <1>2, AppendProperties
<1>4. \A i \in 1..Len(s) : s[i] = <<a, b>>[i]
  BY <1>3
<1> HIDE DEF S, s
<1>5. s = <<a, b>>
  BY <1>1, <1>2, <1>3, <1>4, SeqEqual
<1> QED BY <1>5 DEF s

LEMMA DumpTableKeepsDumps ==
  ASSUME TypeOK, ChainOK, DumpOK, DumpTable
  PROVE  DumpOK'
<1>1. DumpOrder = <<"dataset", "patch_request">> /\ Len(DumpOrder) = 2
  BY DEF DumpOrder
<1>2. /\ dataset \in Seq(Data) /\ Latest = Len(dataset) /\ Latest \in Nat
      /\ request \in Seq(Rows)
      /\ dataset' = dataset /\ Latest' = Latest
  BY DEF DumpTable, TypeOK, Latest, vars
<1>3. CASE dump = <<>>
  <2>1. dump' = <<dataset>>
    BY <1>1, <1>3 DEF DumpTable, TableRows
  <2> QED BY <1>2, <2>1 DEF DumpOK
<1>4. ASSUME NEW d \in Seq(Data), dump = <<d>>, Len(d) =< Latest
      PROVE  DumpOK'
  <2>1. dump' = <<d, request>>
    <3>1. Len(dump) = 1 /\ DumpOrder[2] = "patch_request"
      BY <1>1, <1>4
    <3>2. dump' = Append(dump, request)
      BY <3>1 DEF DumpTable, TableRows
    <3> QED BY <1>4, <3>2, AppendToOne
  <2>2. \A v \in 1..Latest : \E i \in Merged : request[i].resulted_in = v
    BY DEF ChainOK, LinearHistory
  <2>3. SourcesFor(d, request)
    BY <1>2, <1>4, <2>2 DEF SourcesFor, Merged
  <2> QED BY <1>2, <2>1, <2>3 DEF DumpOK
<1>5. ASSUME NEW d \in Seq(Data), NEW r \in Seq(Rows), dump = <<d, r>>
      PROVE  FALSE
  BY <1>1, <1>5 DEF DumpTable
<1> QED BY <1>3, <1>4, <1>5 DEF DumpOK

LEMMA NextKeepsDumps ==
  ASSUME TypeOK, ReviewsOK, ChainOK, DumpOK, [ExportNext]_exportVars
  PROVE  DumpOK'
<1>1. ASSUME [Next]_vars, UNCHANGED dump
      PROVE  DumpOK'
  <2>1. /\ dataset \in Seq(Data)
        /\ \/ dataset' = dataset
           \/ \E data : dataset' = Append(dataset, data)
    BY <1>1, MergedOnlyGrows DEF TypeOK
  <2>2. Latest \in Nat /\ Latest' \in Nat /\ Latest' >= Latest
    BY <2>1 DEF Latest
  <2> QED BY <1>1, <2>2 DEF DumpOK
<1>2. CASE DumpTable
  BY <1>2, DumpTableKeepsDumps
<1>3. CASE DumpEnd
  BY <1>3 DEF DumpEnd, DumpOK
<1> QED BY <1>1, <1>2, <1>3 DEF ExportNext, exportVars

(* When reviews do not overlap, a dump has, for every version of the       *)
(* dataset in it, the merged request that made it, although the two tables *)
(* are read at different times (database.dump).                            *)
THEOREM DumpsHaveSources ==
  ASSUME SerialReview
  PROVE  ExportSpec => []DumpedVersionsHaveASource
<1>1. ExportInit => DumpOK
  BY DEF ExportInit, DumpOK
<1>2. TypeOK /\ ReviewsOK /\ ChainOK /\ DumpOK /\ [ExportNext]_exportVars => DumpOK'
  BY NextKeepsDumps
<1>3. DumpOK => DumpedVersionsHaveASource
  <2> SUFFICES ASSUME DumpOK, Complete
               PROVE  \A v \in DOMAIN Dumped("dataset") :
                        \E i \in DOMAIN Dumped("patch_request") :
                          /\ Dumped("patch_request")[i].merged
                          /\ Dumped("patch_request")[i].resulted_in = v
    BY DEF DumpedVersionsHaveASource
  <2>1. DumpOrder = <<"dataset", "patch_request">>
    BY DEF DumpOrder
  <2>2. (CHOOSE k \in DOMAIN DumpOrder : DumpOrder[k] = "dataset") = 1
    BY <2>1
  <2>3. (CHOOSE k \in DOMAIN DumpOrder : DumpOrder[k] = "patch_request") = 2
    BY <2>1
  <2>4. Len(dump) = 2
    BY <2>1 DEF Complete
  <2>5. PICK d \in Seq(Data), r \in Seq(Rows) : dump = <<d, r>> /\ SourcesFor(d, r)
    BY <2>4 DEF DumpOK
  <2>6. Dumped("dataset") = d /\ Dumped("patch_request") = r
    <3>1. Dumped("dataset") = dump[1] /\ Dumped("patch_request") = dump[2]
      BY <2>2, <2>3, Zenon DEF Dumped
    <3> QED BY <2>5, <3>1
  <2> QED BY <2>5, <2>6 DEF SourcesFor
<1> QED BY <1>1, <1>2, <1>3, ExportIsPatching, TypesAreKept, ReviewsAreKept, ChainIsKept, PTL
        DEF ExportSpec

-----------------------------------------------------------------------------
(* What a row tells of its change: what it lists as updated and removed is *)
(* what the patch it shows affects, in some version; and a merged patch    *)
(* was good for the version it was applied to.                             *)

RowAccount(r, d) ==
  /\ r.updated = Updated(r.original)
  /\ \E data \in Data : r.removed = Removed(r.original, data)
  /\ r.original \in Patches \/ (r.merged /\ r.resulted_in = 1)
  /\ r.merged =>
       /\ Applicable(r.applied, VersionIn(d, r.applied_to)) /\ Describable(r.applied)
       /\ DOMAIN r.identifier_map = DOMAIN r.applied.new
       /\ r.created = Range(r.identifier_map)

AccountsOK == \A i \in 1..Len(request) : RowAccount(request[i], dataset)

LEMMA VersionsAreData ==
  ASSUME TypeOK
  PROVE  /\ Latest \in Nat /\ Latest >= 1 /\ Len(dataset) = Latest
         /\ DOMAIN request = 1..Len(request) /\ Len(request) \in Nat
         /\ \A v \in 1..Latest : dataset[v] \in Data /\ Version(v) = dataset[v]
<1>1. \A v \in 1..Latest : v # 0
  BY DEF TypeOK, Latest
<1> QED BY <1>1 DEF TypeOK, Latest, Version, VersionIn

LEMMA InitAccounts == Init => AccountsOK
<1> SUFFICES ASSUME Init PROVE AccountsOK
  OBVIOUS
<1> DEFINE ids == [e \in Initial |-> e]
           row == MergedRow(NewRow(Loader, 0, LoadPatch), Loader, 0, LoadPatch, ids, 1)
<1>1. /\ row.merged = TRUE /\ row.applied_to = 0 /\ row.resulted_in = 1
      /\ row.applied = LoadPatch /\ row.original = LoadPatch
      /\ row.updated = Updated(LoadPatch) /\ row.removed = Removed(LoadPatch, Version(0))
      /\ row.identifier_map = ids /\ row.created = Range(ids)
  BY DEF MergedRow, NewRow
<1>2. Version(0) = EmptyData /\ VersionIn(dataset, 0) = EmptyData
  BY DEF Version, VersionIn
<1>3. EmptyData \in Data
  <2>1. EmptyData \in [{} -> Contents]
    BY DEF EmptyData
  <2> QED BY <2>1 DEF Data
<1>4. DOMAIN ids = DOMAIN LoadPatch.new
  BY DEF LoadPatch
<1>5. Applicable(LoadPatch, EmptyData) /\ Describable(LoadPatch)
  BY DEF Applicable, PointerResolves, MemberExists, Describable, LoadPatch
<1>6. request = <<row>> /\ dataset = <<Apply(LoadPatch, ids, EmptyData)>>
  BY DEF Init
<1> HIDE DEF row, ids
<1>7. RowAccount(row, dataset)
  BY <1>1, <1>2, <1>3, <1>4, <1>5 DEF RowAccount
<1> QED BY <1>6, <1>7 DEF AccountsOK

(* A step that adds a row or changes one, and keeps the versions.          *)
LEMMA RowStepKeepsAccounts ==
  ASSUME TypeOK, RecordsOK, AccountsOK,
         \A v \in 1..Latest : dataset'[v] = dataset[v],
         \A i \in 1..Len(request') : \/ RowAccount(request'[i], dataset')
                                     \/ i \in 1..Len(request) /\ request'[i] = request[i]
  PROVE  AccountsOK'
<1>1. ASSUME NEW i \in 1..Len(request)
      PROVE  RowAccount(request[i], dataset')
  <2>1. RowAccount(request[i], dataset)
    BY DEF AccountsOK
  <2>2. request[i].merged => request[i].applied_to \in 0..Latest
    <3> SUFFICES ASSUME request[i].merged PROVE request[i].applied_to \in 0..Latest
      OBVIOUS
    <3>1. i \in Merged
      BY VersionsAreData DEF Merged
    <3>2. /\ request[i].resulted_in \in 1..Latest
          /\ request[i].applied_to \in 0..(request[i].resulted_in - 1)
      BY <3>1 DEF RecordsOK, MergedRowsExplainVersions
    <3> QED BY <3>2, VersionsAreData
  <2>3. request[i].merged =>
          VersionIn(dataset', request[i].applied_to) = VersionIn(dataset, request[i].applied_to)
    BY <2>2, VersionsAreData DEF VersionIn
  <2> QED BY <2>1, <2>3 DEF RowAccount
<1>2. \A i \in 1..Len(request') : RowAccount(request'[i], dataset')
  BY <1>1
<1> QED BY <1>2 DEF AccountsOK

LEMMA CreateKeepsAccounts ==
  ASSUME TypeOK, RecordsOK, ReviewsOK, AccountsOK, NEW w \in Workers, CreateInsert(w)
  PROVE  AccountsOK'
<1> DEFINE p == worker[w].patch
           v == worker[w].base
           row == NewRow(worker[w].user, v, p)
<1>1. /\ worker[w].pc = "insert" /\ LocalsOK(worker[w], dataset, request)
      /\ JobOK(worker[w], dataset, request)
  BY DEF CreateInsert, At, TypeOK, ReviewsOK
<1>2. p \in Patches /\ v \in 1..Latest
  BY <1>1 DEF LocalsOK, JobOK, HoldingBase, Latest
<1>3. /\ row.updated = Updated(p) /\ row.removed = Removed(p, Version(v))
      /\ row.merged = FALSE /\ row.original = p
  BY DEF NewRow
<1>4. request' = Append(request, row) /\ dataset' = dataset
  BY DEF CreateInsert
<1>5. Version(v) \in Data
  BY <1>2, VersionsAreData
<1> HIDE DEF p, v, row
<1>6. RowAccount(row, dataset')
  BY <1>2, <1>3, <1>5 DEF RowAccount
<1>7. \A i \in 1..Len(request') : request'[i] = row \/ (i \in 1..Len(request) /\ request'[i] = request[i])
  BY <1>4 DEF TypeOK
<1> QED BY <1>4, <1>6, <1>7, RowStepKeepsAccounts

(* A row is replaced by one that is accounted for.                         *)
LEMMA ReplacedRowKeepsAccounts ==
  ASSUME TypeOK, RecordsOK, AccountsOK, NEW i \in 1..Len(request), NEW row,
         \A v \in 1..Latest : dataset'[v] = dataset[v],
         request' = [request EXCEPT ![i] = row], RowAccount(row, dataset')
  PROVE  AccountsOK'
<1>1. /\ Len(request') = Len(request)
      /\ \A k \in 1..Len(request) : request'[k] = IF k = i THEN row ELSE request[k]
  BY DEF TypeOK
<1> QED BY <1>1, RowStepKeepsAccounts

LEMMA UpdateKeepsAccounts ==
  ASSUME TypeOK, RecordsOK, ReviewsOK, AccountsOK, NEW w \in Workers, UpdateWrite(w)
  PROVE  AccountsOK'
<1> DEFINE i == worker[w].id
           p == worker[w].patch
           v == worker[w].base
           row == RevisedRow(request[i], worker[w].user, v, p)
<1>1. /\ worker[w].pc = "write" /\ LocalsOK(worker[w], dataset, request)
      /\ JobOK(worker[w], dataset, request)
  BY DEF UpdateWrite, At, TypeOK, ReviewsOK
<1>2. i \in 1..Len(request) /\ p \in Patches /\ v \in 1..Latest /\ ~request[i].merged
  BY <1>1 DEF LocalsOK, JobOK, HoldingBase, HoldingRequest, ReviewPoints, Latest
<1>3. request[i] \in Rows
  BY <1>2 DEF TypeOK
<1>4. /\ row.updated = Updated(p) /\ row.removed = Removed(p, Version(v))
      /\ row.merged = request[i].merged /\ row.original = p
  BY <1>3 DEF RevisedRow, Rows
<1>5. request' = [request EXCEPT ![i] = row] /\ dataset' = dataset
  BY DEF UpdateWrite
<1>6. Version(v) \in Data
  BY <1>2, VersionsAreData
<1> HIDE DEF i, p, v, row
<1>7. RowAccount(row, dataset')
  BY <1>2, <1>4, <1>6 DEF RowAccount
<1> QED BY <1>2, <1>5, <1>7, ReplacedRowKeepsAccounts

LEMMA RejectKeepsAccounts ==
  ASSUME TypeOK, RecordsOK, ReviewsOK, AccountsOK, NEW w \in Workers, RejectWrite(w)
  PROVE  AccountsOK'
<1> DEFINE i == worker[w].id
           row == RejectedRow(request[i], worker[w].user)
<1>1. /\ worker[w].pc = "close" /\ LocalsOK(worker[w], dataset, request)
      /\ JobOK(worker[w], dataset, request)
  BY DEF RejectWrite, At, TypeOK, ReviewsOK
<1>2. i \in 1..Len(request) /\ ~request[i].merged
  BY <1>1 DEF LocalsOK, JobOK, HoldingRequest, ReviewPoints
<1>3. request[i] \in Rows /\ RowAccount(request[i], dataset)
  BY <1>2 DEF TypeOK, AccountsOK
<1>4. /\ row.updated = request[i].updated /\ row.removed = request[i].removed
      /\ row.merged = FALSE /\ row.original = request[i].original
  BY <1>3 DEF RejectedRow, Rows
<1>5. request' = [request EXCEPT ![i] = row] /\ dataset' = dataset
  BY DEF RejectWrite
<1> HIDE DEF i, row
<1>6. RowAccount(row, dataset')
  BY <1>2, <1>3, <1>4 DEF RowAccount
<1> QED BY <1>2, <1>5, <1>6, ReplacedRowKeepsAccounts

LEMMA MergeKeepsAccounts ==
  ASSUME TypeOK, RecordsOK, ReviewsOK, AccountsOK, NEW w \in Workers, MergeCommit(w)
  PROVE  AccountsOK'
<1> DEFINE i == worker[w].id
           p == worker[w].patch
           ids == worker[w].ids
           row == MergedRow(request[i], worker[w].user, Latest, p, ids, Latest + 1)
<1>1. /\ worker[w].pc = "commit" /\ LocalsOK(worker[w], dataset, request)
      /\ JobOK(worker[w], dataset, request)
  BY DEF MergeCommit, At, TypeOK, ReviewsOK
<1>2. /\ i \in 1..Len(request) /\ worker[w].base = Latest
      /\ ~request[i].merged /\ request[i].original = p
      /\ Applicable(p, dataset[Latest]) /\ ids \in Assignments(p, DOMAIN dataset[Latest])
  BY <1>1, LatestIsARow DEF LocalsOK, JobOK, HoldingRequest, ReviewPoints
<1>3. request[i] \in Rows /\ RowAccount(request[i], dataset)
  BY <1>2 DEF TypeOK, AccountsOK
<1>4. /\ row.updated = request[i].updated /\ row.removed = request[i].removed
      /\ row.merged = TRUE /\ row.original = request[i].original
      /\ row.applied = p /\ row.identifier_map = ids /\ row.created = Range(ids)
      /\ row.applied_to = Latest
  BY <1>3 DEF MergedRow, Rows
<1>5. /\ request' = [request EXCEPT ![i] = row] /\ Describable(p)
      /\ dataset' = Append(dataset, Apply(p, ids, Version(Latest)))
  BY <1>2, LatestIsARow DEF MergeCommit, NewVersionId
<1>6. DOMAIN ids = DOMAIN p.new
  BY <1>2 DEF Assignments
<1> HIDE DEF i, p, ids, row
<1>7. \A v \in 1..Latest : dataset'[v] = dataset[v]
  BY <1>5 DEF TypeOK, Latest
<1>8. VersionIn(dataset', Latest) = dataset[Latest]
  BY <1>7, VersionsAreData DEF VersionIn
<1>9. RowAccount(row, dataset')
  BY <1>2, <1>3, <1>4, <1>5, <1>6, <1>8 DEF RowAccount
<1> QED BY <1>2, <1>5, <1>7, <1>9, ReplacedRowKeepsAccounts

LEMMA AccountsAreKept ==
  ASSUME SerialReview
  PROVE  Spec => []AccountsOK
<1>1. TypeOK /\ RecordsOK /\ ReviewsOK /\ AccountsOK /\ [Next]_vars => AccountsOK'
  <2> SUFFICES ASSUME TypeOK, RecordsOK, ReviewsOK, AccountsOK, [Next]_vars
               PROVE  AccountsOK'
    OBVIOUS
  <2>1. CASE UNCHANGED <<dataset, request>>
    BY <2>1 DEF AccountsOK
  <2> QED BY <2>1, StepKinds, CreateKeepsAccounts, UpdateKeepsAccounts, RejectKeepsAccounts,
             MergeKeepsAccounts
<1> QED BY <1>1, InitAccounts, TypesAreKept, RecordsAreKept, ReviewsAreKept, PTL DEF Spec

-----------------------------------------------------------------------------
(* What a patch does to the data, and what it is taken to affect.          *)

LEMMA PatchGroups ==
  ASSUME NEW p \in AllPatches
  PROVE  /\ p.op \in PatchOps /\ p.scope \in Scopes
         /\ p.authority \in AuthorityIds \cup {NoId} /\ p.period \in PeriodIds \cup {NoId}
         /\ p.period # NoId => p.authority = AuthorityOf[p.period]
         /\ p.scope = "authorities" => p.authority = NoId
         /\ p.scope \in {"authorities", "authority", "periods"} => p.period = NoId
         /\ p.op = "remove" => p.listing = {} /\ DOMAIN p.new = {}
<1>1. IsPatch(p)
  BY LoadPatchIsPatch, PatchAssumption DEF AllPatches
<1> QED BY <1>1 DEF IsPatch

LEMMA NoIdIsNoEntity ==
  ASSUME NEW data \in Data
  PROVE  NoId \notin DOMAIN data /\ NoId \notin Ids /\ DOMAIN data \subseteq Ids
BY IdAssumption DEF Data

LEMMA Kept ==
  ASSUME NEW p, NEW ids, NEW data, NEW e
  PROVE  /\ e \in DOMAIN Apply(p, ids, data) <=>
              \/ e \in Written(p) \cup Range(ids)
              \/ e \in DOMAIN data \ Replaced(p, data)
         /\ e \in DOMAIN Apply(p, ids, data) /\ e \notin Written(p) \cup Range(ids) =>
              e \in DOMAIN data /\ Apply(p, ids, data)[e] = data[e]
BY DEF Apply

(* All that a patch writes is listed as updated but two kinds of things:   *)
(* the periods of an authority that it writes as a whole, and an authority *)
(* or period of which it removes a field.                                  *)
LEMMA WrittenIsUpdated ==
  ASSUME NEW p \in AllPatches, NEW e \in Written(p)
  PROVE  \/ e \in Updated(p) \/ e \in p.listing
         \/ p.op = "remove" /\ p.scope = "field" /\ e = Target(p) /\ e # NoId
<1>1. CASE p.op = "remove"
  BY <1>1, PatchGroups DEF Written
<1>2. CASE p.op # "remove"
  <2>1. Updated(p) = {p.authority, p.period} \ {NoId}
    BY <1>2 DEF Updated
  <2>2. Target(p) \in {p.authority, p.period, NoId}
    <3>1. CASE p.scope = "authority"
      BY <3>1 DEF Target
    <3>2. CASE p.scope = "period"
      BY <3>2 DEF Target
    <3>3. CASE p.scope = "field"
      BY <3>3 DEF Target
    <3>4. CASE p.scope \notin {"authority", "period", "field"}
      BY <3>4 DEF Target
    <3> QED BY <3>1, <3>2, <3>3, <3>4
  <2> QED BY <2>1, <2>2 DEF Written
<1> QED BY <1>1, <1>2

(* The target of the removal of a field is there, before and after.        *)
LEMMA FieldsHaveEntities ==
  ASSUME NEW p \in AllPatches, NEW data \in Data, Applicable(p, data), p.scope = "field"
  PROVE  Target(p) \in DOMAIN data /\ p.authority \in DOMAIN data
BY DEF Applicable, PointerResolves, Target

(* Where a version came from.                                              *)
LEMMA VersionHasASource ==
  ASSUME TypeOK, RecordsOK, ChainOK, AccountsOK, NEW v \in 1..Latest
  PROVE  \E i \in Merged :
           LET r == request[i]
           IN /\ r.resulted_in = v /\ r.applied_to = v - 1
              /\ r.applied \in AllPatches /\ r.original = r.applied
              /\ v # 1 => r.applied \in Patches
              /\ dataset[v] = Apply(r.applied, r.identifier_map, Version(v - 1))
              /\ Applicable(r.applied, Version(v - 1)) /\ Describable(r.applied)
              /\ r.updated = Updated(r.applied) /\ r.created = Range(r.identifier_map)
<1>1. PICK i \in Merged : request[i].resulted_in = v /\ request[i].applied_to = v - 1
  BY DEF ChainOK, LinearHistory
<1>2. request[i].applied = request[i].original
  BY DEF ChainOK, MergedAsProposed
<1>3. /\ request[i].applied \in AllPatches
      /\ dataset[v] = Apply(request[i].applied, request[i].identifier_map, Version(v - 1))
  BY <1>1 DEF RecordsOK, MergedRowsExplainVersions
<1>4. i \in 1..Len(request) /\ request[i].merged
  BY VersionsAreData DEF Merged
<1>5. RowAccount(request[i], dataset)
  BY <1>4 DEF AccountsOK
<1> QED BY <1>1, <1>2, <1>3, <1>4, <1>5 DEF RowAccount, Version

-----------------------------------------------------------------------------
(* The newest request that touched an entity.                              *)

LEMMA LeastIsThere ==
  ASSUME NEW S \in SUBSET Nat, S # {}
  PROVE  \E m \in S : \A x \in S : m <= x
<1> DEFINE less == OpToRel(<, Nat)
<1>1. IsWellFoundedOn(less, Nat)
  BY NatLessThanWellFounded
<1>2. \A x, y \in Nat : <<y, x>> \in less <=> y < x
  BY DEF OpToRel
<1> HIDE DEF less
<1>3. PICK m \in S : \A y \in S : <<y, m>> \notin less
  BY <1>1, WFMin
<1>4. ASSUME NEW y \in S
      PROVE  m <= y
  <2>1. m \in Nat /\ y \in Nat /\ ~(y < m)
    BY <1>2, <1>3
  <2> QED BY <2>1
<1> QED BY <1>4

LEMMA MaxIsThere ==
  ASSUME NEW n \in Nat, NEW S \in SUBSET (1..n), S # {}
  PROVE  Max(S) \in S /\ \A x \in S : x <= Max(S)
<1> DEFINE T == {n - x : x \in S}
<1>1. T \in SUBSET Nat /\ T # {}
  OBVIOUS
<1>2. PICK t \in T : \A y \in T : t <= y
  BY <1>1, LeastIsThere
<1>3. PICK m \in S : t = n - m
  BY <1>2
<1>4. \A x \in S : m >= x
  <2> SUFFICES ASSUME NEW x \in S PROVE m >= x
    OBVIOUS
  <2>1. n - m <= n - x
    BY <1>2, <1>3
  <2> QED BY <2>1
<1>5. \E y \in S : \A x \in S : y >= x
  BY <1>4
<1>6. Max(S) \in S /\ \A x \in S : Max(S) >= x
  BY <1>5 DEF Max
<1>7. \A x \in S : x \in Int
  OBVIOUS
<1> QED BY <1>6, <1>7

Touching(e, v) ==
  {i \in Merged : /\ request[i].resulted_in <= v
                  /\ e \in request[i].created \cup request[i].updated}

LEMMA LastUpdateIs ==
  ASSUME TypeOK, NEW e, NEW v
  PROVE  /\ Touching(e, v) = {} => LastUpdate(e, v) = Null
         /\ Touching(e, v) # {} =>
              \E i \in Touching(e, v) : /\ LastUpdate(e, v) = request[i].resulted_in
                                        /\ \A j \in Touching(e, v) : j <= i
<1>1. LastUpdate(e, v) = IF Touching(e, v) = {} THEN Null
                         ELSE request[Max(Touching(e, v))].resulted_in
  BY DEF LastUpdate, Touching
<1>2. Touching(e, v) \in SUBSET (1..Len(request)) /\ Len(request) \in Nat
  BY VersionsAreData DEF Touching, Merged
<1> QED BY <1>1, <1>2, MaxIsThere

-----------------------------------------------------------------------------
(* Redirects to the version an entity was last updated in.                 *)

(* The periods that a patch writes with the whole of an authority were in  *)
(* the data already: nothing that merge() does makes sure of it.           *)
ListedExist ==
  \A i \in Merged : request[i].applied.listing \subseteq DOMAIN Version(request[i].applied_to)

LEMMA EntitiesAreTouched ==
  ASSUME TypeOK, RecordsOK, ChainOK, AccountsOK, ListedExist,
         NEW v \in 1..Latest, NEW e \in DOMAIN dataset[v]
  PROVE  Touching(e, v) # {}
<1> DEFINE bad == {u \in 1..Latest : e \in DOMAIN dataset[u] /\ Touching(e, u) = {}}
<1> SUFFICES ASSUME bad # {} PROVE FALSE
  OBVIOUS
<1>1. bad \in SUBSET Nat
  OBVIOUS
<1>2. PICK u \in bad : \A x \in bad : u <= x
  BY <1>1, LeastIsThere
<1>3. u \in 1..Latest /\ e \in DOMAIN dataset[u] /\ Touching(e, u) = {}
  BY <1>2
<1>4. PICK i \in Merged :
        LET r == request[i]
        IN /\ r.resulted_in = u /\ r.applied_to = u - 1 /\ r.applied \in AllPatches
           /\ dataset[u] = Apply(r.applied, r.identifier_map, Version(u - 1))
           /\ Applicable(r.applied, Version(u - 1))
           /\ r.updated = Updated(r.applied) /\ r.created = Range(r.identifier_map)
  BY <1>3, VersionHasASource
<1> DEFINE r == request[i]
           p == r.applied
<1>5. e \notin r.created /\ e \notin r.updated
  BY <1>3, <1>4 DEF Touching
<1>6. Version(u - 1) = IF u - 1 = 0 THEN EmptyData ELSE dataset[u - 1]
  BY DEF Version, VersionIn
<1>7. u - 1 # 0 => u - 1 \in 1..Latest /\ u - 1 < u /\ Version(u - 1) \in Data
  BY <1>3, <1>6, VersionsAreData
<1>8. EmptyData \in Data /\ DOMAIN EmptyData = {}
  <2>1. EmptyData \in [{} -> Contents] /\ DOMAIN EmptyData = {}
    BY DEF EmptyData
  <2> QED BY <2>1 DEF Data
<1>9. Version(u - 1) \in Data
  BY <1>6, <1>7, <1>8
<1>10. e \in DOMAIN Version(u - 1)
  <2>1. e \in Written(p) \/ e \in DOMAIN Version(u - 1)
    BY <1>3, <1>4, <1>5, Kept
  <2>2. ASSUME e \in Written(p)
        PROVE  e \in DOMAIN Version(u - 1)
    <3>1. e \in p.listing \/ (p.scope = "field" /\ e = Target(p))
      BY <1>4, <1>5, <2>2, WrittenIsUpdated
    <3>2. p.listing \subseteq DOMAIN Version(u - 1)
      BY <1>4 DEF ListedExist
    <3>3. p.scope = "field" => Target(p) \in DOMAIN Version(u - 1)
      BY <1>4, <1>9, FieldsHaveEntities
    <3> QED BY <3>1, <3>2, <3>3
  <2> QED BY <2>1, <2>2
<1>11. u - 1 # 0
  BY <1>6, <1>8, <1>10
<1>12. u - 1 \notin bad
  BY <1>2, <1>3, <1>7, <1>11
<1>13. Touching(e, u - 1) # {}
  BY <1>6, <1>7, <1>10, <1>11, <1>12
<1>14. Touching(e, u - 1) \subseteq Touching(e, u)
  <2> SUFFICES ASSUME NEW j \in Merged, request[j].resulted_in <= u - 1
               PROVE  request[j].resulted_in <= u
    BY DEF Touching
  <2>1. request[j].resulted_in \in 1..Latest
    BY DEF RecordsOK, MergedRowsExplainVersions
  <2> QED BY <1>3, <2>1
<1> QED BY <1>3, <1>13, <1>14

(* Every entity of every version can be looked up by that version, as long *)
(* as nobody makes up identifiers of periods within the value of a patch   *)
(* (Authority.get and Period.get with ?version).                           *)
THEOREM EntitiesCanBeLookedUp ==
  ASSUME SerialReview
  PROVE  Spec /\ []ListedExist => []EveryEntityHasAnUpdate
<1>1. TypeOK /\ RecordsOK /\ ChainOK /\ AccountsOK /\ ListedExist => EveryEntityHasAnUpdate
  <2> SUFFICES ASSUME TypeOK, RecordsOK, ChainOK, AccountsOK, ListedExist,
                      NEW v \in 1..Latest, NEW e \in DOMAIN dataset[v]
               PROVE  LastUpdate(e, v) # Null
    BY DEF EveryEntityHasAnUpdate
  <2>1. PICK i \in Touching(e, v) : LastUpdate(e, v) = request[i].resulted_in
    BY EntitiesAreTouched, LastUpdateIs
  <2>2. request[i].resulted_in \in 1..Latest
    BY DEF Touching, RecordsOK, MergedRowsExplainVersions
  <2> QED BY <2>1, <2>2 DEF Null
<1> QED BY <1>1, TypesAreKept, RecordsAreKept, ChainIsKept, AccountsAreKept, PTL

(* Patches that change no entity but those they are taken to update.       *)
EditsAreTold == \A p \in Patches : p.listing = {} /\ (p.op = "remove" => p.scope # "field")

LEMMA TouchedByItsSource ==
  ASSUME TypeOK, RecordsOK, InOrder, NEW v \in 1..Latest, NEW i \in Merged,
         request[i].resulted_in = v, NEW e, e \in request[i].created \cup request[i].updated
  PROVE  LastUpdate(e, v) = v
<1>1. i \in Touching(e, v)
  BY DEF Touching
<1>2. PICK k \in Touching(e, v) : /\ LastUpdate(e, v) = request[k].resulted_in
                                  /\ \A j \in Touching(e, v) : j <= k
  BY <1>1, LastUpdateIs
<1>3. i <= k /\ k \in Merged /\ request[k].resulted_in <= v
  BY <1>1, <1>2 DEF Touching
<1>4. i \in Int /\ k \in Int /\ request[k].resulted_in \in Int
  BY <1>3, VersionsAreData DEF Merged, RecordsOK, MergedRowsExplainVersions
<1>5. i < k => v < request[k].resulted_in
  BY <1>3 DEF InOrder
<1>6. i = k
  BY <1>3, <1>4, <1>5
<1> QED BY <1>2, <1>6

LEMMA UntouchedBySource ==
  ASSUME TypeOK, RecordsOK, NEW v \in 1..Latest, NEW i \in Merged,
         request[i].resulted_in = v, NEW e, e \notin request[i].created \cup request[i].updated
  PROVE  LastUpdate(e, v) = LastUpdate(e, v - 1)
<1>1. ASSUME NEW j \in Merged, e \in request[j].created \cup request[j].updated
      PROVE  request[j].resulted_in <= v <=> request[j].resulted_in <= v - 1
  <2>1. request[j].resulted_in \in Int /\ v \in Int
    BY DEF RecordsOK, MergedRowsExplainVersions
  <2>2. request[j].resulted_in # v
    BY <1>1 DEF RecordsOK, OneRowPerVersion
  <2> QED BY <2>1, <2>2
<1>2. {j \in Merged : /\ request[j].resulted_in <= v
                      /\ e \in request[j].created \cup request[j].updated}
        = {j \in Merged : /\ request[j].resulted_in <= v - 1
                          /\ e \in request[j].created \cup request[j].updated}
  BY <1>1
<1> QED BY <1>2 DEF LastUpdate

(* When requests are merged in the order of their ids, the redirect leads  *)
(* to the content that was asked for (find_version_of_last_update).        *)
THEOREM RedirectsKeepContent ==
  ASSUME SerialReview, EditsAreTold
  PROVE  Spec => []RedirectKeepsContentInOrder
<1>1. ASSUME NEW p \in AllPatches, NEW e \in Written(p)
      PROVE  e \in Updated(p)
  <2>1. p.listing = {} /\ (p.op = "remove" => p.scope # "field")
    BY DEF EditsAreTold, AllPatches, LoadPatch
  <2> QED BY <1>1, <2>1, WrittenIsUpdated
<1>2. ASSUME TypeOK, RecordsOK, ChainOK, AccountsOK, InOrder, NEW e
      PROVE  \A v \in 1..Latest : e \in DOMAIN dataset[v] =>
               LET u == LastUpdate(e, v)
               IN u # Null => e \in DOMAIN dataset[u] /\ dataset[u][e] = dataset[v][e]
  <2> DEFINE good(v) == LET u == LastUpdate(e, v)
                        IN u # Null => e \in DOMAIN dataset[u] /\ dataset[u][e] = dataset[v][e]
             bad == {v \in 1..Latest : e \in DOMAIN dataset[v] /\ ~good(v)}
  <2> SUFFICES ASSUME bad # {} PROVE FALSE
    OBVIOUS
  <2>1. PICK v \in bad : \A x \in bad : v <= x
    <3>1. bad \in SUBSET Nat
      OBVIOUS
    <3> QED BY <3>1, LeastIsThere
  <2>2. v \in 1..Latest /\ e \in DOMAIN dataset[v] /\ ~good(v)
    BY <2>1
  <2>3. PICK i \in Merged :
          LET r == request[i]
          IN /\ r.resulted_in = v /\ r.applied \in AllPatches
             /\ dataset[v] = Apply(r.applied, r.identifier_map, Version(v - 1))
             /\ r.updated = Updated(r.applied) /\ r.created = Range(r.identifier_map)
    BY <1>2, <2>2, VersionHasASource
  <2>4. e \notin request[i].created \cup request[i].updated
    <3> SUFFICES ASSUME e \in request[i].created \cup request[i].updated PROVE FALSE
      OBVIOUS
    <3>1. LastUpdate(e, v) = v
      BY <1>2, <2>2, <2>3, TouchedByItsSource
    <3> QED BY <2>2, <3>1
  <2>5. /\ e \in DOMAIN Version(v - 1)
        /\ dataset[v][e] = Version(v - 1)[e]
    <3>1. e \notin Written(request[i].applied) \cup Range(request[i].identifier_map)
      BY <1>1, <2>3, <2>4
    <3> QED BY <2>2, <2>3, <3>1, Kept
  <2>6. Version(v - 1) = IF v - 1 = 0 THEN EmptyData ELSE dataset[v - 1]
    BY DEF Version, VersionIn
  <2>7. v - 1 # 0
    <3>1. DOMAIN EmptyData = {}
      BY DEF EmptyData
    <3> QED BY <2>5, <2>6, <3>1
  <2>8. v - 1 \in 1..Latest /\ v - 1 < v
    BY <1>2, <2>2, <2>7, VersionsAreData
  <2>9. v - 1 \notin bad
    BY <2>1, <2>2, <2>8
  <2>10. good(v - 1)
    BY <2>5, <2>6, <2>7, <2>8, <2>9
  <2>11. LastUpdate(e, v) = LastUpdate(e, v - 1)
    BY <1>2, <2>2, <2>3, <2>4, UntouchedBySource
  <2>12. dataset[v][e] = dataset[v - 1][e]
    BY <2>5, <2>6, <2>7
  <2> QED BY <2>2, <2>10, <2>11, <2>12
<1>3. TypeOK /\ RecordsOK /\ ChainOK /\ AccountsOK => RedirectKeepsContentInOrder
  BY <1>2 DEF RedirectKeepsContentInOrder, RedirectKeepsContent
<1> QED BY <1>3, TypesAreKept, RecordsAreKept, ChainIsKept, AccountsAreKept, PTL

-----------------------------------------------------------------------------
(* What the history says of the entities of a change.                      *)

LEMMA MergedHasASource ==
  ASSUME TypeOK, RecordsOK, ChainOK, AccountsOK, NEW i \in Merged
  PROVE  LET r == request[i]
             v == r.resulted_in
         IN /\ v \in 1..Latest /\ r.applied_to = v - 1
            /\ r.applied \in AllPatches /\ r.original = r.applied
            /\ v # 1 => r.applied \in Patches
            /\ Version(v) = Apply(r.applied, r.identifier_map, Version(v - 1))
            /\ Version(v - 1) \in Data
            /\ Applicable(r.applied, Version(v - 1)) /\ Describable(r.applied)
            /\ r.updated = Updated(r.applied)
            /\ \E data \in Data : r.removed = Removed(r.applied, data)
            /\ DOMAIN r.identifier_map = DOMAIN r.applied.new
<1> DEFINE v == request[i].resulted_in
<1>1. v \in 1..Latest
  BY DEF RecordsOK, MergedRowsExplainVersions
<1>2. PICK j \in Merged :
        LET r == request[j]
        IN /\ r.resulted_in = v /\ r.applied_to = v - 1
           /\ r.applied \in AllPatches /\ r.original = r.applied
           /\ v # 1 => r.applied \in Patches
           /\ dataset[v] = Apply(r.applied, r.identifier_map, Version(v - 1))
           /\ Applicable(r.applied, Version(v - 1)) /\ Describable(r.applied)
           /\ r.updated = Updated(r.applied)
  BY <1>1, VersionHasASource
<1>3. i = j
  BY <1>2 DEF RecordsOK, OneRowPerVersion
<1>4. i \in 1..Len(request) /\ request[i].merged
  BY VersionsAreData DEF Merged
<1>5. /\ \E data \in Data : request[i].removed = Removed(request[i].applied, data)
      /\ DOMAIN request[i].identifier_map = DOMAIN request[i].applied.new
  BY <1>2, <1>3, <1>4 DEF AccountsOK, RowAccount
<1>6. Version(v) = dataset[v]
  BY <1>1, VersionsAreData
<1>7. Version(v - 1) \in Data
  <2>1. CASE v = 1
    <3>1. Version(v - 1) = EmptyData
      BY <2>1 DEF Version, VersionIn
    <3>2. EmptyData \in [{} -> Contents]
      BY DEF EmptyData
    <3> QED BY <3>1, <3>2 DEF Data
  <2>2. CASE v # 1
    <3>1. v - 1 \in 1..Latest
      BY <1>1, <2>2, VersionsAreData
    <3> QED BY <3>1, VersionsAreData
  <2> QED BY <2>1, <2>2
<1> QED BY <1>1, <1>2, <1>3, <1>5, <1>6, <1>7

(* What is added comes without an identifier, or is a field: so an entity  *)
(* that is listed as updated was there.                                    *)
AddsAreNew ==
  \A p \in Patches : p.op = "add" /\ p.scope \in {"authority", "period"} => Target(p) = NoId

LEMMA UpdatedAreThere ==
  ASSUME NEW p \in AllPatches, NEW data \in Data, NEW ids, Applicable(p, data),
         p.op = "add" /\ p.scope \in {"authority", "period"} => Target(p) = NoId,
         NEW e \in Updated(p)
  PROVE  e \in DOMAIN data /\ e \in DOMAIN Apply(p, ids, data)
<1>1. e \in {p.authority, p.period} /\ e # NoId
  <2>1. CASE p.op = "remove"
    <3>1. p.period # NoId /\ e = p.authority
      BY <2>1 DEF Updated
    <3>2. p.authority \in AuthorityIds
      BY <3>1, PatchFields
    <3> QED BY <3>1, <3>2, IdAssumption DEF Ids
  <2>2. CASE p.op # "remove"
    BY <2>2 DEF Updated
  <2> QED BY <2>1, <2>2
<1>2. p.op = "remove" => e = p.authority /\ p.scope \in {"period", "field"}
  BY PatchGroups DEF Updated, Scopes
<1>3. p.op \in {"add", "replace", "remove"} /\ p.scope \in Scopes /\ p.scope # "authorities"
  BY <1>1, PatchGroups DEF PatchOps
<1>4. e = p.period => p.scope \in {"period", "field"} /\ e \in PeriodIds
  BY <1>1, <1>3, PatchGroups DEF Scopes
<1>5. e = p.authority => e \in AuthorityIds
  BY <1>1, PatchGroups
<1>6. e \in DOMAIN data
  <2>1. CASE p.scope \in {"periods", "period", "field"} /\ e = p.authority
    BY <2>1 DEF Applicable, PointerResolves
  <2>2. CASE p.scope = "field" /\ e = p.period
    BY <1>1, <2>2 DEF Applicable, PointerResolves
  <2>3. CASE (p.scope = "authority" /\ e = p.authority) \/ (p.scope = "period" /\ e = p.period)
    <3>1. Target(p) = e
      BY <2>3 DEF Target
    <3>2. p.op # "add"
      BY <1>1, <2>3, <3>1
    <3> QED BY <2>3, <3>1, <3>2 DEF Applicable, MemberExists
  <2> QED BY <1>1, <1>3, <1>4, <2>1, <2>2, <2>3 DEF Scopes
<1>7. e \in Written(p) \/ e \notin Replaced(p, data)
  <2> SUFFICES ASSUME e \in Replaced(p, data) PROVE e \in Written(p)
    OBVIOUS
  <2>1. CASE p.scope # "field" /\ e = Target(p)
    <3>1. p.op # "remove"
      <4> SUFFICES ASSUME p.op = "remove" PROVE FALSE
        OBVIOUS
      <4>1. Target(p) = p.period /\ e = p.authority
        BY <1>2, <2>1 DEF Target
      <4>2. e \in AuthorityIds /\ e \in PeriodIds
        BY <1>1, <1>5, <2>1, <4>1, PatchGroups
      <4> QED BY <4>2, IdAssumption
    <3> QED BY <1>1, <2>1, <3>1 DEF Written
  <2>2. CASE p.scope \in {"authority", "periods"} /\ e \in PeriodsOf(data, p.authority)
    <3>1. e \in PeriodIds /\ e = p.authority
      BY <1>1, <1>4, <2>2 DEF PeriodsOf
    <3> QED BY <1>5, <3>1, IdAssumption
  <2> QED BY <1>3, <2>1, <2>2 DEF Replaced
<1> QED BY <1>6, <1>7, Kept

(* What a removal lists is gone from its result, in whatever version it    *)
(* was looked up.                                                          *)
LEMMA RemovedAreGone ==
  ASSUME NEW p \in AllPatches, NEW data \in Data, NEW old \in Data,
         NEW ids, DOMAIN ids = DOMAIN p.new,
         Applicable(p, data), Describable(p), p.scope # "field", NEW e \in Removed(p, old)
  PROVE  e \notin DOMAIN Apply(p, ids, data)
<1>1. p.op = "remove" /\ p.authority # NoId
  BY DEF Removed
<1>2. p.scope \in {"authority", "period"}
  BY <1>1, PatchGroups DEF Describable, Scopes
<1>3. Written(p) = {} /\ Range(ids) = {}
  BY <1>1, PatchGroups DEF Written, Range
<1>4. Target(p) # NoId
  BY <1>1, <1>2, NoIdIsNoEntity DEF Applicable, MemberExists
<1>5. e \in DOMAIN data => e \in Replaced(p, data)
  <2> SUFFICES ASSUME e \in DOMAIN data PROVE e \in Replaced(p, data)
    OBVIOUS
  <2>1. CASE p.scope = "period"
    <3>1. Target(p) = p.period /\ e = p.period
      BY <1>4, <2>1 DEF Target, Removed
    <3> QED BY <2>1, <3>1 DEF Replaced
  <2>2. CASE p.scope = "authority"
    <3>1. Target(p) = p.authority /\ p.period = NoId
      BY <2>2, PatchGroups DEF Target
    <3>2. e = p.authority \/ e \in PeriodsOf(old, p.authority)
      BY <3>1 DEF Removed
    <3>3. e = Target(p) \/ e \in PeriodsOf(data, p.authority)
      BY <3>1, <3>2 DEF PeriodsOf
    <3> QED BY <2>2, <3>3 DEF Replaced
  <2> QED BY <1>2, <2>1, <2>2
<1> QED BY <1>3, <1>5, Kept

(* The versions of entities that the history names are there to be read,   *)
(* although a change is made to a later version than it was listed for     *)
(* (add_entity_details).                                                   *)
THEOREM HistoryNamesWhatIsThere ==
  ASSUME SerialReview, AddsAreNew
  PROVE  Spec => []HistoryLeadsToVersions
<1>1. ASSUME TypeOK, RecordsOK, ChainOK, AccountsOK, NEW i \in Merged
      PROVE  /\ \A ev \in Generated(i) : Exists(ev)
             /\ \A revision \in WasRevisionOf(i) : Exists(revision[2])
  <2> DEFINE r == request[i]
             v == r.resulted_in
             p == r.applied
  <2>1. /\ p \in AllPatches /\ r.applied_to = v - 1 /\ Version(v - 1) \in Data
        /\ Applicable(p, Version(v - 1)) /\ r.updated = Updated(p)
        /\ Version(v) = Apply(p, r.identifier_map, Version(v - 1))
    BY <1>1, MergedHasASource
  <2>2. p.op = "add" /\ p.scope \in {"authority", "period"} => Target(p) = NoId
    BY <2>1 DEF AddsAreNew, AllPatches, LoadPatch
  <2>3. \A e \in r.updated : e \in DOMAIN Version(v - 1) /\ e \in DOMAIN Version(v)
    BY <2>1, <2>2, UpdatedAreThere
  <2>4. \A e \in r.created : e \in DOMAIN Version(v)
    BY <1>1 DEF RecordsOK, CreatedAreNew
  <2>5. \A ev \in Generated(i) : Exists(ev)
    BY <2>3, <2>4 DEF Generated, EntityVersions, Exists
  <2>6. \A revision \in WasRevisionOf(i) : Exists(revision[2])
    BY <2>1, <2>3 DEF WasRevisionOf, Exists
  <2> QED BY <2>5, <2>6
<1>2. TypeOK /\ RecordsOK /\ ChainOK /\ AccountsOK => HistoryLeadsToVersions
  BY <1>1 DEF HistoryLeadsToVersions
<1> QED BY <1>2, TypesAreKept, RecordsAreKept, ChainIsKept, AccountsAreKept, PTL

(* What the history says was invalidated is gone (_analyze_change).        *)
THEOREM InvalidatedEntitiesAreGone ==
  ASSUME SerialReview
  PROVE  Spec => []InvalidatedAreGone
<1>1. ASSUME TypeOK, RecordsOK, ChainOK, AccountsOK, NEW i \in Merged,
             request[i].applied.scope # "field", NEW e \in Invalidated(i)
      PROVE  ~Exists(<<e, request[i].resulted_in>>)
  <2> DEFINE r == request[i]
             v == r.resulted_in
             p == r.applied
  <2>1. /\ p \in AllPatches /\ Version(v - 1) \in Data
        /\ Applicable(p, Version(v - 1)) /\ Describable(p)
        /\ DOMAIN r.identifier_map = DOMAIN p.new
        /\ Version(v) = Apply(p, r.identifier_map, Version(v - 1))
    BY <1>1, MergedHasASource
  <2>2. PICK old \in Data : r.removed = Removed(p, old)
    BY <1>1, MergedHasASource
  <2>3. e \in Removed(p, old)
    BY <1>1, <2>2 DEF Invalidated
  <2>4. e \notin DOMAIN Version(v)
    BY <1>1, <2>1, <2>3, RemovedAreGone
  <2> QED BY <2>4 DEF Exists
<1>2. TypeOK /\ RecordsOK /\ ChainOK /\ AccountsOK => InvalidatedAreGone
  BY <1>1 DEF InvalidatedAreGone
<1> QED BY <1>2, TypesAreKept, RecordsAreKept, ChainIsKept, AccountsAreKept, PTL

-----------------------------------------------------------------------------
(* What is gone.                                                           *)

(* Patches write periods, fields and new authorities, and replace no whole *)
(* authority or list, whose periods would go without being listed.         *)
WholesAreKept ==
  \A p \in Patches :
    p.op # "remove" => \/ p.scope \in {"period", "field"}
                       \/ p.scope = "authority" /\ p.authority = NoId

(* The identifier of an authority that was removed is not used again.      *)
StayGone ==
  \A a \in AuthorityIds \cap RemovedKeys :
    a \notin DOMAIN Version(Latest) => a \notin DOMAIN Version(Latest)'
AuthoritiesStayGone == [][StayGone]_vars

(* An entity goes by being removed, or with its authority.                 *)
LEMMA DroppedAreListed ==
  ASSUME WholesAreKept, NEW p \in Patches, NEW data \in Data, NEW old \in Data, NEW ids,
         DOMAIN ids = DOMAIN p.new, Applicable(p, data), Describable(p),
         NEW e \in DOMAIN data, e \notin DOMAIN Apply(p, ids, data)
  PROVE  LET next == DOMAIN Apply(p, ids, data)
         IN \/ e \in AuthorityIds /\ e \in Removed(p, old)
            \/ /\ e \in PeriodIds /\ e \in Removed(p, old)
               /\ AuthorityOf[e] \in next
            \/ /\ e \in PeriodIds /\ AuthorityOf[e] \in Removed(p, old)
               /\ AuthorityOf[e] \notin next
<1>1. p \in AllPatches /\ e \in Ids /\ e # NoId /\ NoId \notin AuthorityIds
  BY NoIdIsNoEntity DEF AllPatches, Ids
<1>2. e \in Replaced(p, data) /\ e \notin Written(p)
  BY Kept
<1>3. PeriodsOf(data, NoId) = {}
  BY <1>1, IdAssumption DEF PeriodsOf
<1>4. p.scope # "field"
  BY <1>2 DEF Replaced
<1>5. p.op = "remove"
  <2> SUFFICES ASSUME p.op # "remove" PROVE FALSE
    OBVIOUS
  <2>1. p.scope = "period" \/ (p.scope = "authority" /\ p.authority = NoId)
    BY <1>4 DEF WholesAreKept
  <2>2. CASE p.scope = "period"
    <3>1. e = Target(p)
      BY <1>2, <2>2 DEF Replaced
    <3> QED BY <1>1, <1>2, <3>1 DEF Written
  <2>3. CASE p.scope = "authority" /\ p.authority = NoId
    <3>1. Target(p) = NoId
      BY <2>3 DEF Target
    <3> QED BY <1>1, <1>2, <1>3, <2>3, <3>1 DEF Replaced
  <2> QED BY <2>1, <2>2, <2>3
<1>6. p.scope \in {"authority", "period"}
  BY <1>1, <1>4, <1>5, PatchGroups DEF Describable, Scopes
<1>7. Written(p) = {} /\ Range(ids) = {}
  BY <1>1, <1>4, <1>5, PatchGroups DEF Written, Range
<1>8. CASE p.scope = "period"
  <2>1. Replaced(p, data) \subseteq {p.period} /\ e = p.period
    BY <1>2, <1>8 DEF Replaced, Target
  <2>2. /\ p.period \in PeriodIds /\ p.authority = AuthorityOf[p.period]
        /\ p.authority \in AuthorityIds
    <3>1. p.period \in PeriodIds
      BY <1>1, <2>1, PatchGroups
    <3>2. p.period # NoId
      BY <1>1, <2>1
    <3> QED BY <1>1, <3>1, <3>2, PatchGroups, PatchFields
  <2>3. e \in Removed(p, old)
    BY <1>1, <1>5, <2>1, <2>2 DEF Removed
  <2>4. p.authority \in DOMAIN data /\ p.authority # p.period
    BY <1>8, <2>2, IdAssumption DEF Applicable, PointerResolves
  <2>5. p.authority \in DOMAIN Apply(p, ids, data)
    BY <2>1, <2>4, Kept
  <2> QED BY <2>1, <2>2, <2>3, <2>5
<1>9. CASE p.scope = "authority"
  <2>1. Target(p) = p.authority /\ p.period = NoId
    BY <1>1, <1>9, PatchGroups DEF Target
  <2>2. p.authority \in DOMAIN data /\ p.authority \in AuthorityIds
    BY <1>1, <1>5, <1>9, <2>1, NoIdIsNoEntity, PatchGroups DEF Applicable, MemberExists
  <2>3. p.authority \in Removed(p, old) /\ p.authority \in Replaced(p, data)
    BY <1>1, <1>5, <1>9, <2>1, <2>2 DEF Removed, Replaced
  <2>4. p.authority \notin DOMAIN Apply(p, ids, data)
    BY <1>7, <2>3, Kept
  <2>5. e = p.authority \/ (e \in PeriodIds /\ AuthorityOf[e] = p.authority)
    BY <1>2, <1>9, <2>1 DEF Replaced, PeriodsOf
  <2> QED BY <2>2, <2>3, <2>4, <2>5
<1> QED BY <1>6, <1>8, <1>9

GoneOK ==
  \A v \in 1..Latest : \A e \in DOMAIN dataset[v] :
    e \in DOMAIN Version(Latest) \/ MissingKey(e) \in RemovedKeys

LEMMA MergeKeepsGone ==
  ASSUME WholesAreKept, TypeOK, AccountsOK', GoneOK, StayGone,
         NEW i \in Merged', NEW p \in AllPatches, NEW ids,
         Merged \subseteq Merged', \A k \in Merged : request'[k] = request[k],
         request' \in Seq(Rows),
         request'[i].applied = p, request'[i].original = p,
         request'[i].identifier_map = ids,
         request'[i].applied_to = Latest, request'[i].resulted_in = Latest + 1,
         dataset' = Append(dataset, Apply(p, ids, dataset[Latest]))
  PROVE  GoneOK'
<1> DEFINE data == dataset[Latest]
<1>1. PICK next : next = Apply(p, ids, data)
  OBVIOUS
<1>2. /\ Latest \in Nat /\ Latest >= 1 /\ data \in Data /\ Version(Latest) = data
      /\ Len(dataset) = Latest
  BY VersionsAreData
<1>3. /\ Latest' = Latest + 1 /\ dataset'[Latest + 1] = next
      /\ \A v \in 1..Latest : dataset'[v] = dataset[v]
  BY <1>1, <1>2 DEF TypeOK, Latest
<1>4. Version(Latest)' = next /\ VersionIn(dataset', Latest) = data
  BY <1>2, <1>3 DEF Version, VersionIn
<1>5. i \in 1..Len(request') /\ request'[i].merged
  BY DEF Merged
<1>6. RowAccount(request'[i], dataset')
  BY <1>5 DEF AccountsOK
<1>7. PICK old \in Data : request'[i].removed = Removed(p, old)
  BY <1>6 DEF RowAccount
<1>8. /\ p \in Patches /\ DOMAIN ids = DOMAIN p.new
      /\ Applicable(p, data) /\ Describable(p)
  BY <1>2, <1>4, <1>5, <1>6 DEF RowAccount
<1>9. RemovedKeys \subseteq RemovedKeys' /\ Removed(p, old) \subseteq RemovedKeys'
  BY <1>7 DEF RemovedKeys
<1>10. \A e : MissingKey(e)' = IF e \in PeriodIds /\ AuthorityOf[e] \notin DOMAIN next
                               THEN AuthorityOf[e] ELSE e
  BY <1>4 DEF MissingKey
<1>11. \A e : MissingKey(e) = IF e \in PeriodIds /\ AuthorityOf[e] \notin DOMAIN data
                              THEN AuthorityOf[e] ELSE e
  BY <1>2 DEF MissingKey
<1>12. \A a \in AuthorityIds : a \in RemovedKeys /\ a \notin DOMAIN data => a \notin DOMAIN next
  BY <1>2, <1>4 DEF StayGone
<1>13. \A e \in DOMAIN data : e \notin DOMAIN next =>
         \/ e \in AuthorityIds /\ e \in Removed(p, old)
         \/ e \in PeriodIds /\ e \in Removed(p, old) /\ AuthorityOf[e] \in DOMAIN next
         \/ e \in PeriodIds /\ AuthorityOf[e] \in Removed(p, old) /\ AuthorityOf[e] \notin DOMAIN next
  BY <1>1, <1>2, <1>8, DroppedAreListed
<1>14. AuthorityIds \cap PeriodIds = {} /\ \A q \in PeriodIds : AuthorityOf[q] \in AuthorityIds
  BY IdAssumption
<1> HIDE DEF data
<1>15. ASSUME NEW v \in 1..Latest, NEW e \in DOMAIN dataset[v], e \notin DOMAIN next
       PROVE  MissingKey(e)' \in RemovedKeys'
  <2>1. CASE e \in DOMAIN data
    BY <1>9, <1>10, <1>13, <1>14, <1>15, <2>1
  <2>2. CASE e \notin DOMAIN data
    <3>1. MissingKey(e) \in RemovedKeys
      BY <1>2, <2>2 DEF GoneOK
    <3>2. CASE e \notin PeriodIds
      BY <1>9, <1>10, <1>11, <3>1, <3>2
    <3>3. CASE e \in PeriodIds /\ AuthorityOf[e] \notin DOMAIN data
      BY <1>9, <1>10, <1>11, <1>12, <1>14, <3>1, <3>3
    <3>4. CASE e \in PeriodIds /\ AuthorityOf[e] \in DOMAIN data
      BY <1>9, <1>10, <1>11, <1>13, <1>14, <3>1, <3>4
    <3> QED BY <3>2, <3>3, <3>4
  <2> QED BY <2>1, <2>2
<1>16. ASSUME NEW v \in 1..Latest', NEW e \in DOMAIN dataset'[v]
       PROVE  e \in DOMAIN Version(Latest)' \/ MissingKey(e)' \in RemovedKeys'
  <2>1. v \in 1..Latest \/ v = Latest + 1
    BY <1>2, <1>3
  <2> QED BY <1>3, <1>4, <1>15, <2>1
<1> QED BY <1>16 DEF GoneOK

(* An entity that was in some version and is in the data no more is said   *)
(* to be gone, if identifiers of authorities are not used twice            *)
(* (Authority.get, Period.get and get_removed_entity_keys).                *)
THEOREM RemovedAreReportedGone ==
  ASSUME SerialReview, WholesAreKept
  PROVE  Spec /\ AuthoritiesStayGone => []RemovedMeansGone
<1>1. Init => GoneOK
  <2> SUFFICES ASSUME Init PROVE GoneOK
    OBVIOUS
  <2>1. Latest = 1
    BY DEF Init, Latest
  <2>2. \A v \in 1..Latest : v = 1 /\ Version(Latest) = dataset[v]
    BY <2>1 DEF Version, VersionIn
  <2> QED BY <2>2 DEF GoneOK
<1>2. TypeOK /\ TypeOK' /\ ReviewsOK /\ AccountsOK' /\ GoneOK /\ [StayGone]_vars /\ [Next]_vars
        => GoneOK'
  <2> SUFFICES ASSUME TypeOK, TypeOK', ReviewsOK, AccountsOK', GoneOK, [StayGone]_vars,
                      [Next]_vars
               PROVE  GoneOK'
    OBVIOUS
  <2>1. /\ \A i \in Merged : i \in Merged' /\ request'[i] = request[i]
        /\ request' \in Seq(Rows)
    BY MergedOnlyGrows DEF TypeOK
  <2>2. CASE Merged' = Merged /\ dataset' = dataset
    <3>1. RemovedKeys' = RemovedKeys
      BY <2>1, <2>2 DEF RemovedKeys
    <3> QED BY <2>2, <3>1 DEF GoneOK, MissingKey, Version, Latest
  <2>3. ASSUME NEW i \in 1..Len(request), NEW p \in AllPatches,
               NEW ids \in Assignments(p, DOMAIN dataset[Latest]),
               i \notin Merged, Merged' = Merged \cup {i},
               request'[i].applied = p, request'[i].original = p,
               request'[i].identifier_map = ids,
               request'[i].applied_to = Latest, request'[i].resulted_in = Latest + 1,
               dataset' = Append(dataset, Apply(p, ids, dataset[Latest]))
        PROVE  GoneOK'
    <3>1. StayGone
      <4>1. vars' # vars
        BY <2>3 DEF vars, Merged
      <4> QED BY <4>1
    <3>2. i \in Merged' /\ Merged \subseteq Merged'
      BY <2>3
    <3> QED BY <2>1, <2>3, <3>1, <3>2, MergeKeepsGone
  <2> QED BY <2>2, <2>3, MergedOnlyGrows
<1>3. TypeOK /\ GoneOK => RemovedMeansGone
  BY DEF GoneOK, RemovedMeansGone, StatusOf
<1>4. Spec /\ AuthoritiesStayGone => []GoneOK
  BY <1>1, <1>2, TypesAreKept, ReviewsAreKept, AccountsAreKept, PTL
     DEF Spec, AuthoritiesStayGone
<1> QED BY <1>3, <1>4, TypesAreKept, PTL
=============================================================================
