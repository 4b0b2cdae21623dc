--------------------------- MODULE PatchingProofs ---------------------------
(***************************************************************************)
(* Theorems about Patching, for any number of workers, users, requests,    *)
(* versions, identifiers and patches, and whether or not reviews overlap.  *)
(***************************************************************************)
EXTENDS Patching, TLAPS

-----------------------------------------------------------------------------
(* Patches and data.                                                       *)

(* The patch of the initial load has the shape of a patch (load_data).     *)
LEMMA LoadPatchIsPatch == IsPatch(LoadPatch)
BY IdAssumption, InitialAssumption
   DEF IsPatch, LoadPatch, Ids, PatchOps, Scopes

LEMMA PatchFields ==
  ASSUME NEW p \in AllPatches
  PROVE  /\ p.op \in PatchOps
         /\ p.authority \in AuthorityIds \cup {NoId}
         /\ p.period \in PeriodIds \cup {NoId}
         /\ p.listing \subseteq PeriodIds
         /\ p.value \in Contents
         /\ p.period # NoId => p.authority \in AuthorityIds
<1>1. IsPatch(p)
  BY LoadPatchIsPatch, PatchAssumption DEF AllPatches
<1> QED BY <1>1, IdAssumption DEF IsPatch

(* updated_entities and removed_entities are sets of identifiers           *)
(* (_find_affected_entities, patching.py:58-82).                           *)
LEMMA AffectedAreIds ==
  ASSUME NEW p \in AllPatches, NEW data
  PROVE  Updated(p) \subseteq Ids /\ Removed(p, data) \subseteq Ids
<1>1. Updated(p) \subseteq Ids
  BY PatchFields DEF Updated, Ids
<1>2. Removed(p, data) \subseteq Ids
  BY PatchFields DEF Removed, PeriodsOf, Ids
<1> QED BY <1>1, <1>2

(* Applying a patch to a dataset gives a dataset (merge, patching.py:237). *)
LEMMA ApplyGivesData ==
  ASSUME NEW p \in AllPatches, NEW data \in Data, NEW S, NEW ids \in [S -> Ids]
  PROVE  Apply(p, ids, data) \in Data
<1> DEFINE set == Written(p) \cup Range(ids)
           dom == (DOMAIN data \ Replaced(p, data)) \cup set
<1>1. PICK T \in SUBSET Ids : data \in [T -> Contents]
  BY DEF Data
<1>2. Range(ids) \subseteq Ids
  BY DEF Range
<1>3. Target(p) \in Ids \cup {NoId}
  <2>1. CASE p.scope = "authority"
    BY <2>1, PatchFields DEF Target, Ids
  <2>2. CASE p.scope = "period"
    BY <2>2, PatchFields DEF Target, Ids
  <2>3. CASE p.scope = "field"
    BY <2>3, PatchFields DEF Target, Ids
  <2>4. CASE p.scope \notin {"authority", "period", "field"}
    BY <2>4 DEF Target
  <2> QED BY <2>1, <2>2, <2>3, <2>4
<1>4. Written(p) \subseteq Ids
  BY <1>3, PatchFields DEF Written, Ids
<1>5. dom \in SUBSET Ids
  BY <1>1, <1>2, <1>4
<1>6. \A e \in dom : (IF e \in set THEN p.value ELSE data[e]) \in Contents
  BY <1>1, PatchFields
<1>7. [e \in dom |-> IF e \in set THEN p.value ELSE data[e]] \in [dom -> Contents]
  BY <1>6
<1>8. Apply(p, ids, data) \in [dom -> Contents]
  BY <1>7 DEF Apply
<1> QED BY <1>5, <1>8 DEF Data

(* What a merge may write into the columns identifier_map and applied.     *)
LEMMA IdMapsOfPatches ==
  /\ NoIds \in IdMaps
  /\ \A p \in AllPatches : [DOMAIN p.new -> Ids] \subseteq IdMaps
  /\ \A ids \in IdMaps : Range(ids) \subseteq Ids
<1>1. NoIds \in [{} -> Ids]
  BY DEF NoIds
<1>2. [{} -> Ids] \subseteq IdMaps
  BY DEF IdMaps
<1>3. \A p \in AllPatches : [DOMAIN p.new -> Ids] \subseteq IdMaps
  BY DEF IdMaps
<1>4. \A ids \in IdMaps : Range(ids) \subseteq Ids
  BY DEF IdMaps, Range
<1> QED BY <1>1, <1>2, <1>3, <1>4

-----------------------------------------------------------------------------
(* The type invariant.                                                     *)

(* Tables only grow, so what the other workers hold stays good when one    *)
(* worker takes a step: a step keeps TypeOK when what it writes is typed.  *)
LEMMA StepKeepsTypes ==
  ASSUME TypeOK,
         dataset' \in Seq(Data), Len(dataset) =< Len(dataset'),
         \A v \in 1..Len(dataset) : dataset'[v] = dataset[v],
         request' \in Seq(Rows), Len(request) =< Len(request'),
         NEW w \in Workers, NEW job \in Jobs,
         worker' = [worker EXCEPT ![w] = job],
         LocalsOK(job, dataset', request')
  PROVE  TypeOK'
<1>1. worker' \in [Workers -> Jobs]
  BY DEF TypeOK
<1>2. Latest' >= 1
  BY DEF TypeOK, Latest
<1>3. ASSUME NEW x \in Workers
      PROVE  LocalsOK(worker'[x], dataset', request')
  <2>1. CASE x = w
    BY <2>1 DEF TypeOK
  <2>2. CASE x # w
    <3>1. worker'[x] = worker[x]
      BY <2>2 DEF TypeOK
    <3>2. LocalsOK(worker[x], dataset, request)
      BY DEF TypeOK
    <3>3. /\ Len(dataset) \in Nat /\ Len(dataset') \in Nat
          /\ Len(request) \in Nat /\ Len(request') \in Nat
      BY DEF TypeOK
    <3> QED BY <3>1, <3>2, <3>3, SMTT(20) DEF LocalsOK, HoldingBase
  <2> QED BY <2>1, <2>2
<1> QED BY <1>1, <1>2, <1>3 DEF TypeOK

(* The same for a step that leaves both tables alone.                      *)
LEMMA LocalStepKeepsTypes ==
  ASSUME TypeOK, UNCHANGED <<dataset, request>>,
         NEW w \in Workers, NEW job \in Jobs, Begin(w, job),
         LocalsOK(job, dataset, request)
  PROVE  TypeOK'
<1>1. /\ dataset' \in Seq(Data) /\ Len(dataset) =< Len(dataset')
      /\ \A v \in 1..Len(dataset) : dataset'[v] = dataset[v]
      /\ request' \in Seq(Rows) /\ Len(request) =< Len(request')
  BY DEF TypeOK
<1>2. LocalsOK(job, dataset', request')
  OBVIOUS
<1> QED BY <1>1, <1>2, StepKeepsTypes DEF Begin

(* The local variables of an idle worker and of one that has answered.     *)
LEMMA IdleIsAJob ==
  Idle \in Jobs /\ Idle.pc = "idle" /\ \A d, r : LocalsOK(Idle, d, r)
BY IdMapsOfPatches
   DEF Idle, Jobs, Calls, Points, LocalsOK, HoldingPatch, HoldingBase, HoldingRequest

LEMMA HandlingIsAJob ==
  ASSUME NEW name \in Calls, NEW u \in Users, NEW i \in (1..MaxRequests) \cup {Null}
  PROVE  /\ Handling(name, u, i) \in Jobs
         /\ Handling(name, u, i).user = u /\ Handling(name, u, i).id = i
<1>1. i \in Nat \cup {Null}
  BY ParameterAssumption
<1>2. [Idle EXCEPT !.call = name] \in Jobs
  BY IdleIsAJob DEF Jobs
<1>3. [Idle EXCEPT !.call = name, !.user = u] \in Jobs
  BY <1>2 DEF Jobs
<1> QED BY <1>1, <1>3, IdleIsAJob DEF Jobs, Handling

LEMMA AnswerIsAJob ==
  ASSUME NEW job \in Jobs, job.user \in Users, NEW code \in Nat
  PROVE  /\ Answered(job, code) \in Jobs
         /\ \A d, r : LocalsOK(Answered(job, code), d, r)
<1>1. Answered(job, code) \in Jobs
  BY IdMapsOfPatches DEF Answered, Jobs, Points
<1>2. Answered(job, code).pc = "done" /\ Answered(job, code).user = job.user
  BY DEF Answered, Jobs
<1> QED BY <1>1, <1>2 DEF LocalsOK, HoldingPatch, HoldingBase, HoldingRequest

(* A request that is answered without effect keeps the types.              *)
LEMMA RefusalKeepsTypes ==
  ASSUME TypeOK, UNCHANGED <<dataset, request>>, NEW w \in Workers,
         NEW job \in Jobs, job.user \in Users, NEW code \in Nat,
         Begin(w, Answered(job, code))
  PROVE  TypeOK'
BY AnswerIsAJob, LocalStepKeepsTypes

LEMMA BusyWorker ==
  ASSUME TypeOK, NEW w \in Workers, worker[w].pc # "idle"
  PROVE  worker[w] \in Jobs /\ worker[w].user \in Users
BY DEF TypeOK, LocalsOK

LEMMA AnswerKeepsTypes ==
  ASSUME TypeOK, UNCHANGED <<dataset, request>>, NEW w \in Workers,
         worker[w].pc # "idle", NEW code \in Nat, Answer(w, code)
  PROVE  TypeOK'
BY BusyWorker, RefusalKeepsTypes DEF Answer, Begin

(* A statement that changes the requests and ends its handler keeps them.  *)
LEMMA WriteKeepsTypes ==
  ASSUME TypeOK, NEW w \in Workers, worker[w].pc # "idle", NEW code \in Nat,
         request' \in Seq(Rows), Len(request) =< Len(request'),
         Answer(w, code), UNCHANGED dataset
  PROVE  TypeOK'
<1>1. /\ Answered(worker[w], code) \in Jobs
      /\ \A d, r : LocalsOK(Answered(worker[w], code), d, r)
  BY BusyWorker, AnswerIsAJob
<1>2. /\ dataset' \in Seq(Data) /\ Len(dataset) =< Len(dataset')
      /\ \A v \in 1..Len(dataset) : dataset'[v] = dataset[v]
  BY DEF TypeOK
<1> QED BY <1>1, <1>2, StepKeepsTypes DEF Answer

(* The rows the four statements write.                                     *)
LEMMA RowsWritten ==
  ASSUME NEW u \in Users \cup {Loader}, NEW base \in Nat, NEW p \in AllPatches
  PROVE  /\ NewRow(u, base, p) \in Rows
         /\ \A row \in Rows : RevisedRow(row, u, base, p) \in Rows
         /\ \A row \in Rows : RejectedRow(row, u) \in Rows
         /\ \A row \in Rows, ids \in IdMaps, v \in Nat :
              MergedRow(row, u, base, p, ids, v) \in Rows
<1>1. Updated(p) \subseteq Ids /\ Removed(p, Version(base)) \subseteq Ids
  BY AffectedAreIds
<1>2. NewRow(u, base, p) \in Rows
  BY <1>1, IdMapsOfPatches DEF NewRow, Rows
<1>3. \A row \in Rows : RevisedRow(row, u, base, p) \in Rows
  BY <1>1, ZenonT(60) DEF RevisedRow, Rows
<1>4. \A row \in Rows : RejectedRow(row, u) \in Rows
  BY ZenonT(60) DEF RejectedRow, Rows
<1>5. ASSUME NEW row \in Rows, NEW ids \in IdMaps, NEW v \in Nat
      PROVE  MergedRow(row, u, base, p, ids, v) \in Rows
  <2>1. Range(ids) \in SUBSET Ids
    BY IdMapsOfPatches
  <2> QED BY <2>1 DEF MergedRow, Rows
<1> QED BY <1>2, <1>3, <1>4, <1>5

(* create_request() keeps the types.                                       *)
LEMMA CreateKeepsTypes ==
  ASSUME TypeOK, NEW w \in Workers, Create(w)
  PROVE  TypeOK'
<1>1. ASSUME NEW u \in Users, NEW p \in Patches, CreateRead(w, u, p)
      PROVE  TypeOK'
  <2> DEFINE job == Handling("create", u, Null)
             next == [job EXCEPT !.pc = "insert", !.patch = p, !.base = Latest]
  <2>1. job \in Jobs /\ job.user = u
    BY HandlingIsAJob DEF Calls
  <2>2. Latest \in 1..Len(dataset) /\ Latest \in Nat /\ p \in AllPatches
    BY DEF TypeOK, Latest, AllPatches
  <2>3. next \in Jobs /\ LocalsOK(next, dataset, request)
    <3> HIDE DEF job
    <3>1. next \in Jobs
      BY <2>1, <2>2 DEF Jobs, Points
    <3>2. next.pc = "insert" /\ next.user = u /\ next.patch = p /\ next.base = Latest
      BY <2>1 DEF Jobs
    <3> HIDE DEF next
    <3> QED BY <2>2, <3>1, <3>2 DEF LocalsOK, HoldingRequest
  <2>4. /\ Begin(w, next) \/ Begin(w, Answered(job, 400))
        /\ UNCHANGED <<dataset, request>>
    BY <1>1 DEF CreateRead
  <2> HIDE DEF job, next
  <2> QED BY <2>1, <2>3, <2>4, LocalStepKeepsTypes, RefusalKeepsTypes
<1>2. ASSUME CreateInsert(w)
      PROVE  TypeOK'
  <2> DEFINE row == NewRow(worker[w].user, worker[w].base, worker[w].patch)
  <2>1. /\ worker[w].pc # "idle" /\ worker[w].user \in Users
        /\ worker[w].base \in Nat /\ worker[w].patch \in AllPatches
    BY <1>2 DEF TypeOK, CreateInsert, At, LocalsOK, HoldingBase, HoldingPatch
  <2>2. row \in Rows
    BY <2>1, RowsWritten
  <2>3. request' \in Seq(Rows) /\ Len(request) =< Len(request')
    BY <2>2, <1>2 DEF TypeOK, CreateInsert
  <2> QED BY <1>2, <2>1, <2>3, WriteKeepsTypes DEF CreateInsert
<1> QED BY <1>1, <1>2 DEF Create

(* update_request() keeps the types.                                       *)
LEMMA UpdateKeepsTypes ==
  ASSUME TypeOK, NEW w \in Workers, Update(w)
  PROVE  TypeOK'
<1>1. ASSUME NEW u \in Users, NEW i \in 1..MaxRequests, NEW p \in Patches,
             UpdateAuthorize(w, u, i, p)
      PROVE  TypeOK'
  <2> DEFINE job == Handling("update", u, i)
             next == [job EXCEPT !.pc = "validate", !.patch = p]
  <2>1. job \in Jobs /\ job.user = u /\ job.id = i
    <3>1. "update" \in Calls
      BY DEF Calls
    <3> QED BY <3>1, HandlingIsAJob
  <2>2. p \in AllPatches
    BY DEF AllPatches
  <2>3. /\ \/ MayUpdate(u, i) /\ Begin(w, next)
           \/ Begin(w, Answered(job, 403))
        /\ UNCHANGED <<dataset, request>>
    BY <1>1 DEF UpdateAuthorize
  <2>4. next \in Jobs
    <3> HIDE DEF job
    <3> QED BY <2>1, <2>2 DEF Jobs, Points
  <2>5. next.pc = "validate" /\ next.user = u /\ next.id = i /\ next.patch = p
    <3> HIDE DEF job
    <3> QED BY <2>1 DEF Jobs
  <2> HIDE DEF job, next
  <2>6. CASE MayUpdate(u, i)
    <3>1. i \in 1..Len(request)
      BY <2>6 DEF MayUpdate, TypeOK
    <3>2. LocalsOK(next, dataset, request)
      BY <2>2, <2>5, <3>1 DEF LocalsOK, HoldingBase
    <3> QED BY <2>1, <2>3, <2>4, <3>2, LocalStepKeepsTypes, RefusalKeepsTypes
  <2> QED BY <2>1, <2>3, <2>6, RefusalKeepsTypes
<1>2. ASSUME UpdateRead(w)
      PROVE  TypeOK'
  <2> DEFINE next == [worker[w] EXCEPT !.pc = "write", !.base = Latest]
  <2>1. worker[w].pc = "validate" /\ worker[w] \in Jobs
    BY <1>2 DEF UpdateRead, At, TypeOK
  <2>2. /\ Begin(w, next) \/ Answer(w, 400) \/ Answer(w, 200)
        /\ UNCHANGED <<dataset, request>>
    BY <1>2 DEF UpdateRead
  <2>3. LocalsOK(worker[w], dataset, request)
    BY DEF TypeOK
  <2>4. Latest \in 1..Len(dataset) /\ Latest \in Nat
    BY DEF TypeOK, Latest
  <2>5. next \in Jobs
    BY <2>1, <2>4 DEF Jobs, Points
  <2>6. /\ next.pc = "write" /\ next.user = worker[w].user /\ next.id = worker[w].id
        /\ next.patch = worker[w].patch /\ next.base = Latest
    BY <2>1 DEF Jobs
  <2> HIDE DEF next
  <2>7. LocalsOK(next, dataset, request)
    BY <2>1, <2>3, <2>4, <2>6 DEF LocalsOK, HoldingPatch, HoldingRequest
  <2> QED BY <2>1, <2>2, <2>5, <2>7, LocalStepKeepsTypes, AnswerKeepsTypes
<1>3. ASSUME UpdateWrite(w)
      PROVE  TypeOK'
  <2> DEFINE i == worker[w].id
             row == RevisedRow(request[i], worker[w].user, worker[w].base, worker[w].patch)
  <2>1. /\ worker[w].pc # "idle" /\ worker[w].user \in Users
        /\ worker[w].base \in Nat /\ worker[w].patch \in AllPatches
        /\ i \in 1..Len(request)
    BY <1>3 DEF TypeOK, UpdateWrite, At, LocalsOK, HoldingBase, HoldingPatch, HoldingRequest
  <2>2. request[i] \in Rows
    BY <2>1 DEF TypeOK
  <2>3. row \in Rows
    BY <2>1, <2>2, RowsWritten
  <2>4. request' = [request EXCEPT ![i] = row]
    BY <1>3 DEF UpdateWrite
  <2>5. request' \in Seq(Rows) /\ Len(request) =< Len(request')
    BY <2>1, <2>3, <2>4 DEF TypeOK
  <2> QED BY <1>3, <2>1, <2>5, WriteKeepsTypes DEF UpdateWrite
<1> QED BY <1>1, <1>2, <1>3 DEF Update

(* merge() keeps the types.                                                *)
LEMMA MergeKeepsTypes ==
  ASSUME TypeOK, NEW w \in Workers, Merge(w)
  PROVE  TypeOK'
<1>0. /\ worker[w] \in Jobs /\ LocalsOK(worker[w], dataset, request)
      /\ Latest \in 1..Len(dataset) /\ Latest \in Nat
  BY DEF TypeOK, Latest
<1>1. ASSUME NEW u \in Editors, NEW i \in 1..MaxRequests, MergeRead(w, u, i)
      PROVE  TypeOK'
  <2> DEFINE job == Handling("merge", u, i)
             next == [job EXCEPT !.pc = "dataset", !.patch = request[i].original]
  <2>1. job \in Jobs /\ job.user = u /\ job.id = i /\ u \in Users
    <3>1. "merge" \in Calls /\ u \in Users
      BY UserAssumption DEF Calls
    <3> QED BY <3>1, HandlingIsAJob
  <2>2. /\ \/ Reviewable(i) /\ Begin(w, next)
           \/ Begin(w, Answered(job, 404))
        /\ UNCHANGED <<dataset, request>>
    BY <1>1 DEF MergeRead
  <2>3. CASE Reviewable(i) /\ Begin(w, next)
    <3>1. i \in 1..Len(request) /\ request[i].original \in AllPatches
      <4>1. i \in 1..Len(request)
        BY <2>3 DEF Reviewable, TypeOK
      <4>2. request[i] \in Rows
        BY <4>1 DEF TypeOK
      <4> QED BY <4>1, <4>2 DEF Rows
    <3>2. next \in Jobs
      <4> HIDE DEF job
      <4> QED BY <2>1, <3>1 DEF Jobs, Points
    <3>3. /\ next.pc = "dataset" /\ next.user = u /\ next.id = i
          /\ next.patch = request[i].original
      <4> HIDE DEF job
      <4> QED BY <2>1 DEF Jobs
    <3> HIDE DEF next
    <3>4. LocalsOK(next, dataset, request)
      BY <2>1, <3>1, <3>3 DEF LocalsOK, HoldingBase
    <3> QED BY <2>2, <2>3, <3>2, <3>4, LocalStepKeepsTypes
  <2> HIDE DEF job
  <2> QED BY <2>1, <2>2, <2>3, RefusalKeepsTypes
<1>2. ASSUME MergeDataset(w)
      PROVE  TypeOK'
  <2> DEFINE next == [worker[w] EXCEPT !.pc = "idmap", !.base = Latest]
  <2>1. worker[w].pc = "dataset"
    BY <1>2 DEF MergeDataset, At
  <2>2. next \in Jobs
    BY <1>0 DEF Jobs, Points
  <2>3. /\ next.pc = "idmap" /\ next.user = worker[w].user /\ next.id = worker[w].id
        /\ next.patch = worker[w].patch /\ next.base = Latest
    BY <1>0 DEF Jobs
  <2>4. Begin(w, next) /\ UNCHANGED <<dataset, request>>
    BY <1>2 DEF MergeDataset
  <2> HIDE DEF next
  <2>5. LocalsOK(next, dataset, request)
    BY <1>0, <2>1, <2>3 DEF LocalsOK, HoldingPatch, HoldingRequest
  <2> QED BY <2>2, <2>4, <2>5, LocalStepKeepsTypes
<1>3. ASSUME MergeIdMap(w)
      PROVE  TypeOK'
  <2> DEFINE next == [worker[w] EXCEPT !.pc = "mint"]
  <2>1. worker[w].pc = "idmap"
    BY <1>3 DEF MergeIdMap, At
  <2>2. next \in Jobs
    BY <1>0 DEF Jobs, Points
  <2>3. /\ next.pc = "mint" /\ next.user = worker[w].user /\ next.id = worker[w].id
        /\ next.patch = worker[w].patch /\ next.base = worker[w].base
    BY <1>0 DEF Jobs
  <2>4. /\ Begin(w, next) \/ Answer(w, 400)
        /\ UNCHANGED <<dataset, request>>
    BY <1>3 DEF MergeIdMap
  <2> HIDE DEF next
  <2>5. LocalsOK(next, dataset, request)
    BY <1>0, <2>1, <2>3 DEF LocalsOK, HoldingPatch, HoldingRequest, HoldingBase
  <2> QED BY <2>1, <2>2, <2>4, <2>5, LocalStepKeepsTypes, AnswerKeepsTypes
<1>4. ASSUME MergeMint(w)
      PROVE  TypeOK'
  <2> DEFINE p == worker[w].patch
             existing == ExistingIds(Version(worker[w].base), RemovedKeys)
  <2>1. /\ worker[w].pc = "mint" /\ p \in AllPatches
        /\ worker[w].base \in 1..Len(dataset) /\ worker[w].id \in 1..Len(request)
        /\ worker[w].user \in Users
    BY <1>0, <1>4
       DEF MergeMint, At, LocalsOK, HoldingPatch, HoldingRequest, HoldingBase
  <2>2. CASE Answer(w, 400)
    <3>1. UNCHANGED <<dataset, request>> /\ worker[w].pc # "idle"
      BY <1>4, <2>1 DEF MergeMint
    <3> QED BY <2>2, <3>1, AnswerKeepsTypes
  <2>3. ASSUME NEW ids \in Assignments(p, existing),
               Begin(w, [worker[w] EXCEPT !.pc = "commit", !.ids = ids])
        PROVE  TypeOK'
    <3> DEFINE next == [worker[w] EXCEPT !.pc = "commit", !.ids = ids]
    <3>1. ids \in [DOMAIN p.new -> Ids \ existing]
      BY DEF Assignments
    <3>2. DOMAIN dataset[worker[w].base] \subseteq existing
      BY <2>1 DEF ExistingIds, Version, VersionIn
    <3>3. ids \in [DOMAIN p.new -> Ids \ DOMAIN dataset[worker[w].base]]
      BY <3>1, <3>2
    <3>4. ids \in IdMaps
      <4>1. ids \in [DOMAIN p.new -> Ids]
        BY <3>1
      <4> QED BY <2>1, <4>1, IdMapsOfPatches
    <3>5. next \in Jobs
      BY <1>0, <3>4 DEF Jobs, Points
    <3>6. /\ next.pc = "commit" /\ next.user = worker[w].user /\ next.id = worker[w].id
          /\ next.patch = p /\ next.base = worker[w].base /\ next.ids = ids
      BY <1>0 DEF Jobs
    <3>7. UNCHANGED <<dataset, request>>
      BY <1>4 DEF MergeMint
    <3>8. Begin(w, next)
      BY <2>3
    <3> HIDE DEF next, p, existing
    <3>9. LocalsOK(next, dataset, request)
      BY <2>1, <3>3, <3>6 DEF LocalsOK, p
    <3> QED BY <3>5, <3>7, <3>8, <3>9, LocalStepKeepsTypes
  <2> QED BY <1>4, <2>2, <2>3 DEF MergeMint
<1>5. ASSUME MergeCommit(w)
      PROVE  TypeOK'
  <2> DEFINE j == worker[w]
             data == Apply(j.patch, j.ids, dataset[j.base])
             row == MergedRow(request[j.id], j.user, j.base, j.patch, j.ids, Latest + 1)
             next == [j EXCEPT !.pc = "purge", !.patch = NoPatch, !.base = Null, !.ids = NoIds]
  <2>1. /\ j.pc = "commit" /\ j.user \in Users /\ j.patch \in AllPatches
        /\ j.base \in 1..Len(dataset) /\ j.id \in 1..Len(request)
        /\ j.ids \in [DOMAIN j.patch.new -> Ids \ DOMAIN dataset[j.base]]
    BY <1>0, <1>5
       DEF MergeCommit, At, LocalsOK, HoldingPatch, HoldingRequest, HoldingBase
  <2>2. j.ids \in IdMaps /\ j.base \in Nat
    BY <1>0, <2>1 DEF Jobs
  <2>3. data \in Data
    <3>1. dataset[j.base] \in Data /\ j.ids \in [DOMAIN j.patch.new -> Ids]
      BY <2>1 DEF TypeOK
    <3> QED BY <2>1, <3>1, ApplyGivesData
  <2>4. row \in Rows
    <3>1. request[j.id] \in Rows /\ Latest + 1 \in Nat
      BY <1>0, <2>1 DEF TypeOK
    <3> QED BY <2>1, <2>2, <3>1, RowsWritten
  <2>5. dataset' = Append(dataset, data) /\ request' = [request EXCEPT ![j.id] = row]
    <3>1. Version(j.base) = dataset[j.base]
      BY <2>1 DEF Version, VersionIn
    <3> QED BY <1>5, <3>1 DEF MergeCommit, NewVersionId
  <2>6. next \in Jobs /\ next.pc = "purge" /\ next.user = j.user
    BY <1>0, IdMapsOfPatches DEF Jobs, Points
  <2>7. worker' = [worker EXCEPT ![w] = next]
    BY <1>5 DEF MergeCommit, Begin
  <2> HIDE DEF j, data, row, next
  <2>8. /\ dataset' \in Seq(Data) /\ Len(dataset) =< Len(dataset')
        /\ \A v \in 1..Len(dataset) : dataset'[v] = dataset[v]
    BY <2>3, <2>5 DEF TypeOK
  <2>9. request' \in Seq(Rows) /\ Len(request) =< Len(request')
    BY <2>1, <2>4, <2>5 DEF TypeOK
  <2>10. LocalsOK(next, dataset', request')
    BY <2>1, <2>6 DEF LocalsOK, HoldingPatch, HoldingBase, HoldingRequest
  <2> QED BY <2>6, <2>7, <2>8, <2>9, <2>10, StepKeepsTypes
<1>6. ASSUME MergePurge(w)
      PROVE  TypeOK'
  BY <1>6, AnswerKeepsTypes DEF MergePurge, At
<1> QED BY <1>1, <1>2, <1>3, <1>4, <1>5, <1>6 DEF Merge

(* reject() keeps the types.                                               *)
LEMMA RejectKeepsTypes ==
  ASSUME TypeOK, NEW w \in Workers, Reject(w)
  PROVE  TypeOK'
<1>1. ASSUME NEW u \in Editors, NEW i \in 1..MaxRequests, RejectRead(w, u, i)
      PROVE  TypeOK'
  <2> DEFINE job == Handling("reject", u, i)
             next == [job EXCEPT !.pc = "close"]
  <2>1. job \in Jobs /\ job.user = u /\ job.id = i /\ u \in Users
    <3>1. "reject" \in Calls /\ u \in Users
      BY UserAssumption DEF Calls
    <3> QED BY <3>1, HandlingIsAJob
  <2>2. /\ \/ Reviewable(i) /\ Begin(w, next)
           \/ Begin(w, Answered(job, 404))
        /\ UNCHANGED <<dataset, request>>
    BY <1>1 DEF RejectRead
  <2>3. next \in Jobs /\ next.pc = "close" /\ next.user = u /\ next.id = i
    <3> HIDE DEF job
    <3> QED BY <2>1 DEF Jobs, Points
  <2> HIDE DEF job, next
  <2>4. Reviewable(i) => LocalsOK(next, dataset, request)
    BY <2>1, <2>3 DEF LocalsOK, HoldingPatch, HoldingBase, Reviewable, TypeOK
  <2> QED BY <2>1, <2>2, <2>3, <2>4, LocalStepKeepsTypes, RefusalKeepsTypes
<1>2. ASSUME RejectWrite(w)
      PROVE  TypeOK'
  <2> DEFINE i == worker[w].id
             row == RejectedRow(request[i], worker[w].user)
  <2>1. worker[w].pc # "idle" /\ worker[w].user \in Users /\ i \in 1..Len(request)
    BY <1>2 DEF TypeOK, RejectWrite, At, LocalsOK, HoldingRequest
  <2>2. request[i] \in Rows
    BY <2>1 DEF TypeOK
  <2>3. row \in Rows
    BY <2>1, <2>2 DEF RejectedRow, Rows
  <2>4. request' = [request EXCEPT ![i] = row]
    BY <1>2 DEF RejectWrite
  <2>5. request' \in Seq(Rows) /\ Len(request) =< Len(request')
    BY <2>1, <2>3, <2>4 DEF TypeOK
  <2> QED BY <1>2, <2>1, <2>5, WriteKeepsTypes DEF RejectWrite
<1> QED BY <1>1, <1>2 DEF Reject

(* Loading the initial data leaves the tables typed (load_data).           *)
LEMMA InitIsTyped == Init => TypeOK
<1> SUFFICES ASSUME Init PROVE TypeOK
  OBVIOUS
<1> DEFINE ids == [e \in Initial |-> e]
<1>1. LoadPatch \in AllPatches /\ EmptyData \in Data
  BY DEF AllPatches, EmptyData, Data
<1>2. ids \in [DOMAIN LoadPatch.new -> Ids]
  BY InitialAssumption DEF LoadPatch
<1>3. Apply(LoadPatch, ids, EmptyData) \in Data
  BY <1>1, <1>2, ApplyGivesData
<1>4. ids \in IdMaps
  BY <1>1, <1>2, IdMapsOfPatches
<1> HIDE DEF ids
<1>5. NewRow(Loader, 0, LoadPatch) \in Rows
  BY <1>1, RowsWritten
<1>6. MergedRow(NewRow(Loader, 0, LoadPatch), Loader, 0, LoadPatch, ids, 1) \in Rows
  BY <1>1, <1>4, <1>5, RowsWritten
<1>7. dataset \in Seq(Data) /\ Len(dataset) = 1
  BY <1>3 DEF Init, ids
<1>8. request \in Seq(Rows)
  BY <1>6 DEF Init, ids
<1>9. /\ worker \in [Workers -> Jobs]
      /\ \A w \in Workers : LocalsOK(worker[w], dataset, request)
  BY IdleIsAJob DEF Init
<1> QED BY <1>7, <1>8, <1>9 DEF TypeOK, Latest

LEMMA NextKeepsTypes == TypeOK /\ [Next]_vars => TypeOK'
<1> SUFFICES ASSUME TypeOK, [Next]_vars PROVE TypeOK'
  OBVIOUS
<1>1. ASSUME NEW w \in Workers, Fail(w) PROVE TypeOK'
  BY <1>1, AnswerKeepsTypes DEF Fail
<1>2. ASSUME NEW w \in Workers, Done(w) PROVE TypeOK'
  BY <1>2, IdleIsAJob, LocalStepKeepsTypes DEF Done
<1>3. CASE UNCHANGED vars
  BY <1>3 DEF vars, TypeOK, LocalsOK, Latest
<1> QED
  BY <1>1, <1>2, <1>3, CreateKeepsTypes, UpdateKeepsTypes, MergeKeepsTypes, RejectKeepsTypes
     DEF Next

(* Whatever the workers do, tables and local variables are well typed, and *)
(* what a handler has read is still there when it writes.                  *)
THEOREM TypesAreKept == Spec => []TypeOK
BY InitIsTyped, NextKeepsTypes, PTL DEF Spec

-----------------------------------------------------------------------------
(* The record of a merged request.                                         *)
(*                                                                         *)
(* The three invariants are inductive together with TypeOK: TypeOK says    *)
(* that at "commit" the version that was read exists and has none of the   *)
(* new identifiers, and MergedRowsExplainVersions that no row claims a     *)
(* version that is still to come.                                          *)

RecordsOK == MergedRowsExplainVersions /\ OneRowPerVersion /\ CreatedAreNew

(* The columns the invariants read.                                        *)
SameRecord(r, s) ==
  /\ r.open = s.open /\ r.merged = s.merged
  /\ r.applied_to = s.applied_to /\ r.resulted_in = s.resulted_in
  /\ r.created = s.created /\ r.identifier_map = s.identifier_map
  /\ r.applied = s.applied

(* A step that adds no version and merges no request keeps the records.    *)
LEMMA RecordsStay ==
  ASSUME RecordsOK, dataset' = dataset,
         \A i \in Merged' : i \in Merged /\ SameRecord(request'[i], request[i])
  PROVE  RecordsOK'
<1>1. MergedRowsExplainVersions'
  BY DEF RecordsOK, MergedRowsExplainVersions, SameRecord, Latest, Version
<1>2. OneRowPerVersion'
  BY DEF RecordsOK, OneRowPerVersion, SameRecord
<1>3. CreatedAreNew'
  BY DEF RecordsOK, CreatedAreNew, SameRecord, Version
<1> QED BY <1>1, <1>2, <1>3 DEF RecordsOK

LEMMA InitRecords == Init => RecordsOK
<1> SUFFICES ASSUME Init PROVE RecordsOK
  OBVIOUS
<1> DEFINE ids == [e \in Initial |-> e]
           row == MergedRow(NewRow(Loader, 0, LoadPatch), Loader, 0, LoadPatch, ids, 1)
<1>1. /\ row.open = FALSE /\ row.merged = TRUE /\ row.applied_to = 0
      /\ row.resulted_in = 1 /\ row.created = Range(ids)
      /\ row.identifier_map = ids /\ row.applied = LoadPatch
  BY DEF MergedRow, NewRow
<1> HIDE DEF row
<1>2. request = <<row>> /\ dataset = <<Apply(LoadPatch, ids, EmptyData)>>
  BY DEF Init, row
<1>3. Merged = {1} /\ request[1] = row /\ Latest = 1
  BY <1>1, <1>2 DEF Merged, Latest
<1>4. /\ Version(0) = EmptyData
      /\ Version(1) = Apply(LoadPatch, ids, EmptyData) /\ dataset[1] = Version(1)
  BY <1>2 DEF Version, VersionIn
<1>5. MergedRowsExplainVersions
  BY <1>1, <1>3, <1>4 DEF MergedRowsExplainVersions, AllPatches
<1>6. OneRowPerVersion
  BY <1>3 DEF OneRowPerVersion
<1>7. DOMAIN EmptyData = {} /\ Range(ids) \subseteq DOMAIN Version(1)
  BY <1>4 DEF EmptyData, Apply
<1>8. CreatedAreNew
  BY <1>1, <1>3, <1>4, <1>7 DEF CreatedAreNew
<1> QED BY <1>5, <1>6, <1>8 DEF RecordsOK

(* The transaction of merge(): the one step that adds a version.           *)
LEMMA MergeCommitRecords ==
  ASSUME TypeOK, RecordsOK, NEW w \in Workers, MergeCommit(w)
  PROVE  RecordsOK'
<1> DEFINE j == worker[w]
           data == Apply(j.patch, j.ids, Version(j.base))
           row == MergedRow(request[j.id], j.user, j.base, j.patch, j.ids, Latest + 1)
<1>1. /\ j.patch \in AllPatches /\ j.base \in 1..Latest /\ j.id \in 1..Len(request)
      /\ j.ids \in [DOMAIN j.patch.new -> Ids \ DOMAIN dataset[j.base]]
  BY DEF TypeOK, LocalsOK, MergeCommit, At, HoldingPatch, HoldingBase, HoldingRequest, Latest
<1>2. dataset' = Append(dataset, data) /\ request' = [request EXCEPT ![j.id] = row]
  BY DEF MergeCommit, NewVersionId
<1>3. request[j.id] \in Rows
  BY <1>1 DEF TypeOK
<1>4. /\ row.open = FALSE /\ row.merged = TRUE /\ row.applied_to = j.base
      /\ row.resulted_in = Latest + 1 /\ row.created = Range(j.ids)
      /\ row.identifier_map = j.ids /\ row.applied = j.patch
  BY <1>3 DEF MergedRow, Rows
<1>5. Latest \in Nat /\ request \in Seq(Rows)
  BY DEF TypeOK, Latest
<1> HIDE DEF j, row, data
<1>6. /\ Latest' = Latest + 1 /\ dataset'[Latest + 1] = data
      /\ \A v \in 1..Latest : dataset'[v] = dataset[v]
  BY <1>2 DEF TypeOK, Latest
<1>7. /\ \A v \in 0..Latest : VersionIn(dataset', v) = VersionIn(dataset, v)
      /\ VersionIn(dataset', Latest + 1) = data
  BY <1>5, <1>6 DEF VersionIn
<1>8. /\ request'[j.id] = row
      /\ \A i \in Merged' : i # j.id => i \in Merged /\ request'[i] = request[i]
  BY <1>1, <1>2, <1>5 DEF Merged
<1>9. \A i \in Merged : /\ request[i].resulted_in \in 1..Latest
                         /\ request[i].applied_to \in 0..Latest
  BY <1>5 DEF RecordsOK, MergedRowsExplainVersions
<1>10. MergedRowsExplainVersions'
  <2> SUFFICES ASSUME NEW i \in Merged'
               PROVE  /\ ~request'[i].open
                      /\ request'[i].resulted_in \in 1..Latest'
                      /\ request'[i].applied_to \in 0..(request'[i].resulted_in - 1)
                      /\ request'[i].applied \in AllPatches
                      /\ dataset'[request'[i].resulted_in] =
                           Apply(request'[i].applied, request'[i].identifier_map,
                                 VersionIn(dataset', request'[i].applied_to))
    BY DEF MergedRowsExplainVersions, Version
  <2>1. CASE i = j.id
    <3>1. VersionIn(dataset', j.base) = VersionIn(dataset, j.base)
      BY <1>1, <1>5, <1>7
    <3>2. dataset'[Latest + 1] = Apply(j.patch, j.ids, VersionIn(dataset, j.base))
      BY <1>6 DEF data, Version
    <3>3. /\ Latest + 1 \in 1..Latest' /\ j.base \in 0..((Latest + 1) - 1)
      BY <1>1, <1>5, <1>6
    <3> QED BY <2>1, <3>1, <3>2, <3>3, <1>1, <1>4, <1>8
  <2>2. CASE i # j.id
    <3>1. i \in Merged /\ request'[i] = request[i]
      BY <2>2, <1>8
    <3>2. /\ VersionIn(dataset', request[i].applied_to) = VersionIn(dataset, request[i].applied_to)
          /\ dataset'[request[i].resulted_in] = dataset[request[i].resulted_in]
      BY <3>1, <1>6, <1>7, <1>9
    <3> QED BY <3>1, <3>2, <1>5, <1>6, <1>9 DEF RecordsOK, MergedRowsExplainVersions, Version
  <2> QED BY <2>1, <2>2
<1>11. OneRowPerVersion'
  BY <1>4, <1>5, <1>8, <1>9 DEF RecordsOK, OneRowPerVersion
<1>12. CreatedAreNew'
  <2> SUFFICES ASSUME NEW i \in Merged'
               PROVE  /\ request'[i].created
                           \cap DOMAIN VersionIn(dataset', request'[i].applied_to) = {}
                      /\ request'[i].created
                           \subseteq DOMAIN VersionIn(dataset', request'[i].resulted_in)
    BY DEF CreatedAreNew, Version
  <2>1. CASE i = j.id
    <3>1. VersionIn(dataset', j.base) = dataset[j.base]
      BY <1>1, <1>5, <1>7 DEF VersionIn
    <3>2. Range(j.ids) \cap DOMAIN dataset[j.base] = {}
      BY <1>1 DEF Range
    <3>3. Range(j.ids) \subseteq DOMAIN data
      BY DEF data, Apply
    <3> QED BY <2>1, <3>1, <3>2, <3>3, <1>4, <1>7, <1>8
  <2>2. CASE i # j.id
    <3>1. i \in Merged /\ request'[i] = request[i]
      BY <2>2, <1>8
    <3>2. /\ VersionIn(dataset', request[i].applied_to) = VersionIn(dataset, request[i].applied_to)
          /\ VersionIn(dataset', request[i].resulted_in) = VersionIn(dataset, request[i].resulted_in)
      BY <3>1, <1>5, <1>7, <1>9
    <3> QED BY <3>1, <3>2 DEF RecordsOK, CreatedAreNew, Version
  <2> QED BY <2>1, <2>2
<1> QED BY <1>10, <1>11, <1>12 DEF RecordsOK

(* Every other step leaves the versions and the merged records alone; only *)
(* a rejection may take a record back.                                     *)
LEMMA NextKeepsRecords ==
  ASSUME TypeOK, RecordsOK, [Next]_vars
  PROVE  RecordsOK'
<1>1. ASSUME UNCHANGED <<dataset, request>>
      PROVE  RecordsOK'
  BY <1>1, RecordsStay DEF Merged, SameRecord
<1>2. ASSUME NEW w \in Workers, CreateInsert(w)
      PROVE  RecordsOK'
  <2> DEFINE row == NewRow(worker[w].user, worker[w].base, worker[w].patch)
  <2>1. request' = Append(request, row) /\ dataset' = dataset /\ request \in Seq(Rows)
    BY <1>2 DEF CreateInsert, TypeOK
  <2>2. row.merged = FALSE
    BY DEF NewRow
  <2> HIDE DEF row
  <2>3. \A i \in Merged' : i \in Merged /\ request'[i] = request[i]
    BY <2>1, <2>2 DEF Merged
  <2> QED BY <2>1, <2>3, RecordsStay DEF SameRecord
<1>3. ASSUME NEW w \in Workers, UpdateWrite(w)
      PROVE  RecordsOK'
  <2> DEFINE k == worker[w].id
             row == RevisedRow(request[k], worker[w].user, worker[w].base, worker[w].patch)
  <2>1. /\ request' = [request EXCEPT ![k] = row] /\ dataset' = dataset
        /\ request \in Seq(Rows) /\ k \in 1..Len(request)
    BY <1>3 DEF UpdateWrite, TypeOK, LocalsOK, At, HoldingRequest
  <2>2. SameRecord(row, request[k])
    <3>1. request[k] \in Rows
      BY <2>1
    <3> QED BY <3>1 DEF RevisedRow, Rows, SameRecord
  <2> HIDE DEF row, k
  <2>3. \A i \in Merged' : i \in Merged /\ SameRecord(request'[i], request[i])
    BY <2>1, <2>2 DEF Merged, SameRecord
  <2> QED BY <2>1, <2>3, RecordsStay
<1>4. ASSUME NEW w \in Workers, RejectWrite(w)
      PROVE  RecordsOK'
  <2> DEFINE k == worker[w].id
             row == RejectedRow(request[k], worker[w].user)
  <2>1. /\ request' = [request EXCEPT ![k] = row] /\ dataset' = dataset
        /\ request \in Seq(Rows) /\ k \in 1..Len(request)
    BY <1>4 DEF RejectWrite, TypeOK, LocalsOK, At, HoldingRequest
  <2>2. row.merged = FALSE
    <3>1. request[k] \in Rows
      BY <2>1
    <3> QED BY <3>1 DEF RejectedRow, Rows
  <2> HIDE DEF row, k
  <2>3. \A i \in Merged' : i \in Merged /\ request'[i] = request[i]
    BY <2>1, <2>2 DEF Merged
  <2> QED BY <2>1, <2>3, RecordsStay DEF SameRecord
<1>5. ASSUME NEW w \in Workers, Create(w)
      PROVE  RecordsOK'
  BY <1>1, <1>2, <1>5 DEF Create, CreateRead
<1>6. ASSUME NEW w \in Workers, Update(w)
      PROVE  RecordsOK'
  BY <1>1, <1>3, <1>6 DEF Update, UpdateAuthorize, UpdateRead
<1>7. ASSUME NEW w \in Workers, Merge(w)
      PROVE  RecordsOK'
  BY <1>1, <1>7, MergeCommitRecords
     DEF Merge, MergeRead, MergeDataset, MergeIdMap, MergeMint, MergePurge
<1>8. ASSUME NEW w \in Workers, Reject(w)
      PROVE  RecordsOK'
  BY <1>1, <1>4, <1>8 DEF Reject, RejectRead
<1>9. ASSUME NEW w \in Workers, Fail(w) \/ Done(w)
      PROVE  RecordsOK'
  BY <1>1, <1>9 DEF Fail, Done
<1>10. CASE UNCHANGED vars
  BY <1>1, <1>10 DEF vars
<1> QED BY <1>5, <1>6, <1>7, <1>8, <1>9, <1>10 DEF Next

LEMMA RecordsAreKept == Spec => []RecordsOK
<1>1. TypeOK /\ RecordsOK /\ [Next]_vars => RecordsOK'
  BY NextKeepsRecords
<1> QED BY <1>1, InitRecords, TypesAreKept, PTL DEF Spec

(* The history is true: however merges, updates and rejections overlap,    *)
(* what a merged request records about its source, patch, identifiers and  *)
(* result is what happened to the data.                                    *)
THEOREM HistoryIsTrue == Spec => []MergedRowsExplainVersions
<1>1. RecordsOK => MergedRowsExplainVersions
  BY DEF RecordsOK
<1> QED BY <1>1, RecordsAreKept, PTL

(* No version of the dataset is claimed by two requests.                   *)
THEOREM VersionsHaveOneSource == Spec => []OneRowPerVersion
<1>1. RecordsOK => OneRowPerVersion
  BY DEF RecordsOK
<1> QED BY <1>1, RecordsAreKept, PTL

(* A merge never gives a new entity the identifier of one that its source  *)
(* version already had.                                                    *)
THEOREM NewEntitiesAreNew == Spec => []CreatedAreNew
<1>1. RecordsOK => CreatedAreNew
  BY DEF RecordsOK
<1> QED BY <1>1, RecordsAreKept, PTL
=============================================================================
