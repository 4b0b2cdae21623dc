------------------------------ MODULE Patching ------------------------------
(***************************************************************************)
(* Change requests and the versions of the dataset: patching.py with the   *)
(* handlers of resources.py that call it, as run by the gunicorn workers.  *)
(*                                                                         *)
(* The workers are processes; each serves one HTTP request at a time.      *)
(* They share one SQLite file.  Every SELECT that a handler makes outside  *)
(* open_cursor(write=True) is a read of its own, and every block under     *)
(* open_cursor(write=True) is one transaction, so a handler here is one    *)
(* action for each of those, with its local variables kept in worker[w].   *)
(*                                                                         *)
(* MaxRequests and MaxVersions bound the two tables.                       *)
(***************************************************************************)
EXTENDS Dataset, Integers, Sequences

CONSTANTS
  Workers,        \* gunicorn worker processes
  Users,          \* users with the submit-patch permission
  Editors,        \* those who also have accept-patch
  Loader,         \* "initial-data-loader"
  NoUser,
  Patches,        \* the patches clients send
  NoPatch,
  Initial,        \* the identifiers in the data that load_data() loads
  InitialContent,
  SerialReview,   \* TRUE: reviews of requests (PUT, merge, reject) do not overlap
  MaxRequests,
  MaxVersions

ASSUME UserAssumption ==
  /\ Editors \subseteq Users
  /\ Loader \notin Users
  /\ NoUser \notin Users \cup {Loader}
ASSUME PatchAssumption == (\A p \in Patches : IsPatch(p)) /\ NoPatch \notin Patches
ASSUME InitialAssumption ==
  /\ Initial \subseteq Ids
  /\ \A q \in Initial \cap PeriodIds : AuthorityOf[q] \in Initial
  /\ InitialContent \in Contents
ASSUME ParameterAssumption ==
  SerialReview \in BOOLEAN /\ MaxRequests \in Nat /\ MaxVersions \in Nat

VARIABLES
  dataset,        \* rows 1, 2, ... of table dataset (row 0 is EmptyData)
  request,        \* table patch_request
  worker          \* what each worker is doing

vars == <<dataset, request, worker>>

Null == -1        \* SQL NULL in applied_to and resulted_in
NoIds == [s \in {} |-> NoId]

VersionIn(table, v) == IF v = 0 THEN EmptyData ELSE table[v]
Version(v) == VersionIn(dataset, v)
Latest == Len(dataset)

-----------------------------------------------------------------------------
(* Definitions that no action uses, such as MergedRowAsProposed beside     *)
(* MergedRow, are the mistakes that the properties are tried on: each      *)
(* stands before the definition it would replace.                          *)

(* The patch JsonPatch.from_diff({}, data) of load_data().                 *)
LoadPatch ==
  [op |-> "add", scope |-> "authorities", authority |-> NoId, period |-> NoId,
   listing |-> {}, value |-> InitialContent,
   new |-> [e \in Initial |-> IF e \in PeriodIds THEN AuthorityOf[e] ELSE Root]]

AllPatches == Patches \cup {LoadPatch}
IdMaps == UNION {[S -> Ids] : S \in {{}} \cup {DOMAIN p.new : p \in AllPatches}}

Rows ==
  [created_by : Users \cup {Loader}, updated_by : Users \cup {Loader},
   open : BOOLEAN, merged : BOOLEAN, merged_by : Users \cup {Loader, NoUser},
   created_from : Nat, applied_to : Nat \cup {Null}, resulted_in : Nat \cup {Null},
   created : SUBSET Ids, updated : SUBSET Ids, removed : SUBSET Ids,
   identifier_map : IdMaps, original : AllPatches, applied : AllPatches \cup {NoPatch}]

(* The row create_request() inserts. *)
NewRow(u, base, p) ==
  [created_by |-> u, updated_by |-> u,
   open |-> TRUE, merged |-> FALSE, merged_by |-> NoUser,
   created_from |-> base, applied_to |-> Null, resulted_in |-> Null,
   created |-> {}, updated |-> Updated(p), removed |-> Removed(p, Version(base)),
   identifier_map |-> NoIds, original |-> p, applied |-> NoPatch]

RevisedRow(row, u, base, p) ==
  [row EXCEPT !.original = p, !.updated = Updated(p),
              !.removed = Removed(p, Version(base)), !.updated_by = u]

MergedRowListingSkolems(row, u, base, p, ids, v) ==
  [row EXCEPT !.merged = TRUE, !.open = FALSE, !.merged_by = u,
              !.applied_to = base, !.created = DOMAIN ids, !.identifier_map = ids,
              !.applied = p, !.resulted_in = v]
MergedRowAsProposed(row, u, base, p, ids, v) ==
  [row EXCEPT !.merged = TRUE, !.open = FALSE, !.merged_by = u,
              !.applied_to = base, !.created = Range(ids), !.identifier_map = ids,
              !.applied = row.original, !.resulted_in = v]
MergedRowCreatingNothing(row, u, base, p, ids, v) ==
  [row EXCEPT !.merged = TRUE, !.open = FALSE, !.merged_by = u,
              !.applied_to = base, !.identifier_map = ids,
              !.applied = p, !.resulted_in = v]
MergedRow(row, u, base, p, ids, v) ==
  [row EXCEPT !.merged = TRUE, !.open = FALSE, !.merged_by = u,
              !.applied_to = base, !.created = Range(ids), !.identifier_map = ids,
              !.applied = p, !.resulted_in = v]

RejectedRow(row, u) ==
  [row EXCEPT !.merged = FALSE, !.open = FALSE, !.merged_by = u]

Merged == {i \in DOMAIN request : request[i].merged}

(* database.get_identifier_map() and get_removed_entity_keys().            *)
MappedSkolems == UNION {DOMAIN request[i].identifier_map : i \in Merged}
RemovedKeys == UNION {request[i].removed : i \in Merged}

-----------------------------------------------------------------------------
(* The workers.                                                            *)

Calls == {"none", "create", "update", "merge", "reject"}
Points == {"idle", "insert", "validate", "write", "dataset", "idmap", "mint",
           "commit", "purge", "close", "done"}

Idle == [call |-> "none", pc |-> "idle", user |-> NoUser, id |-> Null,
         patch |-> NoPatch, base |-> Null, ids |-> NoIds, status |-> 0]

Jobs ==
  [call : Calls, pc : Points, user : Users \cup {NoUser}, id : Nat \cup {Null},
   patch : AllPatches \cup {NoPatch}, base : Nat \cup {Null}, ids : IdMaps,
   status : Nat]

Handling(name, u, i) == [Idle EXCEPT !.call = name, !.user = u, !.id = i]
At(w, point) == worker[w].pc = point
Begin(w, job) == worker' = [worker EXCEPT ![w] = job]
Answered(job, code) ==
  [job EXCEPT !.pc = "done", !.status = code, !.patch = NoPatch, !.base = Null,
              !.ids = NoIds]
Answer(w, code) == worker' = [worker EXCEPT ![w] = Answered(worker[w], code)]

Busy(call) == {w \in Workers : worker[w].call = call /\ ~At(w, "done")}
MayReview ==
  SerialReview => Busy("update") \cup Busy("merge") \cup Busy("reject") = {}

-----------------------------------------------------------------------------
(* PATCH /dataset/ : Dataset.patch and create_request().                   *)

CreateRead(w, u, p) ==
  /\ At(w, "idle")
  /\ Len(request) + Cardinality(Busy("create")) < MaxRequests
  /\ LET job == Handling("create", u, Null)
     IN \/ /\ Applicable(p, Version(Latest))
           /\ Begin(w, [job EXCEPT !.pc = "insert", !.patch = p, !.base = Latest])
        \/ /\ ~Applicable(p, Version(Latest))
           /\ Begin(w, Answered(job, 400))
  /\ UNCHANGED <<dataset, request>>

CreateInsert(w) ==
  /\ At(w, "insert")
  /\ request' = Append(request, NewRow(worker[w].user, worker[w].base, worker[w].patch))
  /\ Answer(w, 202)
  /\ UNCHANGED dataset

-----------------------------------------------------------------------------
(* PUT /patches/<id>/patch : Patch.put and update_request().               *)

(* The UpdatePatchNeeds that _get_identity gives a user.                   *)
MayUpdateClosed(u, i) ==
  i \in DOMAIN request /\ (request[i].created_by = u \/ u \in Editors)
MayUpdate(u, i) ==
  /\ i \in DOMAIN request
  /\ request[i].open
  /\ request[i].created_by = u \/ u \in Editors

UpdateAuthorize(w, u, i, p) ==
  /\ At(w, "idle") /\ MayReview
  /\ LET job == Handling("update", u, i)
     IN \/ MayUpdate(u, i) /\ Begin(w, [job EXCEPT !.pc = "validate", !.patch = p])
        \/ ~MayUpdate(u, i) /\ Begin(w, Answered(job, 403))
  /\ UNCHANGED <<dataset, request>>

(* validate(), with the exception Patch.put lets pass as a success.        *)
UpdateReadLeniently(w) ==
  /\ At(w, "validate")
  /\ Begin(w, [worker[w] EXCEPT !.pc = "write", !.base = Latest])
  /\ UNCHANGED <<dataset, request>>
UpdateRead(w) ==
  /\ At(w, "validate")
  /\ LET p == worker[w].patch
         data == Version(Latest)
     IN \/ /\ Applicable(p, data)
           /\ Begin(w, [worker[w] EXCEPT !.pc = "write", !.base = Latest])
        \/ PointerResolves(p, data) /\ ~MemberExists(p, data) /\ Answer(w, 400)
        \/ ~PointerResolves(p, data) /\ Answer(w, 200)
  /\ UNCHANGED <<dataset, request>>

UpdateWrite(w) ==
  /\ At(w, "write")
  /\ LET j == worker[w]
     IN request' = [request EXCEPT ![j.id] = RevisedRow(@, j.user, j.base, j.patch)]
  /\ Answer(w, 200)
  /\ UNCHANGED dataset

-----------------------------------------------------------------------------
(* POST /patches/<id>/merge : PatchMerge.post and merge().                 *)

ReviewableAny(i) == i \in DOMAIN request
ReviewableUnlessMerged(i) == i \in DOMAIN request /\ ~request[i].merged
Reviewable(i) == i \in DOMAIN request /\ ~request[i].merged /\ request[i].open

MergeRead(w, u, i) ==
  /\ At(w, "idle") /\ MayReview
  /\ Len(dataset) + Cardinality(Busy("merge")) < MaxVersions
  /\ LET job == Handling("merge", u, i)
     IN \/ /\ Reviewable(i)
           /\ Begin(w, [job EXCEPT !.pc = "dataset", !.patch = request[i].original])
        \/ ~Reviewable(i) /\ Begin(w, Answered(job, 404))
  /\ UNCHANGED <<dataset, request>>

MergeDatasetOfSubmission(w) ==
  /\ At(w, "dataset")
  /\ Begin(w, [worker[w] EXCEPT !.pc = "idmap", !.base = request[worker[w].id].created_from])
  /\ UNCHANGED <<dataset, request>>
MergeDataset(w) ==
  /\ At(w, "dataset")
  /\ Begin(w, [worker[w] EXCEPT !.pc = "idmap", !.base = Latest])
  /\ UNCHANGED <<dataset, request>>

(* get_identifier_map(), is_mergeable(), and the test of replace_skolem_ids *)
(* that depends on what was read so far.                                    *)
MergeableAgain(j) == Applicable(j.patch, Version(j.base))
Mergeable(j) ==
  Applicable(j.patch, Version(j.base)) /\ ~AlreadyMapped(j.patch, MappedSkolems)

MergeIdMap(w) ==
  /\ At(w, "idmap")
  /\ \/ Mergeable(worker[w]) /\ Begin(w, [worker[w] EXCEPT !.pc = "mint"])
     \/ ~Mergeable(worker[w]) /\ Answer(w, 400)
  /\ UNCHANGED <<dataset, request>>

(* get_removed_entity_keys(), the rest of replace_skolem_ids, and apply(). *)
MergeMint(w) ==
  /\ At(w, "mint")
  /\ LET j == worker[w]
         existing == ExistingIds(Version(j.base), RemovedKeys)
     IN \/ \E ids \in Assignments(j.patch, existing) :
             Begin(w, [j EXCEPT !.pc = "commit", !.ids = ids])
        \/ MayCollide(j.patch, existing) /\ Answer(w, 400)
  /\ UNCHANGED <<dataset, request>>

(* The row id AUTOINCREMENT gives a new version of the dataset.            *)
BaseVersionId(base) == base + 1
NewVersionId(base) == Latest + 1

(* The transaction: the request, the new version, the request again.       *)
MergeCommit(w) ==
  /\ At(w, "commit")
  /\ LET j == worker[w]
     IN /\ Describable(j.patch)
        /\ dataset' = Append(dataset, Apply(j.patch, j.ids, Version(j.base)))
        /\ request' = [request EXCEPT ![j.id] = MergedRow(@, j.user, j.base, j.patch,
                                                          j.ids, NewVersionId(j.base))]
  /\ Begin(w, [worker[w] EXCEPT !.pc = "purge", !.patch = NoPatch, !.base = Null,
                                !.ids = NoIds])

(* The cache is told; the caches are not part of this module.              *)
MergePurge(w) ==
  /\ At(w, "purge")
  /\ Answer(w, 204)
  /\ UNCHANGED <<dataset, request>>

-----------------------------------------------------------------------------
(* POST /patches/<id>/reject : PatchReject.post and reject().              *)

RejectRead(w, u, i) ==
  /\ At(w, "idle") /\ MayReview
  /\ LET job == Handling("reject", u, i)
     IN \/ Reviewable(i) /\ Begin(w, [job EXCEPT !.pc = "close"])
        \/ ~Reviewable(i) /\ Begin(w, Answered(job, 404))
  /\ UNCHANGED <<dataset, request>>

RejectWrite(w) ==
  /\ At(w, "close")
  /\ LET j == worker[w]
     IN request' = [request EXCEPT ![j.id] = RejectedRow(@, j.user)]
  /\ Answer(w, 204)
  /\ UNCHANGED dataset

-----------------------------------------------------------------------------
(* A handler ends without (further) effect: the worker is killed, SQLite's *)
(* lock is not free in time, or something raises; a transaction rolls back.*)
Fail(w) ==
  /\ worker[w].pc \notin {"idle", "done"}
  /\ Answer(w, 500)
  /\ UNCHANGED <<dataset, request>>

Done(w) ==
  /\ At(w, "done")
  /\ Begin(w, Idle)
  /\ UNCHANGED <<dataset, request>>

(* init_db() and load_data(), before the server starts. *)
Init ==
  /\ dataset = <<Apply(LoadPatch, [e \in Initial |-> e], EmptyData)>>
  /\ request = <<MergedRow(NewRow(Loader, 0, LoadPatch),
                           Loader, 0, LoadPatch, [e \in Initial |-> e], 1)>>
  /\ worker = [w \in Workers |-> Idle]

Create(w) == \/ \E u \in Users, p \in Patches : CreateRead(w, u, p)
             \/ CreateInsert(w)
Update(w) == \/ \E u \in Users, i \in 1..MaxRequests, p \in Patches : UpdateAuthorize(w, u, i, p)
             \/ UpdateRead(w)
             \/ UpdateWrite(w)
Merge(w) ==  \/ \E u \in Editors, i \in 1..MaxRequests : MergeRead(w, u, i)
             \/ MergeDataset(w)
             \/ MergeIdMap(w)
             \/ MergeMint(w)
             \/ MergeCommit(w)
             \/ MergePurge(w)
Reject(w) == \/ \E u \in Editors, i \in 1..MaxRequests : RejectRead(w, u, i)
             \/ RejectWrite(w)

Next == \E w \in Workers : Create(w) \/ Update(w) \/ Merge(w) \/ Reject(w) \/ Fail(w) \/ Done(w)

Spec == Init /\ [][Next]_vars

-----------------------------------------------------------------------------
(* Properties.                                                             *)

(* What a handler holds between its database calls is still good when it   *)
(* uses it: the patch, the request it is about, the version it read, and   *)
(* identifiers that are new to that version (create_request to merge,      *)
(* patching.py:109-270).                                                   *)
HoldingPatch == {"insert", "validate", "write", "dataset", "idmap", "mint", "commit"}
HoldingBase == {"insert", "write", "idmap", "mint", "commit"}
HoldingRequest == {"validate", "write", "dataset", "idmap", "mint", "commit", "close"}

LocalsOK(job, d, r) ==
  /\ job.pc # "idle" => job.user \in Users
  /\ job.pc \in HoldingPatch => job.patch \in AllPatches
  /\ job.pc \in HoldingBase => job.base \in 1..Len(d)
  /\ job.pc \in HoldingRequest => job.id \in 1..Len(r)
  /\ job.pc = "commit" => job.ids \in [DOMAIN job.patch.new -> Ids \ DOMAIN d[job.base]]

(* Every column and every handler's local variable has its type.           *)
TypeOK ==
  /\ dataset \in Seq(Data) /\ Latest >= 1
  /\ request \in Seq(Rows)
  /\ worker \in [Workers -> Jobs]
  /\ \A w \in Workers : LocalsOK(worker[w], dataset, request)

(* What /history and /patches/<id>/patch tell of a merged request is true: *)
(* it is closed, and applying the patch recorded with it, with the         *)
(* identifiers recorded with it, to the version it names as its source     *)
(* gives the version it names as its result (merge, patching.py:234-270).  *)
(* Holds however requests overlap.                                         *)
MergedRowsExplainVersions ==
  \A i \in Merged :
    LET r == request[i]
    IN /\ ~r.open
       /\ r.resulted_in \in 1..Latest
       /\ r.applied_to \in 0..(r.resulted_in - 1)
       /\ r.applied \in AllPatches
       /\ dataset[r.resulted_in] = Apply(r.applied, r.identifier_map, Version(r.applied_to))

(* No two requests claim the same version: a change in /history is the     *)
(* only one to have generated its version.                                 *)
OneRowPerVersion ==
  \A i, j \in Merged : request[i].resulted_in = request[j].resulted_in => i = j

(* The identifiers a merge reports as created are those of entities its    *)
(* result holds and its source did not, so no entity was overwritten by a  *)
(* new one (replace_skolem_ids, identifier.py:138-157).                    *)
CreatedAreNew ==
  \A i \in Merged :
    LET r == request[i]
    IN /\ r.created \cap DOMAIN Version(r.applied_to) = {}
       /\ r.created \subseteq DOMAIN Version(r.resulted_in)

(* Every version was made by one merged request, from the version before   *)
(* it: the history is a chain, and no merged change is missing from the    *)
(* current data.  Needs SerialReview.                                      *)
LinearHistory ==
  \A v \in 1..Latest :
    \E i \in Merged : request[i].resulted_in = v /\ request[i].applied_to = v - 1

(* What was applied is what the request still shows as proposed.           *)
MergedAsProposed == \A i \in Merged : request[i].applied = request[i].original

(* A skolem IRI gets one permanent identifier ever: /identifier-map/ has   *)
(* one answer for it (deskolemize, identifier.py:165-170).                 *)
SkolemsMappedOnce ==
  \A i, j \in Merged :
    i # j => Skolems \cap DOMAIN request[i].identifier_map
                    \cap DOMAIN request[j].identifier_map = {}

(* An editor who was told 204 can count on it: the merge is on record.     *)
AcknowledgedMergesLast ==
  \A w \in Workers :
    worker[w].call = "merge" /\ worker[w].status = 204 => worker[w].id \in Merged

(* A request that is merged or rejected never changes again.               *)
ClosedRowsFrozen ==
  [][\A i \in DOMAIN request : ~request[i].open => request'[i] = request[i]]_vars

(* The part of it that merge() tests for before it writes: "Closed patches *)
(* cannot be merged." (patching.py:215-216).                               *)
ClosedNeverMerged ==
  [][\A i \in DOMAIN request :
       ~request[i].open => request'[i].resulted_in = request[i].resulted_in]_vars

(* A PUT that is answered 200 has stored the patch it was sent.            *)
UpdatesAreStored ==
  [][\A w \in Workers :
       LET job == worker[w]
       IN /\ job.call = "update"
          /\ job.pc # "done" /\ worker'[w].pc = "done" /\ worker'[w].status = 200
          => request'[job.id].original = job.patch]_vars
=============================================================================
