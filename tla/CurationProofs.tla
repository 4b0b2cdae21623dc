--------------------------- MODULE CurationProofs ---------------------------
(***************************************************************************)
(* Theorems about Patching when reviews do not overlap (SerialReview), for *)
(* any number of workers, users, requests, versions and patches: the       *)
(* history is a chain, and the handlers implement Curation.                *)
(***************************************************************************)
EXTENDS PatchingProofs, PatchingCuration

-----------------------------------------------------------------------------
(* What a review has read is still so when it writes.                      *)

ReviewPoints ==
  {"validate", "write", "dataset", "idmap", "mint", "commit", "purge", "close"}

MappedIn(r) == UNION {DOMAIN r[i].identifier_map : i \in {k \in DOMAIN r : r[k].merged}}

JobOK(job, d, r) ==
  /\ job.pc # "done" => job.status = 0
  /\ job.pc \in {"dataset", "idmap", "mint", "commit", "purge"} => job.call = "merge"
  /\ job.pc \in {"validate", "write"} => job.call = "update"
  /\ job.pc = "close" => job.call = "reject"
  /\ job.pc \in {"insert", "validate", "write"} => job.patch \in Patches
  /\ job.pc = "insert" => Applicable(job.patch, d[job.base])
  /\ job.pc \in ReviewPoints \ {"purge"} => r[job.id].open /\ ~r[job.id].merged
  /\ job.pc \in {"write", "idmap", "mint", "commit"} => job.base = Len(d)
  /\ job.pc \in {"write", "mint", "commit"} => Applicable(job.patch, d[job.base])
  /\ job.pc \in {"dataset", "idmap", "mint", "commit"} => job.patch = r[job.id].original
  /\ job.pc \in {"mint", "commit"} => ~AlreadyMapped(job.patch, MappedIn(r))
  /\ job.pc = "commit" => job.ids \in Assignments(job.patch, DOMAIN d[job.base])
  /\ job.pc = "purge" \/ (job.call = "merge" /\ job.status = 204) =>
       job.id \in 1..Len(r) /\ r[job.id].merged

OneReview ==
  \A x, y \in Workers :
    worker[x].pc \in ReviewPoints /\ worker[y].pc \in ReviewPoints => x = y

ReviewsOK == OneReview /\ \A w \in Workers : JobOK(worker[w], dataset, request)

(* A worker that answers has nothing left but its answer.                  *)
LEMMA AnswersAreOK ==
  ASSUME NEW job \in Jobs, NEW code \in Nat, NEW d, NEW r,
         job.call = "merge" /\ code = 204 => job.id \in 1..Len(r) /\ r[job.id].merged
  PROVE  /\ JobOK(Answered(job, code), d, r)
         /\ Answered(job, code).pc \notin ReviewPoints
<1>1. /\ Answered(job, code).pc = "done" /\ Answered(job, code).call = job.call
      /\ Answered(job, code).status = code /\ Answered(job, code).id = job.id
  BY DEF Answered, Jobs
<1> QED BY <1>1 DEF JobOK, ReviewPoints

(* A step that leaves both tables alone, and starts no second review.      *)
LEMMA LocalStepKeepsReviews ==
  ASSUME TypeOK, ReviewsOK, UNCHANGED <<dataset, request>>,
         NEW w \in Workers, NEW job, Begin(w, job), JobOK(job, dataset, request),
         job.pc \in ReviewPoints =>
           \/ worker[w].pc \in ReviewPoints
           \/ \A x \in Workers : worker[x].pc \notin ReviewPoints
  PROVE  ReviewsOK'
<1>1. /\ worker'[w] = job
      /\ \A x \in Workers \ {w} : worker'[x] = worker[x]
  BY DEF TypeOK, Begin
<1>2. OneReview'
  BY <1>1 DEF ReviewsOK, OneReview
<1>3. \A x \in Workers : JobOK(worker'[x], dataset', request')
  <2> SUFFICES ASSUME NEW x \in Workers
               PROVE  JobOK(worker'[x], dataset, request)
    OBVIOUS
  <2>1. CASE x = w
    BY <1>1, <2>1
  <2>2. CASE x # w
    BY <1>1, <2>2 DEF ReviewsOK
  <2> QED BY <2>1, <2>2
<1> QED BY <1>2, <1>3 DEF ReviewsOK

(* The write of a review: no other worker is in a review, and what the     *)
(* others hold is only added to.                                           *)
LEMMA WriteKeepsReviews ==
  ASSUME TypeOK, ReviewsOK, NEW w \in Workers, worker[w].pc \in ReviewPoints,
         NEW job, Begin(w, job), JobOK(job, dataset', request'),
         \A v \in 1..Len(dataset) : dataset'[v] = dataset[v],
         Len(request') = Len(request),
         \A i \in Merged : i \in Merged'
  PROVE  ReviewsOK'
<1>1. /\ worker'[w] = job
      /\ \A x \in Workers \ {w} : worker'[x] = worker[x]
  BY DEF TypeOK, Begin
<1>2. OneReview'
  BY <1>1 DEF ReviewsOK, OneReview
<1>3. ASSUME NEW x \in Workers \ {w}
      PROVE  JobOK(worker[x], dataset', request')
  <2> DEFINE j == worker[x]
  <2>1. j.pc \notin ReviewPoints /\ JobOK(j, dataset, request)
    BY DEF ReviewsOK, OneReview
  <2>2. j.pc = "insert" => j.base \in 1..Len(dataset)
    BY DEF TypeOK, LocalsOK, HoldingBase
  <2>3. j.pc = "insert" => Applicable(j.patch, dataset'[j.base])
    BY <2>1, <2>2 DEF JobOK
  <2>4. \A i \in 1..Len(request) : request[i].merged => request'[i].merged
    BY DEF Merged, TypeOK
  <2> QED BY <2>1, <2>3, <2>4 DEF JobOK, ReviewPoints
<1>4. \A x \in Workers : JobOK(worker'[x], dataset', request')
  <2> SUFFICES ASSUME NEW x \in Workers
               PROVE  JobOK(worker'[x], dataset', request')
    OBVIOUS
  <2>1. CASE x = w
    BY <1>1, <2>1
  <2>2. CASE x # w
    BY <1>1, <1>3, <2>2
  <2> QED BY <2>1, <2>2
<1> QED BY <1>2, <1>4 DEF ReviewsOK

LEMMA AnswerKeepsReviews ==
  ASSUME TypeOK, ReviewsOK, UNCHANGED <<dataset, request>>,
         NEW w \in Workers, NEW job \in Jobs, NEW code \in Nat,
         job.call = "merge" /\ code = 204 =>
           job.id \in 1..Len(request) /\ request[job.id].merged,
         Begin(w, Answered(job, code))
  PROVE  ReviewsOK'
BY AnswersAreOK, LocalStepKeepsReviews

LEMMA HandlingStarts ==
  ASSUME NEW name \in Calls, NEW u \in Users, NEW i \in (1..MaxRequests) \cup {Null}
  PROVE  /\ Handling(name, u, i) \in Jobs
         /\ Handling(name, u, i).call = name /\ Handling(name, u, i).user = u
         /\ Handling(name, u, i).id = i /\ Handling(name, u, i).status = 0
<1>1. Handling(name, u, i) \in Jobs
  BY HandlingIsAJob
<1> QED BY <1>1 DEF Handling, Idle

(* What SerialReview says of a worker that starts a review.                *)
LEMMA NoOtherReview ==
  ASSUME SerialReview, MayReview, ReviewsOK
  PROVE  \A x \in Workers : worker[x].pc \notin ReviewPoints
<1> SUFFICES ASSUME NEW x \in Workers, worker[x].pc \in ReviewPoints
             PROVE  FALSE
  OBVIOUS
<1>1. worker[x].call \in {"update", "merge", "reject"} /\ worker[x].pc # "done"
  BY DEF ReviewsOK, JobOK, ReviewPoints
<1>2. x \in Busy("update") \cup Busy("merge") \cup Busy("reject")
  BY <1>1 DEF Busy, At
<1> QED BY <1>2 DEF MayReview

(* The newest version is a row of the table, and so is what a worker holds. *)
LEMMA LatestIsARow ==
  ASSUME TypeOK
  PROVE  /\ Latest \in Nat /\ Latest \in 1..Len(dataset) /\ Latest = Len(dataset)
         /\ Version(Latest) = dataset[Latest]
         /\ \A v \in 1..Len(dataset) : Version(v) = dataset[v]
         /\ MappedSkolems = MappedIn(request)
<1>1. Latest \in Nat /\ Latest >= 1 /\ Latest = Len(dataset)
  BY DEF TypeOK, Latest
<1>2. MappedSkolems = MappedIn(request)
  BY DEF MappedSkolems, MappedIn, Merged
<1> QED BY <1>1, <1>2 DEF Version, VersionIn

(* create_request() interferes with no review: it adds a row.              *)
LEMMA CreateKeepsReviews ==
  ASSUME TypeOK, ReviewsOK, NEW w \in Workers, Create(w)
  PROVE  ReviewsOK'
<1>1. ASSUME NEW u \in Users, NEW p \in Patches, CreateRead(w, u, p)
      PROVE  ReviewsOK'
  <2> DEFINE job == Handling("create", u, Null)
             next == [job EXCEPT !.pc = "insert", !.patch = p, !.base = Latest]
  <2>1. job \in Jobs /\ job.call = "create" /\ job.status = 0
    <3>1. "create" \in Calls /\ Null \in (1..MaxRequests) \cup {Null}
      BY DEF Calls
    <3>2. job \in Jobs
      BY <3>1, HandlingStarts
    <3>3. job.call = "create" /\ job.status = 0
      BY DEF Handling, Idle
    <3> QED BY <3>2, <3>3
  <2>2. /\ \/ Applicable(p, dataset[Latest]) /\ Begin(w, next)
           \/ Begin(w, Answered(job, 400))
        /\ UNCHANGED <<dataset, request>>
    BY <1>1, LatestIsARow DEF CreateRead
  <2> HIDE DEF job
  <2>3. /\ next.pc = "insert" /\ next.patch = p /\ next.base = Latest
        /\ next.call = "create" /\ next.status = 0
    BY <2>1 DEF Jobs
  <2> HIDE DEF next
  <2>4. Applicable(p, dataset[Latest]) => JobOK(next, dataset, request)
    BY <2>3 DEF JobOK, ReviewPoints
  <2>5. next.pc \notin ReviewPoints
    BY <2>3 DEF ReviewPoints
  <2>6. CASE Applicable(p, dataset[Latest]) /\ Begin(w, next)
    BY <2>2, <2>4, <2>5, <2>6, LocalStepKeepsReviews
  <2>7. CASE Begin(w, Answered(job, 400))
    BY <2>1, <2>2, <2>7, AnswerKeepsReviews
  <2> QED BY <2>2, <2>6, <2>7
<1>2. ASSUME CreateInsert(w)
      PROVE  ReviewsOK'
  <2> DEFINE row == NewRow(worker[w].user, worker[w].base, worker[w].patch)
             job == Answered(worker[w], 202)
  <2>1. /\ request' = Append(request, row) /\ dataset' = dataset /\ request \in Seq(Rows)
        /\ worker[w] \in Jobs /\ Begin(w, job)
    BY <1>2 DEF CreateInsert, TypeOK, Answer, Begin
  <2>2. row.merged = FALSE
    BY DEF NewRow
  <2> HIDE DEF row
  <2>3. MappedIn(request') = MappedIn(request)
    BY <2>1, <2>2 DEF MappedIn
  <2>4. \A i \in 1..Len(request) : request'[i] = request[i] /\ i \in 1..Len(request')
    BY <2>1
  <2>5. JobOK(job, dataset', request') /\ job.pc \notin ReviewPoints
    <3>1. 202 \in Nat /\ 202 # 204
      OBVIOUS
    <3> QED BY <2>1, <3>1, AnswersAreOK
  <2> HIDE DEF job
  <2>6. /\ worker'[w] = job
        /\ \A x \in Workers \ {w} : worker'[x] = worker[x]
    BY <2>1 DEF TypeOK, Begin
  <2>7. OneReview'
    BY <2>5, <2>6 DEF ReviewsOK, OneReview
  <2>8. ASSUME NEW x \in Workers, x # w
        PROVE  JobOK(worker[x], dataset', request')
    <3>1. JobOK(worker[x], dataset, request)
      BY DEF ReviewsOK
    <3>2. worker[x].pc \in ReviewPoints \ {"purge"} => worker[x].id \in 1..Len(request)
      BY DEF TypeOK, LocalsOK, HoldingRequest, ReviewPoints
    <3>3. worker[x].pc \in ReviewPoints \ {"purge"} =>
            request'[worker[x].id] = request[worker[x].id]
      BY <3>2, <2>4
    <3>4. worker[x].id \in 1..Len(request) =>
            /\ worker[x].id \in 1..Len(request')
            /\ request'[worker[x].id] = request[worker[x].id]
      BY <2>4
    <3> HIDE DEF row, job
    <3> QED BY <3>1, <3>3, <3>4, <2>1, <2>3, ZenonT(60) DEF JobOK, ReviewPoints
  <2>9. ASSUME NEW x \in Workers
        PROVE  JobOK(worker'[x], dataset', request')
    BY <2>5, <2>6, <2>8
  <2> QED BY <2>7, <2>9 DEF ReviewsOK
<1> QED BY <1>1, <1>2 DEF Create

(* update_request() writes to a request that is still open.                *)
LEMMA UpdateKeepsReviews ==
  ASSUME SerialReview, TypeOK, RecordsOK, ReviewsOK, NEW w \in Workers, Update(w)
  PROVE  ReviewsOK'
<1>1. ASSUME NEW u \in Users, NEW i \in 1..MaxRequests, NEW p \in Patches,
             UpdateAuthorize(w, u, i, p)
      PROVE  ReviewsOK'
  <2> DEFINE job == Handling("update", u, i)
             next == [job EXCEPT !.pc = "validate", !.patch = p]
  <2>1. job \in Jobs /\ job.call = "update" /\ job.id = i /\ job.status = 0
    <3>1. "update" \in Calls
      BY DEF Calls
    <3> QED BY <3>1, HandlingStarts
  <2>2. /\ \/ MayUpdate(u, i) /\ Begin(w, next)
           \/ Begin(w, Answered(job, 403))
        /\ UNCHANGED <<dataset, request>> /\ MayReview
    BY <1>1 DEF UpdateAuthorize
  <2> HIDE DEF job
  <2>3. /\ next.pc = "validate" /\ next.patch = p /\ next.id = i
        /\ next.call = "update" /\ next.status = 0
    BY <2>1 DEF Jobs
  <2> HIDE DEF next
  <2>4. CASE MayUpdate(u, i) /\ Begin(w, next)
    <3>1. request[i].open /\ ~request[i].merged
      BY <2>4 DEF MayUpdate, RecordsOK, MergedRowsExplainVersions, Merged
    <3>2. JobOK(next, dataset, request)
      BY <2>3, <3>1 DEF JobOK
    <3> QED BY <2>2, <2>4, <3>2, NoOtherReview, LocalStepKeepsReviews
  <2>5. CASE Begin(w, Answered(job, 403))
    BY <2>1, <2>2, <2>5, AnswerKeepsReviews
  <2> QED BY <2>2, <2>4, <2>5
<1>2. ASSUME UpdateRead(w)
      PROVE  ReviewsOK'
  <2> DEFINE next == [worker[w] EXCEPT !.pc = "write", !.base = Latest]
  <2>1. /\ worker[w].pc = "validate" /\ worker[w] \in Jobs
        /\ JobOK(worker[w], dataset, request)
    BY <1>2 DEF UpdateRead, At, TypeOK, ReviewsOK
  <2>2. /\ \/ Applicable(worker[w].patch, dataset[Latest]) /\ Begin(w, next)
           \/ Begin(w, Answered(worker[w], 400))
           \/ Begin(w, Answered(worker[w], 200))
        /\ UNCHANGED <<dataset, request>>
    BY <1>2, LatestIsARow DEF UpdateRead, Answer, Begin
  <2>3. /\ next.pc = "write" /\ next.patch = worker[w].patch /\ next.id = worker[w].id
        /\ next.base = Latest /\ next.call = worker[w].call /\ next.status = worker[w].status
    BY <2>1 DEF Jobs
  <2>4. worker[w].call = "update" /\ worker[w].pc \in ReviewPoints
    BY <2>1 DEF JobOK, ReviewPoints
  <2> HIDE DEF next
  <2>5. CASE Applicable(worker[w].patch, dataset[Latest]) /\ Begin(w, next)
    <3>1. JobOK(next, dataset, request)
      BY <2>1, <2>3, <2>5, LatestIsARow DEF JobOK, ReviewPoints
    <3> QED BY <2>2, <2>4, <2>5, <3>1, LocalStepKeepsReviews
  <2>6. ASSUME NEW code \in {200, 400}, Begin(w, Answered(worker[w], code))
        PROVE  ReviewsOK'
    BY <2>1, <2>2, <2>4, <2>6, AnswerKeepsReviews
  <2> QED BY <2>2, <2>5, <2>6
<1>3. ASSUME UpdateWrite(w)
      PROVE  ReviewsOK'
  <2> DEFINE i == worker[w].id
             row == RevisedRow(request[i], worker[w].user, worker[w].base, worker[w].patch)
             job == Answered(worker[w], 200)
  <2>1. /\ worker[w].pc = "write" /\ worker[w] \in Jobs /\ i \in 1..Len(request)
        /\ JobOK(worker[w], dataset, request)
    BY <1>3 DEF UpdateWrite, At, TypeOK, ReviewsOK, LocalsOK, HoldingRequest
  <2>2. /\ request' = [request EXCEPT ![i] = row] /\ Begin(w, job)
        /\ dataset' = dataset /\ request \in Seq(Rows)
    BY <1>3 DEF UpdateWrite, Answer, Begin, TypeOK
  <2>3. worker[w].pc \in ReviewPoints /\ worker[w].call = "update"
    BY <2>1 DEF JobOK, ReviewPoints
  <2>4. JobOK(job, dataset', request')
    BY <2>1, <2>3, AnswersAreOK
  <2>5. row.merged = request[i].merged
    <3>1. request[i] \in Rows
      BY <2>1, <2>2
    <3> QED BY <3>1 DEF RevisedRow, Rows
  <2> HIDE DEF row, job, i
  <2>6. Len(request') = Len(request) /\ \A k \in Merged : k \in Merged'
    BY <2>1, <2>2, <2>5 DEF Merged
  <2> QED BY <2>2, <2>3, <2>4, <2>6, WriteKeepsReviews
<1> QED BY <1>1, <1>2, <1>3 DEF Update

(* reject() closes a request that is still open.                           *)
LEMMA RejectKeepsReviews ==
  ASSUME SerialReview, TypeOK, ReviewsOK, NEW w \in Workers, Reject(w)
  PROVE  ReviewsOK'
<1>1. ASSUME NEW u \in Editors, NEW i \in 1..MaxRequests, RejectRead(w, u, i)
      PROVE  ReviewsOK'
  <2> DEFINE job == Handling("reject", u, i)
             next == [job EXCEPT !.pc = "close"]
  <2>1. job \in Jobs /\ job.call = "reject" /\ job.id = i /\ job.status = 0
    <3>1. "reject" \in Calls /\ u \in Users
      BY UserAssumption DEF Calls
    <3> QED BY <3>1, HandlingStarts
  <2>2. /\ \/ Reviewable(i) /\ Begin(w, next)
           \/ Begin(w, Answered(job, 404))
        /\ UNCHANGED <<dataset, request>> /\ MayReview
    BY <1>1 DEF RejectRead
  <2> HIDE DEF job
  <2>3. next.pc = "close" /\ next.id = i /\ next.call = "reject" /\ next.status = 0
    BY <2>1 DEF Jobs
  <2> HIDE DEF next
  <2>4. CASE Reviewable(i) /\ Begin(w, next)
    <3>1. JobOK(next, dataset, request)
      BY <2>3, <2>4 DEF JobOK, Reviewable
    <3> QED BY <2>2, <2>4, <3>1, NoOtherReview, LocalStepKeepsReviews
  <2>5. CASE Begin(w, Answered(job, 404))
    BY <2>1, <2>2, <2>5, AnswerKeepsReviews
  <2> QED BY <2>2, <2>4, <2>5
<1>2. ASSUME RejectWrite(w)
      PROVE  ReviewsOK'
  <2> DEFINE i == worker[w].id
             row == RejectedRow(request[i], worker[w].user)
             job == Answered(worker[w], 204)
  <2>1. /\ worker[w].pc = "close" /\ worker[w] \in Jobs /\ i \in 1..Len(request)
        /\ JobOK(worker[w], dataset, request)
    BY <1>2 DEF RejectWrite, At, TypeOK, ReviewsOK, LocalsOK, HoldingRequest
  <2>2. /\ request' = [request EXCEPT ![i] = row] /\ Begin(w, job)
        /\ dataset' = dataset /\ request \in Seq(Rows)
    BY <1>2 DEF RejectWrite, Answer, Begin, TypeOK
  <2>3. worker[w].pc \in ReviewPoints /\ worker[w].call = "reject" /\ ~request[i].merged
    BY <2>1 DEF JobOK, ReviewPoints
  <2>4. JobOK(job, dataset', request')
    BY <2>1, <2>3, AnswersAreOK
  <2> HIDE DEF row, job, i
  <2>5. Len(request') = Len(request) /\ \A k \in Merged : k \in Merged'
    BY <2>1, <2>2, <2>3 DEF Merged
  <2> QED BY <2>2, <2>3, <2>4, <2>5, WriteKeepsReviews
<1> QED BY <1>1, <1>2 DEF Reject

(* merge() reads the newest version, and it is still the newest when the   *)
(* transaction comes; so are the request and the identifier map.           *)
LEMMA MergeKeepsReviews ==
  ASSUME SerialReview, TypeOK, ReviewsOK, NEW w \in Workers, Merge(w)
  PROVE  ReviewsOK'
<1>0. /\ worker[w] \in Jobs /\ JobOK(worker[w], dataset, request)
      /\ LocalsOK(worker[w], dataset, request)
  BY DEF TypeOK, ReviewsOK
<1>1. ASSUME NEW u \in Editors, NEW i \in 1..MaxRequests, MergeRead(w, u, i)
      PROVE  ReviewsOK'
  <2> DEFINE job == Handling("merge", u, i)
             next == [job EXCEPT !.pc = "dataset", !.patch = request[i].original]
  <2>1. job \in Jobs /\ job.call = "merge" /\ job.id = i /\ job.status = 0
    <3>1. "merge" \in Calls /\ u \in Users
      BY UserAssumption DEF Calls
    <3> QED BY <3>1, HandlingStarts
  <2>2. /\ \/ Reviewable(i) /\ Begin(w, next)
           \/ Begin(w, Answered(job, 404))
        /\ UNCHANGED <<dataset, request>> /\ MayReview
    BY <1>1 DEF MergeRead
  <2> HIDE DEF job
  <2>3. /\ next.pc = "dataset" /\ next.id = i /\ next.call = "merge" /\ next.status = 0
        /\ next.patch = request[i].original
    BY <2>1 DEF Jobs
  <2> HIDE DEF next
  <2>4. CASE Reviewable(i) /\ Begin(w, next)
    <3>1. JobOK(next, dataset, request)
      BY <2>3, <2>4 DEF JobOK, Reviewable
    <3> QED BY <2>2, <2>4, <3>1, NoOtherReview, LocalStepKeepsReviews
  <2>5. CASE Begin(w, Answered(job, 404))
    BY <2>1, <2>2, <2>5, AnswerKeepsReviews
  <2> QED BY <2>2, <2>4, <2>5
<1>2. ASSUME MergeDataset(w)
      PROVE  ReviewsOK'
  <2> DEFINE next == [worker[w] EXCEPT !.pc = "idmap", !.base = Latest]
  <2>1. worker[w].pc = "dataset" /\ Begin(w, next) /\ UNCHANGED <<dataset, request>>
    BY <1>2 DEF MergeDataset, At
  <2>2. /\ next.pc = "idmap" /\ next.patch = worker[w].patch /\ next.id = worker[w].id
        /\ next.base = Latest /\ next.call = worker[w].call /\ next.status = worker[w].status
    BY <1>0 DEF Jobs
  <2> HIDE DEF next
  <2>3. JobOK(next, dataset, request) /\ worker[w].pc \in ReviewPoints
    BY <1>0, <2>1, <2>2, LatestIsARow DEF JobOK, ReviewPoints
  <2> QED BY <2>1, <2>3, LocalStepKeepsReviews
<1>3. ASSUME Answer(w, 400), UNCHANGED <<dataset, request>>
      PROVE  ReviewsOK'
  <2>1. Begin(w, Answered(worker[w], 400))
    BY <1>3 DEF Answer, Begin
  <2> QED BY <1>0, <1>3, <2>1, AnswerKeepsReviews
<1>4. ASSUME MergeIdMap(w)
      PROVE  ReviewsOK'
  <2> DEFINE next == [worker[w] EXCEPT !.pc = "mint"]
  <2>1. /\ worker[w].pc = "idmap" /\ UNCHANGED <<dataset, request>>
        /\ \/ Mergeable(worker[w]) /\ Begin(w, next)
           \/ Answer(w, 400)
    BY <1>4 DEF MergeIdMap, At
  <2>2. /\ next.pc = "mint" /\ next.patch = worker[w].patch /\ next.id = worker[w].id
        /\ next.base = worker[w].base /\ next.call = worker[w].call
        /\ next.status = worker[w].status
    BY <1>0 DEF Jobs
  <2>3. worker[w].base = Latest /\ worker[w].pc \in ReviewPoints
    BY <1>0, <2>1, LatestIsARow DEF JobOK, ReviewPoints
  <2> HIDE DEF next
  <2>4. CASE Mergeable(worker[w]) /\ Begin(w, next)
    <3>1. /\ Applicable(worker[w].patch, dataset[worker[w].base])
          /\ ~AlreadyMapped(worker[w].patch, MappedIn(request))
      BY <2>3, <2>4, LatestIsARow DEF Mergeable
    <3>2. JobOK(next, dataset, request)
      BY <1>0, <2>1, <2>2, <3>1 DEF JobOK, ReviewPoints
    <3> QED BY <2>1, <2>3, <2>4, <3>2, LocalStepKeepsReviews
  <2> QED BY <1>3, <2>1, <2>3, <2>4
<1>5. ASSUME MergeMint(w)
      PROVE  ReviewsOK'
  <2> DEFINE p == worker[w].patch
             existing == ExistingIds(Version(worker[w].base), RemovedKeys)
  <2>1. worker[w].pc = "mint" /\ UNCHANGED <<dataset, request>>
    BY <1>5 DEF MergeMint, At
  <2>2. /\ worker[w].base = Latest /\ worker[w].pc \in ReviewPoints
        /\ Version(worker[w].base) = dataset[worker[w].base]
    BY <1>0, <2>1, LatestIsARow DEF JobOK, ReviewPoints
  <2>3. ASSUME NEW ids \in Assignments(p, existing),
               Begin(w, [worker[w] EXCEPT !.pc = "commit", !.ids = ids])
        PROVE  ReviewsOK'
    <3> DEFINE next == [worker[w] EXCEPT !.pc = "commit", !.ids = ids]
    <3>1. DOMAIN dataset[worker[w].base] \subseteq existing
      BY <2>2 DEF ExistingIds
    <3>2. ids \in Assignments(p, DOMAIN dataset[worker[w].base])
      BY <3>1 DEF Assignments
    <3>3. /\ next.pc = "commit" /\ next.patch = p /\ next.id = worker[w].id
          /\ next.base = worker[w].base /\ next.call = worker[w].call
          /\ next.status = worker[w].status /\ next.ids = ids
      BY <1>0 DEF Jobs
    <3>4. Begin(w, next)
      BY <2>3
    <3> HIDE DEF next, existing
    <3>5. JobOK(next, dataset, request)
      BY <1>0, <2>1, <3>2, <3>3 DEF JobOK, ReviewPoints
    <3> QED BY <2>1, <2>2, <3>4, <3>5, LocalStepKeepsReviews
  <2> QED BY <1>3, <1>5, <2>1, <2>2, <2>3 DEF MergeMint
<1>6. ASSUME MergeCommit(w)
      PROVE  ReviewsOK'
  <2> DEFINE j == worker[w]
             data == Apply(j.patch, j.ids, Version(j.base))
             row == MergedRow(request[j.id], j.user, j.base, j.patch, j.ids, Latest + 1)
             next == [j EXCEPT !.pc = "purge", !.patch = NoPatch, !.base = Null, !.ids = NoIds]
  <2>1. j.pc = "commit" /\ j.id \in 1..Len(request)
    BY <1>0, <1>6 DEF MergeCommit, At, LocalsOK, HoldingRequest
  <2>2. /\ dataset' = Append(dataset, data) /\ request' = [request EXCEPT ![j.id] = row]
        /\ Begin(w, next) /\ request \in Seq(Rows) /\ dataset \in Seq(Data)
    BY <1>6 DEF MergeCommit, NewVersionId, TypeOK
  <2>3. next.pc = "purge" /\ next.id = j.id /\ next.call = "merge" /\ next.status = 0
    BY <1>0, <2>1 DEF Jobs, JobOK
  <2>4. row.merged = TRUE
    <3>1. request[j.id] \in Rows
      BY <2>1, <2>2
    <3> QED BY <3>1 DEF MergedRow, Rows
  <2>5. j.pc \in ReviewPoints
    BY <2>1 DEF ReviewPoints
  <2> HIDE DEF row, next, data
  <2>6. /\ Len(request') = Len(request) /\ request'[j.id].merged
        /\ \A k \in Merged : k \in Merged'
    BY <2>1, <2>2, <2>4 DEF Merged
  <2>7. \A v \in 1..Len(dataset) : dataset'[v] = dataset[v]
    BY <2>2
  <2>8. JobOK(next, dataset', request')
    BY <2>1, <2>3, <2>6 DEF JobOK, ReviewPoints
  <2> QED BY <2>2, <2>5, <2>6, <2>7, <2>8, WriteKeepsReviews
<1>7. ASSUME MergePurge(w)
      PROVE  ReviewsOK'
  <2>1. /\ worker[w].pc = "purge" /\ UNCHANGED <<dataset, request>>
        /\ Begin(w, Answered(worker[w], 204))
    BY <1>7 DEF MergePurge, At, Answer, Begin
  <2>2. worker[w].id \in 1..Len(request) /\ request[worker[w].id].merged
    BY <1>0, <2>1 DEF JobOK
  <2> QED BY <1>0, <2>1, <2>2, AnswerKeepsReviews
<1> QED BY <1>1, <1>2, <1>4, <1>5, <1>6, <1>7 DEF Merge

LEMMA InitReviews == Init => ReviewsOK
<1> SUFFICES ASSUME Init PROVE ReviewsOK
  OBVIOUS
<1>1. \A w \in Workers : worker[w] = Idle
  BY DEF Init
<1>2. Idle.pc = "idle" /\ Idle.status = 0 /\ Idle.call = "none"
  BY DEF Idle
<1>3. JobOK(Idle, dataset, request)
  BY <1>2 DEF JobOK, ReviewPoints
<1> QED BY <1>1, <1>2, <1>3 DEF ReviewsOK, OneReview, ReviewPoints

LEMMA NextKeepsReviews ==
  ASSUME SerialReview, TypeOK, RecordsOK, ReviewsOK, [Next]_vars
  PROVE  ReviewsOK'
<1>1. ASSUME NEW w \in Workers, Fail(w) PROVE ReviewsOK'
  <2>1. worker[w] \in Jobs /\ Begin(w, Answered(worker[w], 500))
    BY <1>1 DEF Fail, TypeOK, Answer, Begin
  <2> QED BY <1>1, <2>1, AnswerKeepsReviews DEF Fail
<1>2. ASSUME NEW w \in Workers, Done(w) PROVE ReviewsOK'
  <2>1. Idle.pc = "idle" /\ Idle.status = 0 /\ Idle.call = "none"
    BY DEF Idle
  <2>2. JobOK(Idle, dataset, request) /\ Idle.pc \notin ReviewPoints
    BY <2>1 DEF JobOK, ReviewPoints
  <2> QED BY <1>2, <2>2, LocalStepKeepsReviews DEF Done
<1>3. CASE UNCHANGED vars
  BY <1>3 DEF vars, ReviewsOK, OneReview
<1> QED
  BY <1>1, <1>2, <1>3, CreateKeepsReviews, UpdateKeepsReviews, MergeKeepsReviews,
     RejectKeepsReviews DEF Next

(* At most one review is under way, and what it has read is still so.      *)
LEMMA ReviewsAreKept ==
  ASSUME SerialReview
  PROVE  Spec => []ReviewsOK
<1>1. TypeOK /\ RecordsOK /\ ReviewsOK /\ [Next]_vars => ReviewsOK'
  BY NextKeepsReviews
<1> QED BY <1>1, InitReviews, TypesAreKept, RecordsAreKept, PTL DEF Spec

(* An editor who was told 204 can count on it (PatchMerge.post).           *)
THEOREM MergesLast ==
  ASSUME SerialReview
  PROVE  Spec => []AcknowledgedMergesLast
<1>1. ReviewsOK /\ TypeOK => AcknowledgedMergesLast
  BY DEF ReviewsOK, JobOK, AcknowledgedMergesLast, Merged, TypeOK
<1> QED BY <1>1, ReviewsAreKept, TypesAreKept, PTL

-----------------------------------------------------------------------------
(* What each step does to the tables, when reviews do not overlap.         *)

LEMMA StepKinds ==
  ASSUME [Next]_vars
  PROVE  \/ UNCHANGED <<dataset, request>>
         \/ \E w \in Workers :
              CreateInsert(w) \/ UpdateWrite(w) \/ MergeCommit(w) \/ RejectWrite(w)
<1>1. CASE UNCHANGED vars
  BY <1>1 DEF vars
<1>2. ASSUME NEW w \in Workers, Create(w)
      PROVE  UNCHANGED <<dataset, request>> \/ CreateInsert(w)
  BY <1>2 DEF Create, CreateRead
<1>3. ASSUME NEW w \in Workers, Update(w)
      PROVE  UNCHANGED <<dataset, request>> \/ UpdateWrite(w)
  BY <1>3 DEF Update, UpdateAuthorize, UpdateRead
<1>4. ASSUME NEW w \in Workers, Merge(w)
      PROVE  UNCHANGED <<dataset, request>> \/ MergeCommit(w)
  BY <1>4 DEF Merge, MergeRead, MergeDataset, MergeIdMap, MergeMint, MergePurge
<1>5. ASSUME NEW w \in Workers, Reject(w)
      PROVE  UNCHANGED <<dataset, request>> \/ RejectWrite(w)
  BY <1>5 DEF Reject, RejectRead
<1>6. ASSUME NEW w \in Workers, Fail(w) \/ Done(w)
      PROVE  UNCHANGED <<dataset, request>>
  BY <1>6 DEF Fail, Done
<1> QED BY <1>1, <1>2, <1>3, <1>4, <1>5, <1>6 DEF Next

LEMMA CreateEffect ==
  ASSUME TypeOK, ReviewsOK, NEW w \in Workers, CreateInsert(w)
  PROVE  \E p \in Patches, v \in 1..Latest, row \in Rows :
           /\ Applicable(p, dataset[v])
           /\ row.open = TRUE /\ row.merged = FALSE /\ row.original = p
           /\ request' = Append(request, row) /\ dataset' = dataset
<1> DEFINE p == worker[w].patch
           v == worker[w].base
           row == NewRow(worker[w].user, v, p)
<1>1. /\ worker[w].pc = "insert" /\ LocalsOK(worker[w], dataset, request)
      /\ JobOK(worker[w], dataset, request)
  BY DEF CreateInsert, At, TypeOK, ReviewsOK
<1>2. p \in Patches /\ v \in 1..Latest /\ Applicable(p, dataset[v])
  BY <1>1 DEF LocalsOK, JobOK, HoldingBase, Latest
<1>3. row \in Rows
  <2>1. v \in Nat /\ worker[w].user \in Users /\ p \in AllPatches
    BY <1>1, <1>2 DEF LocalsOK, AllPatches, Latest
  <2> QED BY <2>1, RowsWritten
<1>4. row.open = TRUE /\ row.merged = FALSE /\ row.original = p
  BY DEF NewRow
<1>5. request' = Append(request, row) /\ dataset' = dataset
  BY DEF CreateInsert
<1> HIDE DEF p, v, row
<1> QED BY <1>2, <1>3, <1>4, <1>5

(* The row that a write of a review leaves in the place of an open one.    *)
LEMMA UpdateEffect ==
  ASSUME TypeOK, ReviewsOK, NEW w \in Workers, UpdateWrite(w)
  PROVE  \E i \in 1..Len(request), p \in Patches, row \in Rows :
           /\ request[i].open /\ ~request[i].merged
           /\ Applicable(p, dataset[Latest])
           /\ row.open = TRUE /\ row.merged = FALSE /\ row.original = p
           /\ request' = [request EXCEPT ![i] = row] /\ dataset' = dataset
<1> DEFINE i == worker[w].id
           p == worker[w].patch
           row == RevisedRow(request[i], worker[w].user, worker[w].base, p)
<1>1. /\ worker[w].pc = "write" /\ LocalsOK(worker[w], dataset, request)
      /\ JobOK(worker[w], dataset, request)
  BY DEF UpdateWrite, At, TypeOK, ReviewsOK
<1>2. /\ i \in 1..Len(request) /\ p \in Patches /\ worker[w].base = Latest
      /\ request[i].open /\ ~request[i].merged /\ Applicable(p, dataset[Latest])
  BY <1>1 DEF LocalsOK, JobOK, HoldingRequest, ReviewPoints, Latest
<1>3. request[i] \in Rows
  BY <1>2 DEF TypeOK
<1>4. row \in Rows
  <2>1. Latest \in Nat /\ worker[w].user \in Users /\ p \in AllPatches
    BY <1>1, <1>2, LatestIsARow DEF LocalsOK, AllPatches
  <2> QED BY <1>2, <1>3, <2>1, RowsWritten
<1>5. row.open = request[i].open /\ row.merged = request[i].merged /\ row.original = p
  BY <1>3 DEF RevisedRow, Rows
<1>6. row.open = TRUE /\ row.merged = FALSE
  BY <1>2, <1>3, <1>5 DEF Rows
<1>7. request' = [request EXCEPT ![i] = row] /\ dataset' = dataset
  BY DEF UpdateWrite
<1> HIDE DEF i, p, row
<1> QED BY <1>2, <1>4, <1>5, <1>6, <1>7

LEMMA MergeEffect ==
  ASSUME TypeOK, ReviewsOK, NEW w \in Workers, MergeCommit(w)
  PROVE  \E i \in 1..Len(request), p \in AllPatches, row \in Rows :
         \E ids \in Assignments(p, DOMAIN dataset[Latest]) :
           /\ request[i].open /\ ~request[i].merged /\ request[i].original = p
           /\ Applicable(p, dataset[Latest]) /\ Describable(p)
           /\ ~AlreadyMapped(p, MappedSkolems)
           /\ row.open = FALSE /\ row.merged = TRUE /\ row.original = p
           /\ row.applied = p /\ row.identifier_map = ids
           /\ row.applied_to = Latest /\ row.resulted_in = Latest + 1
           /\ request' = [request EXCEPT ![i] = row]
           /\ dataset' = Append(dataset, Apply(p, ids, dataset[Latest]))
<1> DEFINE i == worker[w].id
           p == worker[w].patch
           ids == worker[w].ids
           row == MergedRow(request[i], worker[w].user, Latest, p, ids, Latest + 1)
<1>1. /\ worker[w].pc = "commit" /\ LocalsOK(worker[w], dataset, request)
      /\ JobOK(worker[w], dataset, request) /\ worker[w] \in Jobs
  BY DEF MergeCommit, At, TypeOK, ReviewsOK
<1>2. /\ i \in 1..Len(request) /\ p \in AllPatches /\ worker[w].base = Latest
      /\ request[i].open /\ ~request[i].merged /\ request[i].original = p
      /\ Applicable(p, dataset[Latest]) /\ ~AlreadyMapped(p, MappedSkolems)
      /\ ids \in Assignments(p, DOMAIN dataset[Latest])
  BY <1>1, LatestIsARow DEF LocalsOK, JobOK, HoldingRequest, HoldingPatch, ReviewPoints
<1>3. request[i] \in Rows
  BY <1>2 DEF TypeOK
<1>4. row \in Rows
  <2>1. /\ Latest \in Nat /\ Latest + 1 \in Nat /\ worker[w].user \in Users
        /\ ids \in IdMaps
    BY <1>1, LatestIsARow DEF LocalsOK, Jobs
  <2> QED BY <1>2, <1>3, <2>1, RowsWritten
<1>5. /\ row.open = FALSE /\ row.merged = TRUE /\ row.original = request[i].original
      /\ row.applied = p /\ row.identifier_map = ids
      /\ row.applied_to = Latest /\ row.resulted_in = Latest + 1
  BY <1>3 DEF MergedRow, Rows
<1>6. /\ request' = [request EXCEPT ![i] = row] /\ Describable(p)
      /\ dataset' = Append(dataset, Apply(p, ids, dataset[Latest]))
  BY <1>2, LatestIsARow DEF MergeCommit, NewVersionId
<1> HIDE DEF i, p, ids, row
<1> QED BY <1>2, <1>4, <1>5, <1>6

LEMMA RejectEffect ==
  ASSUME TypeOK, ReviewsOK, NEW w \in Workers, RejectWrite(w)
  PROVE  \E i \in 1..Len(request), row \in Rows :
           /\ request[i].open /\ ~request[i].merged
           /\ row.open = FALSE /\ row.merged = FALSE
           /\ row.original = request[i].original
           /\ request' = [request EXCEPT ![i] = row] /\ dataset' = dataset
<1> DEFINE i == worker[w].id
           row == RejectedRow(request[i], worker[w].user)
<1>1. /\ worker[w].pc = "close" /\ LocalsOK(worker[w], dataset, request)
      /\ JobOK(worker[w], dataset, request)
  BY DEF RejectWrite, At, TypeOK, ReviewsOK
<1>2. /\ i \in 1..Len(request) /\ request[i].open /\ ~request[i].merged
      /\ worker[w].user \in Users
  BY <1>1 DEF LocalsOK, JobOK, HoldingRequest, ReviewPoints
<1>3. request[i] \in Rows
  BY <1>2 DEF TypeOK
<1>4. /\ row \in Rows /\ row.open = FALSE /\ row.merged = FALSE
      /\ row.original = request[i].original
  BY <1>2, <1>3 DEF RejectedRow, Rows
<1>5. request' = [request EXCEPT ![i] = row] /\ dataset' = dataset
  BY DEF RejectWrite
<1> HIDE DEF i, row
<1> QED BY <1>2, <1>4, <1>5

(* Together: which requests are merged, and what becomes of the others.    *)
LEMMA MergedOnlyGrows ==
  ASSUME TypeOK, ReviewsOK, [Next]_vars
  PROVE  /\ \A i \in 1..Len(request) : ~request[i].open => request'[i] = request[i]
         /\ Len(request') >= Len(request)
         /\ \A i \in Merged : i \in Merged' /\ request'[i] = request[i]
         /\ \/ Merged' = Merged /\ dataset' = dataset
            \/ \E i \in 1..Len(request), p \in AllPatches :
               \E ids \in Assignments(p, DOMAIN dataset[Latest]) :
                 /\ i \notin Merged /\ Merged' = Merged \cup {i}
                 /\ request'[i].applied = p /\ request'[i].original = p
                 /\ request'[i].identifier_map = ids
                 /\ ~AlreadyMapped(p, MappedSkolems)
                 /\ request'[i].applied_to = Latest /\ request'[i].resulted_in = Latest + 1
                 /\ dataset' = Append(dataset, Apply(p, ids, dataset[Latest]))
<1> USE DEF Merged
<1>1. request \in Seq(Rows)
  BY DEF TypeOK
<1>2. CASE UNCHANGED <<dataset, request>>
  BY <1>1, <1>2
<1>3. ASSUME NEW w \in Workers, CreateInsert(w)
      PROVE  /\ \A i \in 1..Len(request) : request'[i] = request[i]
             /\ Len(request') >= Len(request)
             /\ Merged' = Merged /\ dataset' = dataset
  <2>1. PICK row \in Rows :
          row.merged = FALSE /\ request' = Append(request, row) /\ dataset' = dataset
    BY <1>3, CreateEffect
  <2> QED BY <1>1, <2>1
<1>4. ASSUME NEW w \in Workers, UpdateWrite(w) \/ RejectWrite(w)
      PROVE  /\ \A i \in 1..Len(request) : ~request[i].open => request'[i] = request[i]
             /\ Len(request') >= Len(request)
             /\ \A i \in Merged : request'[i] = request[i]
             /\ Merged' = Merged /\ dataset' = dataset
  <2>1. PICK i \in 1..Len(request), row \in Rows :
          /\ request[i].open /\ ~request[i].merged /\ row.merged = FALSE
          /\ request' = [request EXCEPT ![i] = row] /\ dataset' = dataset
    BY <1>4, UpdateEffect, RejectEffect
  <2> QED BY <1>1, <2>1
<1>5. ASSUME NEW w \in Workers, MergeCommit(w)
      PROVE  /\ \A i \in 1..Len(request) : ~request[i].open => request'[i] = request[i]
             /\ Len(request') >= Len(request)
             /\ \A i \in Merged : request'[i] = request[i]
             /\ \E i \in 1..Len(request), p \in AllPatches :
                \E ids \in Assignments(p, DOMAIN dataset[Latest]) :
                  /\ i \notin Merged /\ Merged' = Merged \cup {i}
                  /\ request'[i].applied = p /\ request'[i].original = p
                  /\ request'[i].identifier_map = ids
                  /\ ~AlreadyMapped(p, MappedSkolems)
                  /\ request'[i].applied_to = Latest /\ request'[i].resulted_in = Latest + 1
                  /\ dataset' = Append(dataset, Apply(p, ids, dataset[Latest]))
  <2>1. PICK i \in 1..Len(request), p \in AllPatches, row \in Rows :
        \E ids \in Assignments(p, DOMAIN dataset[Latest]) :
          /\ request[i].open /\ ~request[i].merged
          /\ ~AlreadyMapped(p, MappedSkolems)
          /\ row.merged = TRUE /\ row.original = p
          /\ row.applied = p /\ row.identifier_map = ids
          /\ row.applied_to = Latest /\ row.resulted_in = Latest + 1
          /\ request' = [request EXCEPT ![i] = row]
          /\ dataset' = Append(dataset, Apply(p, ids, dataset[Latest]))
    BY <1>5, MergeEffect, ZenonT(60)
  <2>2. request'[i] = row /\ i \notin Merged /\ Merged' = Merged \cup {i}
    BY <1>1, <2>1
  <2>3. /\ \A k \in 1..Len(request) : ~request[k].open => request'[k] = request[k]
        /\ \A k \in Merged : request'[k] = request[k]
        /\ Len(request') >= Len(request)
    BY <1>1, <2>1
  <2> QED BY <2>1, <2>2, <2>3
<1>6. Merged \subseteq 1..Len(request)
  BY <1>1
<1> QED BY <1>2, <1>3, <1>4, <1>5, <1>6, StepKinds

-----------------------------------------------------------------------------
(* The history is a chain, and what it says was proposed was applied.      *)

ChainOK == LinearHistory /\ MergedAsProposed /\ SkolemsMappedOnce

LEMMA InitChain == Init => ChainOK
<1> SUFFICES ASSUME Init PROVE ChainOK
  OBVIOUS
<1> DEFINE ids == [e \in Initial |-> e]
           row == MergedRow(NewRow(Loader, 0, LoadPatch), Loader, 0, LoadPatch, ids, 1)
<1>1. /\ row.merged = TRUE /\ row.applied_to = 0 /\ row.resulted_in = 1
      /\ row.applied = LoadPatch /\ row.original = LoadPatch
  BY DEF MergedRow, NewRow
<1>2. request = <<row>> /\ Len(dataset) = 1
  BY DEF Init
<1> HIDE DEF row
<1>3. Merged = {1} /\ request[1] = row /\ Latest = 1
  BY <1>1, <1>2 DEF Merged, Latest
<1> QED BY <1>1, <1>3 DEF ChainOK, LinearHistory, MergedAsProposed, SkolemsMappedOnce

LEMMA NextKeepsChain ==
  ASSUME TypeOK, ReviewsOK, ChainOK, [Next]_vars
  PROVE  ChainOK'
<1>1. Latest \in Nat /\ dataset \in Seq(Data)
  BY DEF TypeOK, Latest
<1>2. \A i \in Merged : i \in Merged' /\ request'[i] = request[i]
  BY MergedOnlyGrows
<1>3. CASE Merged' = Merged /\ dataset' = dataset
  BY <1>2, <1>3 DEF ChainOK, LinearHistory, MergedAsProposed, SkolemsMappedOnce, Latest
<1>4. ASSUME NEW i \in 1..Len(request), NEW p \in AllPatches, NEW data,
             NEW ids \in Assignments(p, DOMAIN dataset[Latest]),
             i \notin Merged, Merged' = Merged \cup {i},
             request'[i].applied = p, request'[i].original = p,
             request'[i].identifier_map = ids, ~AlreadyMapped(p, MappedSkolems),
             request'[i].applied_to = Latest, request'[i].resulted_in = Latest + 1,
             dataset' = Append(dataset, data)
      PROVE  ChainOK'
  <2>1. Latest' = Latest + 1
    BY <1>1, <1>4 DEF Latest
  <2>2. LinearHistory'
    <3> SUFFICES ASSUME NEW v \in 1..Latest'
                 PROVE  \E k \in Merged' : /\ request'[k].resulted_in = v
                                           /\ request'[k].applied_to = v - 1
      BY DEF LinearHistory
    <3>1. CASE v = Latest + 1
      BY <1>1, <1>4, <3>1
    <3>2. CASE v \in 1..Latest
      BY <1>2, <3>2 DEF ChainOK, LinearHistory
    <3> QED BY <1>1, <2>1, <3>1, <3>2
  <2>3. MergedAsProposed'
    BY <1>2, <1>4 DEF ChainOK, MergedAsProposed
  <2>4. DOMAIN ids = DOMAIN p.new
    BY DEF Assignments
  <2>5. \A k \in Merged : Skolems \cap DOMAIN p.new \cap DOMAIN request[k].identifier_map = {}
    BY <1>4 DEF AlreadyMapped, MappedSkolems
  <2>6. SkolemsMappedOnce'
    BY <1>2, <1>4, <2>4, <2>5 DEF ChainOK, SkolemsMappedOnce
  <2> QED BY <2>2, <2>3, <2>6 DEF ChainOK
<1> QED BY <1>3, <1>4, MergedOnlyGrows

LEMMA ChainIsKept ==
  ASSUME SerialReview
  PROVE  Spec => []ChainOK
<1>1. TypeOK /\ ReviewsOK /\ ChainOK /\ [Next]_vars => ChainOK'
  BY NextKeepsChain
<1> QED BY <1>1, InitChain, TypesAreKept, ReviewsAreKept, PTL DEF Spec

(* When reviews do not overlap, every version was made from the one before *)
(* it, so no merged change is missing from the newest (merge).             *)
THEOREM HistoryIsAChain ==
  ASSUME SerialReview
  PROVE  Spec => []LinearHistory
<1>1. ChainOK => LinearHistory
  BY DEF ChainOK
<1> QED BY <1>1, ChainIsKept, PTL

(* Then what was applied is what the request shows, too (update_request).  *)
THEOREM ProposalsAreApplied ==
  ASSUME SerialReview
  PROVE  Spec => []MergedAsProposed
<1>1. ChainOK => MergedAsProposed
  BY DEF ChainOK
<1> QED BY <1>1, ChainIsKept, PTL

(* Then a skolem IRI has one permanent identifier (deskolemize).           *)
THEOREM SkolemsHaveOneIdentifier ==
  ASSUME SerialReview
  PROVE  Spec => []SkolemsMappedOnce
<1>1. ChainOK => SkolemsMappedOnce
  BY DEF ChainOK
<1> QED BY <1>1, ChainIsKept, PTL

(* Then a request that is merged or rejected never changes again.          *)
THEOREM ClosedIsFinal ==
  ASSUME SerialReview
  PROVE  Spec => ClosedRowsFrozen
<1>1. TypeOK /\ ReviewsOK /\ [Next]_vars =>
        [\A i \in DOMAIN request : ~request[i].open => request'[i] = request[i]]_vars
  <2> SUFFICES ASSUME TypeOK, ReviewsOK, [Next]_vars
               PROVE  \A i \in DOMAIN request : ~request[i].open => request'[i] = request[i]
    OBVIOUS
  <2>1. DOMAIN request = 1..Len(request)
    BY DEF TypeOK
  <2> QED BY <2>1, MergedOnlyGrows
<1> QED BY <1>1, TypesAreKept, ReviewsAreKept, PTL DEF Spec, ClosedRowsFrozen

-----------------------------------------------------------------------------
(* The handlers implement Curation.                                        *)

(* Curation's operators on data are those of Patching.                     *)
LEMMA SameOperators ==
  ASSUME NEW p, NEW data, NEW ids, NEW known
  PROVE  /\ Decisions!Applicable(p, data) <=> Applicable(p, data)
         /\ Decisions!Describable(p) <=> Describable(p)
         /\ Decisions!AlreadyMapped(p, known) <=> AlreadyMapped(p, known)
         /\ Decisions!Apply(p, ids, data) = Apply(p, ids, data)
         /\ Decisions!Assignments(p, known) = Assignments(p, known)
<1>1. Decisions!Applicable(p, data) <=> Applicable(p, data)
  BY DEF Decisions!Applicable, Applicable, Decisions!PointerResolves, PointerResolves,
         Decisions!MemberExists, MemberExists, Decisions!Target, Target
<1>2. Decisions!Describable(p) <=> Describable(p)
  BY DEF Decisions!Describable, Describable
<1>3. Decisions!AlreadyMapped(p, known) <=> AlreadyMapped(p, known)
  BY DEF Decisions!AlreadyMapped, AlreadyMapped
<1>4. Decisions!Apply(p, ids, data) = Apply(p, ids, data)
  BY DEF Decisions!Apply, Apply, Decisions!Written, Written, Decisions!Target, Target,
         Decisions!Replaced, Replaced, Decisions!PeriodsOf, PeriodsOf,
         Decisions!Range, Range
<1>5. Decisions!Assignments(p, known) = Assignments(p, known)
  BY DEF Decisions!Assignments, Assignments, Decisions!Ids, Ids, Decisions!IsChild, IsChild,
         Decisions!Parent, Parent, Decisions!IsInjective, IsInjective
<1> QED BY <1>1, <1>2, <1>3, <1>4, <1>5

Originals(r) == [i \in DOMAIN r |-> r[i].original]
Outcomes(r) == [i \in DOMAIN r |-> Decision(r[i])]

LEMMA FunctionIsSeq ==
  ASSUME NEW S, NEW n \in Nat, NEW f \in [1..n -> S]
  PROVE  f \in Seq(S) /\ Len(f) = n
OBVIOUS

LEMMA ReadAppended ==
  ASSUME NEW r \in Seq(Rows), NEW row \in Rows
  PROVE  /\ Originals(Append(r, row)) = Append(Originals(r), row.original)
         /\ Outcomes(Append(r, row)) = Append(Outcomes(r), Decision(row))
<1>1. DOMAIN r = 1..Len(r) /\ DOMAIN Append(r, row) = 1..(Len(r) + 1) /\ Len(r) \in Nat
  OBVIOUS
<1>2. /\ \A i \in 1..Len(r) : Append(r, row)[i] = r[i]
      /\ Append(r, row)[Len(r) + 1] = row
  OBVIOUS
<1>3. /\ Originals(r) \in Seq(AllPatches) /\ Len(Originals(r)) = Len(r)
      /\ Originals(Append(r, row)) \in Seq(AllPatches)
      /\ Len(Originals(Append(r, row))) = Len(r) + 1
  <2>1. /\ Originals(r) \in [1..Len(r) -> AllPatches]
        /\ Originals(Append(r, row)) \in [1..(Len(r) + 1) -> AllPatches]
    <3>1. \A x \in Rows : x.original \in AllPatches
      BY DEF Rows
    <3>2. \A i \in 1..(Len(r) + 1) : Append(r, row)[i] \in Rows
      BY <1>1, <1>2
    <3> QED BY <1>1, <3>1, <3>2 DEF Originals
  <2> QED BY <1>1, <2>1, FunctionIsSeq
<1>4. /\ Outcomes(r) \in Seq({"open", "accepted", "declined"}) /\ Len(Outcomes(r)) = Len(r)
      /\ Outcomes(Append(r, row)) \in Seq({"open", "accepted", "declined"})
      /\ Len(Outcomes(Append(r, row))) = Len(r) + 1
  <2>1. /\ Outcomes(r) \in [1..Len(r) -> {"open", "accepted", "declined"}]
        /\ Outcomes(Append(r, row)) \in [1..(Len(r) + 1) -> {"open", "accepted", "declined"}]
    <3>1. \A x \in Rows : Decision(x) \in {"open", "accepted", "declined"}
      BY DEF Decision
    <3>2. \A i \in 1..(Len(r) + 1) : Append(r, row)[i] \in Rows
      BY <1>1, <1>2
    <3> QED BY <1>1, <3>1, <3>2 DEF Outcomes
  <2> QED BY <1>1, <2>1, FunctionIsSeq
<1>5. /\ \A i \in 1..Len(r) : Originals(Append(r, row))[i] = Originals(r)[i]
      /\ Originals(Append(r, row))[Len(r) + 1] = row.original
  BY <1>1, <1>2 DEF Originals
<1>6. /\ \A i \in 1..Len(r) : Outcomes(Append(r, row))[i] = Outcomes(r)[i]
      /\ Outcomes(Append(r, row))[Len(r) + 1] = Decision(row)
  BY <1>1, <1>2 DEF Outcomes
<1> QED BY <1>1, <1>3, <1>4, <1>5, <1>6

LEMMA ReadReplaced ==
  ASSUME NEW r \in Seq(Rows), NEW i \in 1..Len(r), NEW row \in Rows
  PROVE  /\ Originals([r EXCEPT ![i] = row]) = [Originals(r) EXCEPT ![i] = row.original]
         /\ Outcomes([r EXCEPT ![i] = row]) = [Outcomes(r) EXCEPT ![i] = Decision(row)]
         /\ row.original = r[i].original => Originals([r EXCEPT ![i] = row]) = Originals(r)
         /\ Decision(row) = Decision(r[i]) => Outcomes([r EXCEPT ![i] = row]) = Outcomes(r)
BY DEF Originals, Outcomes

LEMMA InitRefines == Init => Decisions!Init
<1> SUFFICES ASSUME Init PROVE Decisions!Init
  OBVIOUS
<1> DEFINE ids == [e \in Initial |-> e]
           row == MergedRow(NewRow(Loader, 0, LoadPatch), Loader, 0, LoadPatch, ids, 1)
<1>1. /\ row.open = FALSE /\ row.merged = TRUE /\ row.original = LoadPatch
      /\ row.identifier_map = ids
  BY DEF MergedRow, NewRow
<1>2. request = <<row>> /\ dataset = <<Apply(LoadPatch, ids, EmptyData)>>
  BY DEF Init
<1> HIDE DEF row
<1>3. Originals(request) = <<LoadPatch>>
  BY <1>1, <1>2 DEF Originals
<1>4. Outcomes(request) = <<"accepted">>
  BY <1>1, <1>2 DEF Outcomes, Decision
<1>5. MappedSkolems = Initial
  BY <1>1, <1>2 DEF MappedSkolems, Merged
<1>6. MappedSkolems \cap Skolems = {}
  BY <1>5, InitialAssumption, IdAssumption
<1> QED BY <1>2, <1>3, <1>4, <1>6 DEF Decisions!Init, Originals, Outcomes

(* Every step is a step of Curation or changes nothing that it shows:      *)
(* CreateInsert submits, UpdateWrite revises, MergeCommit accepts and      *)
(* RejectWrite declines.                                                   *)
LEMMA NextRefines ==
  ASSUME TypeOK, ReviewsOK, [Next]_vars
  PROVE  [Decisions!Next]_(Decisions!curation)
<1>0. /\ request \in Seq(Rows) /\ dataset \in Seq(Data)
      /\ DOMAIN request = 1..Len(request) /\ DOMAIN dataset = 1..Latest
      /\ DOMAIN Originals(request) = 1..Len(request)
      /\ Decisions!Current = dataset[Latest] /\ Latest = Len(dataset)
  BY DEF TypeOK, Originals, Latest, Decisions!Current
<1>1. CASE UNCHANGED <<dataset, request>>
  BY <1>1 DEF Decisions!curation, MappedSkolems, Merged
<1>2. ASSUME NEW w \in Workers, CreateInsert(w)
      PROVE  Decisions!Submit
  <2>1. PICK p \in Patches, v \in 1..Latest, row \in Rows :
          /\ Applicable(p, dataset[v])
          /\ row.open = TRUE /\ row.merged = FALSE /\ row.original = p
          /\ request' = Append(request, row) /\ dataset' = dataset
    BY <1>2, CreateEffect
  <2>2. Originals(request') = Append(Originals(request), p)
    BY <1>0, <2>1, ReadAppended
  <2>3. Outcomes(request') = Append(Outcomes(request), "open")
    BY <1>0, <2>1, ReadAppended DEF Decision
  <2>4. MappedSkolems' = MappedSkolems
    BY <1>0, <2>1 DEF MappedSkolems, Merged
  <2>5. Decisions!Applicable(p, dataset[v])
    BY <2>1, SameOperators
  <2> QED BY <1>0, <2>1, <2>2, <2>3, <2>4, <2>5 DEF Decisions!Submit, Originals, Outcomes
<1>3. ASSUME NEW w \in Workers, UpdateWrite(w)
      PROVE  Decisions!Revise
  <2>1. PICK i \in 1..Len(request), p \in Patches, row \in Rows :
          /\ request[i].open /\ ~request[i].merged
          /\ Applicable(p, dataset[Latest])
          /\ row.open = TRUE /\ row.merged = FALSE /\ row.original = p
          /\ request' = [request EXCEPT ![i] = row] /\ dataset' = dataset
    BY <1>3, UpdateEffect
  <2>2. Originals(request') = [Originals(request) EXCEPT ![i] = p]
    <3>1. Originals([request EXCEPT ![i] = row]) = [Originals(request) EXCEPT ![i] = row.original]
      BY <1>0 DEF Originals
    <3> QED BY <2>1, <3>1
  <2>3. Decision(row) = "open" /\ Decision(request[i]) = "open"
    BY <2>1 DEF Decision
  <2>4. Outcomes(request') = Outcomes(request) /\ Outcomes(request)[i] = "open"
    BY <1>0, <2>1, <2>3, ReadReplaced DEF Outcomes
  <2>5. MappedSkolems' = MappedSkolems
    BY <1>0, <2>1 DEF MappedSkolems, Merged
  <2>6. Decisions!Applicable(p, Decisions!Current)
    BY <1>0, <2>1, SameOperators
  <2> QED BY <1>0, <2>1, <2>2, <2>4, <2>5, <2>6 DEF Decisions!Revise, Originals, Outcomes
<1>4. ASSUME NEW w \in Workers, MergeCommit(w)
      PROVE  Decisions!Accept
  <2>1. PICK i \in 1..Len(request), p \in AllPatches, row \in Rows :
        \E ids \in Assignments(p, DOMAIN dataset[Latest]) :
          /\ request[i].open /\ ~request[i].merged /\ request[i].original = p
          /\ Applicable(p, dataset[Latest]) /\ Describable(p)
          /\ ~AlreadyMapped(p, MappedSkolems)
          /\ row.open = FALSE /\ row.merged = TRUE /\ row.original = p
          /\ row.identifier_map = ids
          /\ request' = [request EXCEPT ![i] = row]
          /\ dataset' = Append(dataset, Apply(p, ids, dataset[Latest]))
    BY <1>4, MergeEffect, ZenonT(60)
  <2>2. PICK ids \in Assignments(p, DOMAIN dataset[Latest]) :
          /\ row.identifier_map = ids
          /\ dataset' = Append(dataset, Apply(p, ids, dataset[Latest]))
    BY <2>1
  <2>3. Originals(request') = Originals(request) /\ Originals(request)[i] = p
    BY <1>0, <2>1, ReadReplaced DEF Originals
  <2>4. Decision(row) = "accepted" /\ Decision(request[i]) = "open"
    BY <2>1 DEF Decision
  <2>5. /\ Outcomes(request') = [Outcomes(request) EXCEPT ![i] = "accepted"]
        /\ Outcomes(request)[i] = "open"
    BY <1>0, <2>1, <2>4, ReadReplaced DEF Outcomes
  <2>6. MappedSkolems' = MappedSkolems \cup DOMAIN p.new
    <3>1. request'[i] = row /\ i \notin Merged /\ Merged' = Merged \cup {i}
      BY <1>0, <2>1 DEF Merged
    <3>2. \A k \in Merged : request'[k] = request[k]
      BY <1>0, <2>1, <3>1 DEF Merged
    <3>3. DOMAIN ids = DOMAIN p.new
      BY DEF Assignments
    <3> QED BY <2>2, <3>1, <3>2, <3>3 DEF MappedSkolems
  <2>7. /\ Decisions!Applicable(p, Decisions!Current) /\ Decisions!Describable(p)
        /\ ids \in Decisions!Assignments(p, DOMAIN Decisions!Current)
        /\ dataset' = Append(dataset, Decisions!Apply(p, ids, Decisions!Current))
    BY <1>0, <2>1, <2>2, SameOperators, ZenonT(60)
  <2>8. ~Decisions!AlreadyMapped(p, MappedSkolems \cap Skolems)
    <3>1. ~AlreadyMapped(p, MappedSkolems \cap Skolems)
      BY <2>1 DEF AlreadyMapped
    <3> QED BY <3>1, SameOperators
  <2> QED BY <1>0, <2>3, <2>5, <2>6, <2>7, <2>8 DEF Decisions!Accept, Originals, Outcomes
<1>5. ASSUME NEW w \in Workers, RejectWrite(w)
      PROVE  Decisions!Decline
  <2>1. PICK i \in 1..Len(request), row \in Rows :
          /\ request[i].open /\ ~request[i].merged
          /\ row.open = FALSE /\ row.merged = FALSE /\ row.original = request[i].original
          /\ request' = [request EXCEPT ![i] = row] /\ dataset' = dataset
    BY <1>5, RejectEffect
  <2>2. Originals(request') = Originals(request)
    <3>1. Originals([request EXCEPT ![i] = row]) = Originals(request)
      BY <1>0, <2>1 DEF Originals
    <3> QED BY <2>1, <3>1
  <2>3. Decision(row) = "declined" /\ Decision(request[i]) = "open"
    BY <2>1 DEF Decision
  <2>4. /\ Outcomes(request') = [Outcomes(request) EXCEPT ![i] = "declined"]
        /\ Outcomes(request)[i] = "open"
    BY <1>0, <2>1, <2>3, ReadReplaced DEF Outcomes
  <2>5. MappedSkolems' = MappedSkolems
    BY <1>0, <2>1 DEF MappedSkolems, Merged
  <2> QED BY <1>0, <2>1, <2>2, <2>4, <2>5 DEF Decisions!Decline, Originals, Outcomes
<1> QED BY <1>1, <1>2, <1>3, <1>4, <1>5, StepKinds DEF Decisions!Next

(* When reviews do not overlap, the handlers implement Curation: whatever  *)
(* the workers do in between, a request is proposed, revised while it is   *)
(* open, and decided once, and a merge is one step from the newest version *)
(* to the next (update_request, merge and reject of patching.py).          *)
THEOREM HandlersImplementCuration ==
  ASSUME SerialReview
  PROVE  Spec => ImplementsCuration
<1>1. TypeOK /\ ReviewsOK /\ [Next]_vars => [Decisions!Next]_(Decisions!curation)
  BY NextRefines
<1> QED BY <1>1, InitRefines, TypesAreKept, ReviewsAreKept, PTL
        DEF Spec, ImplementsCuration, Decisions!Spec
=============================================================================
