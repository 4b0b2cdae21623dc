---------------------------- MODULE AccessProofs ----------------------------
(***************************************************************************)
(* Theorems about Access, and about BagStore within it, for any number of  *)
(* workers, users, bags, versions, registrations and tokens.               *)
(***************************************************************************)
EXTENDS Access, TLAPS

-----------------------------------------------------------------------------
(* The handlers of BagStore.                                               *)

(* What a PUT has found out still holds when it inserts: the periods it    *)
(* lists have been in one version of the dataset, its user made the bag,   *)
(* and an answered PUT has its row.                                        *)
JobOK(j, b, d) ==
  /\ j.pc # "done" => j.status = 0
  /\ j.pc \notin {"idle", "done"} =>
       /\ j.user \in Users /\ j.uuid \in Uuids
       /\ j.user = Maker[j.uuid] \/ b[j.uuid] # <<>>
  /\ j.pc \in {"owner", "number", "insert"} =>
       \E v \in 1..Len(d) : ToSet(j.items) \subseteq d[v]
  /\ j.pc \in {"number", "insert"} => j.user = Maker[j.uuid]
  /\ j.status = 201 =>
       /\ j.uuid \in Uuids /\ j.max_version + 2 \in 1..Len(b[j.uuid])
       /\ b[j.uuid][j.max_version + 2].created_by = j.user
       /\ b[j.uuid][j.max_version + 2].items = j.items

JobsOK == \A w \in Workers : JobOK(worker[w], bag, dataset)

RowOK(uuid, k, row, d) ==
  /\ row.wasRevisionOf = k - 2
  /\ row.owners = {Maker[uuid]}
  /\ \E v \in 1..Len(d) : ToSet(row.items) \subseteq d[v]

BagsOK == \A uuid \in Uuids : \A k \in 1..Len(bag[uuid]) : RowOK(uuid, k, bag[uuid][k], dataset)

BagInv == TypeOK /\ JobsOK /\ BagsOK

(* Tables are only added to.                                               *)
Grown ==
  /\ \A uuid \in Uuids :
       /\ Len(bag'[uuid]) >= Len(bag[uuid])
       /\ \A k \in 1..Len(bag[uuid]) : bag'[uuid][k] = bag[uuid][k]
  /\ Len(dataset') >= Len(dataset)
  /\ \A v \in 1..Len(dataset) : dataset'[v] = dataset[v]

LEMMA TypesOfTables ==
  ASSUME TypeOK
  PROVE  /\ \A uuid \in Uuids : bag[uuid] \in Seq(Rows) /\ Len(bag[uuid]) \in Nat
         /\ Len(dataset) \in Nat /\ Len(dataset) >= 1
         /\ DOMAIN dataset = 1..Len(dataset)
         /\ \A uuid \in Uuids : DOMAIN bag[uuid] = 1..Len(bag[uuid])
BY DEF TypeOK

LEMMA JobStays ==
  ASSUME TypeOK, TypeOK', Grown, NEW j \in Jobs, JobOK(j, bag, dataset)
  PROVE  JobOK(j, bag', dataset')
<1>1. Len(dataset) \in Nat /\ Len(dataset') \in Nat
  BY DEF TypeOK
<1>2. \A uuid \in Uuids :
        /\ bag[uuid] \in Seq(Rows) /\ bag'[uuid] \in Seq(Rows)
        /\ Len(bag[uuid]) \in Nat /\ Len(bag'[uuid]) \in Nat
  BY DEF TypeOK
<1>3. \A uuid \in Uuids : bag[uuid] # <<>> => bag'[uuid] # <<>>
  BY <1>2 DEF Grown
<1>4. (\E v \in 1..Len(dataset) : ToSet(j.items) \subseteq dataset[v]) =>
        \E v \in 1..Len(dataset') : ToSet(j.items) \subseteq dataset'[v]
  BY <1>1 DEF Grown
<1>5. j.status = 201 =>
        /\ j.max_version + 2 \in 1..Len(bag'[j.uuid])
        /\ bag'[j.uuid][j.max_version + 2] = bag[j.uuid][j.max_version + 2]
  <2> SUFFICES ASSUME j.status = 201
               PROVE  /\ j.max_version + 2 \in 1..Len(bag'[j.uuid])
                      /\ bag'[j.uuid][j.max_version + 2] = bag[j.uuid][j.max_version + 2]
    OBVIOUS
  <2>1. j.uuid \in Uuids /\ j.max_version + 2 \in 1..Len(bag[j.uuid])
    BY DEF JobOK
  <2> QED BY <1>2, <2>1 DEF Grown
<1> QED BY <1>3, <1>4, <1>5 DEF JobOK

(* A step of one worker that adds at most one good row.                    *)
LEMMA BagStep ==
  ASSUME BagInv, TypeOK', Grown, NEW w \in Workers, NEW job, Becomes(w, job),
         JobOK(job, bag', dataset'),
         \A uuid \in Uuids : \A k \in (Len(bag[uuid]) + 1)..Len(bag'[uuid]) :
           RowOK(uuid, k, bag'[uuid][k], dataset')
  PROVE  BagInv'
<1>1. /\ worker'[w] = job
      /\ \A x \in Workers \ {w} : worker'[x] = worker[x] /\ worker[x] \in Jobs
  BY DEF BagInv, TypeOK, Becomes
<1>2. ASSUME NEW x \in Workers
      PROVE  JobOK(worker'[x], bag', dataset')
  <2>1. CASE x = w
    BY <1>1, <2>1
  <2>2. CASE x # w
    <3>1. JobOK(worker[x], bag, dataset) /\ TypeOK
      BY DEF BagInv, JobsOK
    <3> QED BY <1>1, <2>2, <3>1, JobStays
  <2> QED BY <2>1, <2>2
<1>3. ASSUME NEW uuid \in Uuids, NEW k \in 1..Len(bag'[uuid])
      PROVE  RowOK(uuid, k, bag'[uuid][k], dataset')
  <2>1. Len(bag[uuid]) \in Nat /\ Len(dataset) \in Nat /\ Len(dataset') \in Nat
    BY DEF BagInv, TypeOK
  <2>2. CASE k \in 1..Len(bag[uuid])
    <3>1. RowOK(uuid, k, bag[uuid][k], dataset) /\ bag'[uuid][k] = bag[uuid][k]
      BY <2>2 DEF BagInv, BagsOK, Grown
    <3> QED BY <2>1, <3>1 DEF RowOK, Grown
  <2>3. CASE k \notin 1..Len(bag[uuid])
    BY <2>1, <2>3
  <2> QED BY <2>2, <2>3
<1> QED BY <1>2, <1>3 DEF BagInv, JobsOK, BagsOK

(* A step that leaves the tables alone.                                    *)
LEMMA LocalBagStep ==
  ASSUME BagInv, UNCHANGED <<bag, dataset>>, NEW w \in Workers, NEW job \in Jobs,
         Becomes(w, job), JobOK(job, bag, dataset)
  PROVE  BagInv'
<1>1. TypeOK'
  BY DEF BagInv, TypeOK, Becomes
<1>2. \A uuid \in Uuids : Len(bag[uuid]) \in Nat
  BY DEF BagInv, TypeOK
<1>3. Len(dataset) \in Nat
  BY DEF BagInv, TypeOK
<1>4. Grown
  BY <1>2, <1>3 DEF Grown
<1>5. JobOK(job, bag', dataset')
  OBVIOUS
<1>6. \A uuid \in Uuids : (Len(bag[uuid]) + 1)..Len(bag'[uuid]) = {}
  BY <1>2
<1> QED BY <1>1, <1>4, <1>5, <1>6, BagStep

LEMMA AnswerBagStep ==
  ASSUME BagInv, UNCHANGED <<bag, dataset>>, NEW w \in Workers,
         NEW code \in Nat, code # 201, Answer(w, code)
  PROVE  BagInv'
<1> DEFINE job == [worker[w] EXCEPT !.pc = "done", !.status = code]
<1>1. worker[w] \in Jobs
  BY DEF BagInv, TypeOK
<1>2. job \in Jobs /\ job.pc = "done" /\ job.status = code
  BY <1>1 DEF Jobs, Points
<1>3. Becomes(w, job)
  BY DEF Answer
<1> HIDE DEF job
<1>4. JobOK(job, bag, dataset)
  BY <1>2 DEF JobOK
<1> QED BY <1>2, <1>3, <1>4, LocalBagStep

(* A PUT that begins: the user made the bag, or it is listed.              *)
LEMMA PutKeepsBags ==
  ASSUME BagInv, NEW w \in Workers, NEW u \in Users, NEW uuid \in Uuids,
         NEW items \in Listings, Put(w, u, uuid, items)
  PROVE  BagInv'
<1> DEFINE job == [Idle EXCEPT !.user = u, !.uuid = uuid, !.items = items]
           asked == [job EXCEPT !.pc = "items"]
           refused == [job EXCEPT !.pc = "done", !.status = 400]
<1>1. items \in Seq(Periods)
  BY BagAssumption
<1>2. job \in Jobs /\ job.status = 0 /\ job.user = u /\ job.uuid = uuid /\ job.items = items
  BY <1>1 DEF Idle, Jobs, Points
<1>3. /\ u = Maker[uuid] \/ bag[uuid] # <<>>
      /\ Becomes(w, asked) \/ Becomes(w, refused)
      /\ UNCHANGED <<bag, dataset>>
  BY DEF Put
<1> HIDE DEF job
<1>4. asked \in Jobs /\ refused \in Jobs
  <2>1. asked \in Jobs
    BY <1>2 DEF Jobs, Points
  <2>2. refused \in Jobs
    <3>1. job \in Jobs /\ 400 \in Nat /\ "done" \in Points
      BY <1>2 DEF Points
    <3> QED BY <3>1, ZenonT(60) DEF Jobs
  <2> QED BY <2>1, <2>2
<1>5. /\ asked.pc = "items" /\ asked.user = u /\ asked.uuid = uuid /\ asked.status = 0
      /\ refused.pc = "done" /\ refused.status = 400
  BY <1>2 DEF Jobs
<1> HIDE DEF asked, refused
<1>6. JobOK(asked, bag, dataset)
  BY <1>3, <1>5 DEF JobOK
<1>7. JobOK(refused, bag, dataset)
  BY <1>5 DEF JobOK
<1> QED BY <1>3, <1>4, <1>6, <1>7, LocalBagStep

(* The items are looked up in one version of the dataset.                  *)
LEMMA PutItemsKeepsBags ==
  ASSUME BagInv, NEW w \in Workers, PutItems(w)
  PROVE  BagInv'
<1> DEFINE next == [worker[w] EXCEPT !.pc = "owner"]
<1>1. /\ worker[w].pc = "items" /\ worker[w] \in Jobs
      /\ JobOK(worker[w], bag, dataset) /\ TypeOK /\ UNCHANGED <<bag, dataset>>
  BY DEF PutItems, At, BagInv, TypeOK, JobsOK
<1>2. CASE ItemsKnown(worker[w].items, Last(dataset)) /\ Becomes(w, next)
  <2>1. next \in Jobs
    BY <1>1 DEF Jobs, Points
  <2>2. /\ next.pc = "owner" /\ next.user = worker[w].user /\ next.uuid = worker[w].uuid
        /\ next.items = worker[w].items /\ next.status = worker[w].status
    BY <1>1 DEF Jobs
  <2>3. ToSet(worker[w].items) \subseteq dataset[Len(dataset)] /\ Len(dataset) \in 1..Len(dataset)
    BY <1>1, <1>2, TypesOfTables DEF ItemsKnown, Last
  <2> HIDE DEF next
  <2>4. JobOK(next, bag, dataset)
    BY <1>1, <2>2, <2>3 DEF JobOK
  <2> QED BY <1>1, <1>2, <2>1, <2>4, LocalBagStep
<1>3. CASE Answer(w, 400)
  BY <1>1, <1>3, AnswerBagStep
<1> QED BY <1>2, <1>3 DEF PutItems, Goes

(* The owners are those of the newest version: its maker alone.            *)
LEMMA PutOwnerKeepsBags ==
  ASSUME BagInv, NEW w \in Workers, PutOwner(w)
  PROVE  BagInv'
<1> DEFINE next == [worker[w] EXCEPT !.pc = "number"]
           rows == bag[worker[w].uuid]
<1>1. /\ worker[w].pc = "owner" /\ worker[w] \in Jobs
      /\ JobOK(worker[w], bag, dataset) /\ TypeOK /\ UNCHANGED <<bag, dataset>>
  BY DEF PutOwner, At, BagInv, TypeOK, JobsOK
<1>2. CASE MayRevise(worker[w].user, rows) /\ Becomes(w, next)
  <2>1. next \in Jobs
    BY <1>1 DEF Jobs, Points
  <2>2. /\ next.pc = "number" /\ next.user = worker[w].user /\ next.uuid = worker[w].uuid
        /\ next.items = worker[w].items /\ next.status = worker[w].status
    BY <1>1 DEF Jobs
  <2>3. worker[w].user = Maker[worker[w].uuid]
    <3>1. CASE rows = <<>>
      BY <1>1, <3>1 DEF JobOK
    <3>2. CASE rows # <<>>
      <4>1. worker[w].uuid \in Uuids /\ rows \in Seq(Rows)
        BY <1>1 DEF JobOK, TypeOK
      <4>2. Len(rows) \in 1..Len(rows)
        BY <3>2, <4>1
      <4>3. rows[Len(rows)].owners = {Maker[worker[w].uuid]}
        BY <4>1, <4>2 DEF BagInv, BagsOK, RowOK
      <4> QED BY <1>2, <3>2, <4>3 DEF MayRevise, Last
    <3> QED BY <3>1, <3>2
  <2> HIDE DEF next
  <2>4. JobOK(next, bag, dataset)
    BY <1>1, <2>2, <2>3 DEF JobOK
  <2> QED BY <1>1, <1>2, <2>1, <2>4, LocalBagStep
<1>3. CASE Answer(w, 403)
  BY <1>1, <1>3, AnswerBagStep
<1> QED BY <1>2, <1>3 DEF PutOwner, Goes

LEMMA PutNumberKeepsBags ==
  ASSUME BagInv, NEW w \in Workers, PutNumber(w)
  PROVE  BagInv'
<1> DEFINE next == [worker[w] EXCEPT !.pc = "insert", !.max_version = MaxVersion(worker[w].uuid)]
<1>1. /\ worker[w].pc = "number" /\ worker[w] \in Jobs /\ Becomes(w, next)
      /\ JobOK(worker[w], bag, dataset) /\ UNCHANGED <<bag, dataset>>
  BY DEF PutNumber, At, BagInv, TypeOK, JobsOK
<1>2. MaxVersion(worker[w].uuid) \in Nat \cup {Null}
  <2>1. worker[w].uuid \in Uuids
    BY <1>1 DEF JobOK
  <2>2. Len(bag[worker[w].uuid]) \in Nat
    BY <2>1, TypesOfTables DEF BagInv
  <2> QED BY <2>2 DEF MaxVersion, Null
<1>3. next \in Jobs
  BY <1>1, <1>2 DEF Jobs, Points
<1>4. /\ next.pc = "insert" /\ next.user = worker[w].user /\ next.uuid = worker[w].uuid
      /\ next.items = worker[w].items /\ next.status = worker[w].status
  BY <1>1 DEF Jobs
<1> HIDE DEF next
<1>5. JobOK(next, bag, dataset)
  BY <1>1, <1>4 DEF JobOK
<1> QED BY <1>1, <1>3, <1>5, LocalBagStep

(* The primary key (uuid, version) lets the row in only as the next one.   *)
LEMMA PutInsertKeepsBags ==
  ASSUME BagInv, NEW w \in Workers, PutInsert(w)
  PROVE  BagInv'
<1> DEFINE j == worker[w]
           row == [created_by |-> j.user, owners |-> {j.user}, items |-> j.items,
                   wasRevisionOf |-> j.max_version]
           next == [j EXCEPT !.pc = "done", !.status = 201]
           rows == bag[j.uuid]
<1>1. /\ j.pc = "insert" /\ j \in Jobs /\ JobOK(j, bag, dataset) /\ TypeOK /\ dataset' = dataset
  BY DEF PutInsert, At, BagInv, TypeOK, JobsOK
<1>2. CASE Answer(w, 500) /\ UNCHANGED bag
  BY <1>1, <1>2, AnswerBagStep
<1>3. CASE /\ j.max_version + 1 = Len(rows) /\ Becomes(w, next)
           /\ bag' = [bag EXCEPT ![j.uuid] = Append(@, row)]
  <2>1. /\ j.user \in Users /\ j.uuid \in Uuids /\ j.user = Maker[j.uuid]
        /\ j.items \in Seq(Periods) /\ j.max_version \in Nat \cup {Null}
        /\ \E v \in 1..Len(dataset) : ToSet(j.items) \subseteq dataset[v]
    BY <1>1 DEF JobOK, Jobs
  <2>2. row \in Rows
    BY <2>1 DEF Rows
  <2>3. rows \in Seq(Rows) /\ Len(rows) \in Nat /\ bag \in [Uuids -> Seq(Rows)]
    BY <1>1, <2>1 DEF TypeOK
  <2>4. next \in Jobs
    BY <1>1, ZenonT(60) DEF Jobs, Points
  <2>5. /\ next.pc = "done" /\ next.user = j.user /\ next.uuid = j.uuid
        /\ next.items = j.items /\ next.status = 201 /\ next.max_version = j.max_version
    BY <1>1 DEF Jobs
  <2>6. row.wasRevisionOf = j.max_version /\ row.owners = {j.user} /\ row.items = j.items
        /\ row.created_by = j.user
    OBVIOUS
  <2>7. Becomes(w, next) /\ j.max_version + 1 = Len(rows) /\ j.max_version \in Int
    <3>1. Null \in Int
      BY DEF Null
    <3> QED BY <1>3, <2>1, <3>1
  <2>8. bag'[j.uuid] = Append(rows, row) /\ \A uuid \in Uuids \ {j.uuid} : bag'[uuid] = bag[uuid]
    BY <1>3, <2>1, <2>3
  <2>9. bag' \in [Uuids -> Seq(Rows)]
    BY <1>3, <2>1, <2>2, <2>3
  <2> HIDE DEF row, next
  <2>10. TypeOK'
    BY <1>1, <2>4, <2>7, <2>9 DEF TypeOK, Becomes
  <2>11. /\ Len(Append(rows, row)) = Len(rows) + 1
         /\ \A k \in 1..Len(rows) : Append(rows, row)[k] = rows[k]
         /\ Append(rows, row)[Len(rows) + 1] = row
    BY <2>2, <2>3
  <2>12. \A uuid \in Uuids : Len(bag[uuid]) \in Nat
    BY <2>3
  <2>13. Grown
    <3>1. Len(dataset') >= Len(dataset) /\ \A v \in 1..Len(dataset) : dataset'[v] = dataset[v]
      BY <1>1, TypesOfTables
    <3>2. ASSUME NEW uuid \in Uuids
          PROVE  /\ Len(bag'[uuid]) >= Len(bag[uuid])
                 /\ \A k \in 1..Len(bag[uuid]) : bag'[uuid][k] = bag[uuid][k]
      BY <2>3, <2>8, <2>11, <2>12, SMTT(20)
    <3> QED BY <3>1, <3>2 DEF Grown
  <2>14. JobOK(next, bag', dataset')
    <3>1. j.max_version + 2 = Len(rows) + 1
      BY <2>3, <2>7
    <3>2. /\ j.max_version + 2 \in 1..Len(bag'[j.uuid])
          /\ bag'[j.uuid][j.max_version + 2] = row
      BY <2>3, <2>8, <2>11, <3>1
    <3> HIDE DEF j
    <3> QED BY <2>1, <2>5, <2>6, <3>2 DEF JobOK
  <2>15. ASSUME NEW uuid \in Uuids, NEW k \in (Len(bag[uuid]) + 1)..Len(bag'[uuid])
         PROVE  RowOK(uuid, k, bag'[uuid][k], dataset')
    <3>1. uuid = j.uuid /\ k = Len(rows) + 1
      BY <2>3, <2>8, <2>11, <2>12
    <3>2. bag'[uuid][k] = row
      BY <2>8, <2>11, <3>1
    <3>3. j.max_version = k - 2
      BY <2>3, <2>7, <3>1
    <3> QED BY <1>1, <2>1, <2>6, <3>1, <3>2, <3>3 DEF RowOK
  <2> QED BY <2>7, <2>10, <2>13, <2>14, <2>15, BagStep
<1> QED BY <1>2, <1>3 DEF PutInsert, VersionFree, Answer

LEMMA HandlingKeepsBags ==
  ASSUME BagInv, NEW w \in Workers, Handling(w)
  PROVE  BagInv'
<1>1. CASE Fail(w)
  BY <1>1, AnswerBagStep DEF Fail
<1>2. CASE Done(w)
  <2>1. Idle \in Jobs /\ Idle.pc = "idle" /\ Idle.status = 0
    BY DEF Idle, Jobs, Points
  <2>2. JobOK(Idle, bag, dataset)
    BY <2>1 DEF JobOK
  <2> QED BY <1>2, <2>1, <2>2, LocalBagStep DEF Done
<1> QED BY <1>1, <1>2, PutItemsKeepsBags, PutOwnerKeepsBags, PutNumberKeepsBags,
           PutInsertKeepsBags DEF Handling

LEMMA DatasetChangeKeepsBags ==
  ASSUME BagInv, DatasetChange
  PROVE  BagInv'
<1>1. PICK data \in SUBSET Periods : dataset' = Append(dataset, data)
  BY DEF DatasetChange
<1>2. bag' = bag /\ worker' = worker /\ TypeOK /\ dataset \in Seq(SUBSET Periods)
  BY DEF DatasetChange, BagInv, TypeOK
<1>3. /\ dataset' \in Seq(SUBSET Periods) /\ dataset' # <<>>
      /\ Len(dataset') = Len(dataset) + 1 /\ Len(dataset) \in Nat
      /\ \A v \in 1..Len(dataset) : dataset'[v] = dataset[v]
  BY <1>1, <1>2
<1>4. TypeOK'
  BY <1>2, <1>3 DEF TypeOK
<1>5. Grown
  BY <1>2, <1>3, TypesOfTables DEF Grown
<1>6. ASSUME NEW w \in Workers
      PROVE  JobOK(worker'[w], bag', dataset')
  <2>1. worker[w] \in Jobs /\ JobOK(worker[w], bag, dataset)
    BY DEF BagInv, TypeOK, JobsOK
  <2> QED BY <1>2, <1>4, <1>5, <2>1, JobStays
<1>7. ASSUME NEW uuid \in Uuids, NEW k \in 1..Len(bag[uuid])
      PROVE  RowOK(uuid, k, bag[uuid][k], dataset')
  <2>1. RowOK(uuid, k, bag[uuid][k], dataset)
    BY DEF BagInv, BagsOK
  <2> QED BY <1>3, <2>1 DEF RowOK
<1> QED BY <1>2, <1>4, <1>6, <1>7 DEF BagInv, JobsOK, BagsOK

LEMMA BearerPutKeepsBags ==
  ASSUME BagInv, NEW w \in Workers, NEW token, NEW uuid \in Uuids, NEW items \in Listings,
         BearerPut(w, token, uuid, items)
  PROVE  BagInv'
<1>1. CASE Answer(w, 401) /\ UNCHANGED <<bag, dataset>>
  BY <1>1, AnswerBagStep
<1>2. CASE Answer(w, 403) /\ UNCHANGED <<bag, dataset>>
  BY <1>2, AnswerBagStep
<1>3. ASSUME NEW u \in Identity(token), Put(w, u, uuid, items)
      PROVE  BagInv'
  BY <1>3, PutKeepsBags DEF Identity
<1> QED BY <1>1, <1>2, <1>3 DEF BearerPut, Unauthenticated, Forbidden

LEMMA AccessNextKeepsBags ==
  ASSUME BagInv, [AccessNext]_allVars
  PROVE  BagInv'
<1>1. CASE UNCHANGED vars
  <2>1. bag' = bag /\ dataset' = dataset /\ worker' = worker
    BY <1>1 DEF vars
  <2> QED BY <2>1 DEF BagInv, TypeOK, JobsOK, BagsOK
<1>2. ASSUME NEW u \in Users,
             Register(u) \/ Expire(u) \/ \E permissions \in SUBSET Needs : SetPermissions(u, permissions)
      PROVE  UNCHANGED vars
  BY <1>2 DEF Register, Expire, SetPermissions
<1>3. ASSUME NEW k \in DOMAIN tab,
             Callback(k) \/ Exchange(k) \/ ExchangeFails(k) \/ Receive(k) \/ Lose(k)
      PROVE  UNCHANGED vars
  BY <1>3 DEF Callback, Exchange, ExchangeFails, Receive, Lose
<1>4. UNCHANGED allVars => UNCHANGED vars
  BY DEF allVars
<1> QED BY <1>1, <1>2, <1>3, <1>4, BearerPutKeepsBags, HandlingKeepsBags,
           DatasetChangeKeepsBags DEF AccessNext

(* What BagsOK says of the rows, in the terms of the properties.           *)
LEMMA GoodRows ==
  ASSUME BagInv, NEW uuid \in Uuids, NEW k \in DOMAIN bag[uuid]
  PROVE  /\ bag[uuid][k].wasRevisionOf = k - 2
         /\ bag[uuid][k].owners = {Maker[uuid]}
         /\ \E v \in DOMAIN dataset : ToSet(bag[uuid][k].items) \subseteq dataset[v]
<1>1. TypeOK /\ k \in 1..Len(bag[uuid])
  BY TypesOfTables DEF BagInv
<1>2. RowOK(uuid, k, bag[uuid][k], dataset)
  BY <1>1 DEF BagInv, BagsOK
<1> QED BY <1>1, <1>2, TypesOfTables DEF RowOK

LEMMA InitBags == Init => BagInv
<1> SUFFICES ASSUME Init PROVE BagInv
  OBVIOUS
<1>1. Idle \in Jobs /\ Idle.pc = "idle" /\ Idle.status = 0
  BY DEF Idle, Jobs, Points
<1>2. JobOK(Idle, bag, dataset)
  BY <1>1 DEF JobOK
<1>3. TypeOK
  <2>1. <<>> \in Seq(Rows) /\ Loaded \in SUBSET Periods
    BY BagAssumption
  <2>2. dataset \in Seq(SUBSET Periods) /\ dataset # <<>>
    BY <2>1 DEF Init
  <2> QED BY <1>1, <2>1, <2>2 DEF Init, TypeOK
<1>4. JobsOK
  BY <1>2 DEF Init, JobsOK
<1>5. BagsOK
  BY DEF Init, BagsOK
<1> QED BY <1>3, <1>4, <1>5 DEF BagInv

LEMMA BagsAreKept == AccessSpec => []BagInv
<1>1. AccessInit => BagInv
  BY InitBags DEF AccessInit
<1>2. BagInv /\ [AccessNext]_allVars => BagInv'
  BY AccessNextKeepsBags
<1> QED BY <1>1, <1>2, PTL DEF AccessSpec

(* Whatever the workers, the users and the administrator do, the bags, the *)
(* dataset and the handlers' local variables are well typed.               *)
THEOREM BagsAreTyped == AccessSpec => []TypeOK
<1>1. BagInv => TypeOK
  BY DEF BagInv
<1> QED BY <1>1, BagsAreKept, PTL

(* However PUTs overlap, each version of a bag revises the one before it   *)
(* (create_or_update_bag).                                                 *)
THEOREM BagVersionsFormAChain == AccessSpec => []RevisionChain
<1>1. BagInv => RevisionChain
  BY GoodRows DEF RevisionChain
<1> QED BY <1>1, BagsAreKept, PTL

(* A PUT that was answered 201 is in the place it was told (Bag.put).      *)
THEOREM AnsweredBagsLast == AccessSpec => []AcknowledgedBagsLast
<1>1. BagInv => AcknowledgedBagsLast
  <2> SUFFICES ASSUME BagInv, NEW w \in Workers, worker[w].status = 201
               PROVE  LET j == worker[w]
                      IN /\ j.max_version + 2 \in DOMAIN bag[j.uuid]
                         /\ bag[j.uuid][j.max_version + 2].created_by = j.user
                         /\ bag[j.uuid][j.max_version + 2].items = j.items
    BY DEF AcknowledgedBagsLast
  <2> QED BY TypesOfTables DEF BagInv, JobsOK, JobOK
<1> QED BY <1>1, BagsAreKept, PTL

(* A bag stays with its maker, although the owners are read before the     *)
(* version is numbered and inserted (Bag.put).                             *)
THEOREM BagsStayWithTheirMaker == AccessSpec => []OwnersKept
<1>1. BagInv => OwnersKept
  BY GoodRows DEF OwnersKept
<1> QED BY <1>1, BagsAreKept, PTL

(* The periods of a bag were in one version of the dataset together,       *)
(* although the dataset may change before the insert (Bag.put).            *)
THEOREM BagsOfOneVersion == AccessSpec => []ItemsExistedTogether
<1>1. BagInv => ItemsExistedTogether
  BY GoodRows DEF ItemsExistedTogether
<1> QED BY <1>1, BagsAreKept, PTL

-----------------------------------------------------------------------------
(* Registrations, tokens and permissions.                                  *)

(* Of two registrations of a user of which the earlier one is under way,   *)
(* both are marked as crossed.                                             *)
CrossingsMarked ==
  \A j, k \in DOMAIN tab :
    j < k /\ tab[j].user = tab[k].user /\ UnderWay(j) => tab[j].crossed /\ tab[k].crossed

(* A registration that nothing crossed finds its own state in the cookie.  *)
CookieIsTheirs ==
  \A k \in DOMAIN tab :
    tab[k].pc = "orcid" /\ ~tab[k].crossed => cookie[tab[k].user] = k

(* A registration that stored a token has it to answer with.               *)
AnswersHaveTokens == \A k \in DOMAIN tab : tab[k].pc = "answer" => tab[k].token # NoToken

AccountsInv ==
  /\ AccessTypeOK /\ Len(tab) <= MaxRegistrations /\ AnswersHaveTokens
  /\ PermissionsAsGranted /\ PutsArePermitted
TabsInv == CrossingsMarked /\ CookieIsTheirs /\ RefusalsHaveACause /\ NewestTokenWorks
AccessInv == AccountsInv /\ TabsInv

TabStep(k) == Callback(k) \/ Exchange(k) \/ ExchangeFails(k) \/ Receive(k) \/ Lose(k)

LEMMA NoTokenIsNone == NoToken \notin Tokens
BY DEF NoToken, Tokens

LEMMA TypesOfTabs ==
  ASSUME AccessTypeOK
  PROVE  /\ Len(tab) \in Nat /\ DOMAIN tab = 1..Len(tab)
         /\ \A k \in DOMAIN tab : tab[k] \in Tabs
BY DEF AccessTypeOK

(* What no step of a registration does to any of them.                     *)
LEMMA TabSteps ==
  ASSUME AccessTypeOK, Len(tab) <= MaxRegistrations, NEW k \in DOMAIN tab, TabStep(k)
  PROVE  /\ tab' \in Seq(Tabs) /\ Len(tab') = Len(tab) /\ DOMAIN tab' = DOMAIN tab
         /\ UnderWay(k) /\ tab'[k].pc # "orcid"
         /\ \A j \in DOMAIN tab : /\ tab'[j].user = tab[j].user
                                  /\ tab'[j].crossed = tab[j].crossed
                                  /\ j # k => tab'[j] = tab[j]
<1>1. /\ tab[k] \in Tabs /\ tab \in Seq(Tabs) /\ Len(tab) \in Nat /\ k \in 1..Len(tab)
      /\ \A j \in DOMAIN tab : tab[j] \in Tabs
  BY TypesOfTabs DEF AccessTypeOK
<1>2. PICK t \in Tabs : /\ tab' = [tab EXCEPT ![k] = t] /\ t.pc # "orcid"
                        /\ t.user = tab[k].user /\ t.crossed = tab[k].crossed
  <2>1. ASSUME NEW pc \in {"exchange", "answer", "done", "refused", "failed"},
               tab' = [tab EXCEPT ![k].pc = pc]
        PROVE  \E t \in Tabs : /\ tab' = [tab EXCEPT ![k] = t] /\ t.pc # "orcid"
                               /\ t.user = tab[k].user /\ t.crossed = tab[k].crossed
    <3> DEFINE t == [tab[k] EXCEPT !.pc = pc]
    <3>1. t \in Tabs /\ t.pc = pc /\ t.user = tab[k].user /\ t.crossed = tab[k].crossed
      BY <1>1 DEF Tabs
    <3>2. tab' = [tab EXCEPT ![k] = t]
      BY <2>1
    <3> HIDE DEF t
    <3> QED BY <3>1, <3>2
  <2>2. CASE Exchange(k)
    <3>1. PICK token \in {<<tab[k].user, k>>} \cup
                 (IF InTable(tab[k].user) THEN {user[tab[k].user].token} ELSE {}) :
            tab' = [tab EXCEPT ![k].pc = "answer", ![k].token = token]
      BY <2>2 DEF Exchange
    <3>2. token \in Tokens
      <4>1. k \in 0..MaxRegistrations /\ tab[k].user \in Users
        BY <1>1, AccessAssumption DEF Tabs
      <4>2. <<tab[k].user, k>> \in Tokens
        BY <4>1 DEF Tokens
      <4>3. ASSUME InTable(tab[k].user)
            PROVE  user[tab[k].user].token \in Tokens
        BY <4>1, <4>3 DEF AccessTypeOK, Accounts, InTable
      <4> QED BY <3>1, <4>2, <4>3
    <3> DEFINE t == [tab[k] EXCEPT !.pc = "answer", !.token = token]
    <3>3. t \in Tabs /\ t.pc = "answer" /\ t.user = tab[k].user /\ t.crossed = tab[k].crossed
      BY <1>1, <3>2 DEF Tabs
    <3>4. tab' = [tab EXCEPT ![k] = t]
      BY <3>1
    <3> HIDE DEF t
    <3> QED BY <3>3, <3>4
  <2> QED BY <2>1, <2>2 DEF TabStep, Callback, ExchangeFails, Receive, Lose, Answered
<1>3. UnderWay(k)
  BY DEF TabStep, Callback, Exchange, ExchangeFails, Receive, Lose, UnderWay
<1> QED BY <1>1, <1>2, <1>3

(* A registration that begins marks those of its user that are under way.  *)
LEMMA RegisterSteps ==
  ASSUME AccessTypeOK, NEW u \in Users, Register(u)
  PROVE  /\ tab' \in Seq(Tabs) /\ Len(tab') = Len(tab) + 1
         /\ \A j \in DOMAIN tab :
              /\ tab'[j].user = tab[j].user /\ tab'[j].pc = tab[j].pc
              /\ tab'[j].token = tab[j].token
              /\ tab'[j].crossed <=> (tab[j].crossed \/ (tab[j].user = u /\ UnderWay(j)))
         /\ LET new == tab'[Len(tab) + 1]
            IN /\ new.user = u /\ new.pc = "orcid" /\ new.token = NoToken
               /\ ~new.crossed => \A j \in DOMAIN tab : ~(tab[j].user = u /\ UnderWay(j))
<1> DEFINE others == {k \in DOMAIN tab : tab[k].user = u /\ UnderWay(k)}
           marked == [k \in DOMAIN tab |-> IF k \in others THEN [tab[k] EXCEPT !.crossed = TRUE]
                                                           ELSE tab[k]]
           new == [user |-> u, pc |-> "orcid", token |-> NoToken, crossed |-> others # {}]
<1>1. tab' = Append(marked, new)
  BY DEF Register
<1>2. Len(tab) \in Nat /\ DOMAIN tab = 1..Len(tab) /\ \A k \in DOMAIN tab : tab[k] \in Tabs
  BY TypesOfTabs
<1>3. ASSUME NEW k \in DOMAIN tab
      PROVE  /\ marked[k] \in Tabs
             /\ marked[k].user = tab[k].user /\ marked[k].pc = tab[k].pc
             /\ marked[k].token = tab[k].token
             /\ marked[k].crossed <=> (tab[k].crossed \/ (tab[k].user = u /\ UnderWay(k)))
  <2>1. tab[k] \in Tabs
    BY <1>2
  <2>2. CASE k \in others
    <3>1. marked[k] = [tab[k] EXCEPT !.crossed = TRUE] /\ tab[k].user = u /\ UnderWay(k)
      BY <2>2
    <3> HIDE DEF others, marked
    <3> QED BY <2>1, <3>1 DEF Tabs
  <2>3. CASE k \notin others
    <3>1. marked[k] = tab[k] /\ ~(tab[k].user = u /\ UnderWay(k))
      BY <2>3
    <3> HIDE DEF others, marked
    <3> QED BY <2>1, <3>1 DEF Tabs
  <2> QED BY <2>2, <2>3
<1>4. /\ new \in Tabs /\ new.user = u /\ new.pc = "orcid" /\ new.token = NoToken
      /\ ~new.crossed => \A j \in DOMAIN tab : ~(tab[j].user = u /\ UnderWay(j))
  BY DEF Tabs
<1>5. DOMAIN marked = 1..Len(tab)
  BY <1>2
<1> HIDE DEF others, marked, new
<1>6. marked \in Seq(Tabs) /\ Len(marked) = Len(tab)
  <2>1. marked = [k \in 1..Len(tab) |-> marked[k]]
    BY <1>5 DEF marked
  <2>2. marked \in [1..Len(tab) -> Tabs]
    BY <1>2, <1>3, <1>5, <2>1
  <2> QED BY <1>2, <2>2
<1>7. /\ tab' \in Seq(Tabs) /\ Len(tab') = Len(tab) + 1
      /\ \A j \in 1..Len(tab) : tab'[j] = marked[j]
      /\ tab'[Len(tab) + 1] = new
  BY <1>1, <1>2, <1>4, <1>6
<1> QED BY <1>2, <1>3, <1>4, <1>7

(* Only a registration that succeeds stores a token, and only its own.     *)
LEMMA TabStepStores ==
  ASSUME AccessTypeOK, Len(tab) <= MaxRegistrations, NEW k \in DOMAIN tab, TabStep(k)
  PROVE  \/ /\ user' = user /\ granted' = granted
            /\ tab'[k].token = tab[k].token
            /\ tab'[k].pc \in {"answer", "done"} => tab[k].pc = "answer"
         \/ /\ tab'[k].token \in Tokens
            /\ user' = [user EXCEPT ![tab[k].user] = Account(tab[k].user, tab'[k].token)]
            /\ granted' = IF InTable(tab[k].user) THEN granted
                          ELSE [granted EXCEPT ![tab[k].user] = DEFAULT_PERMISSIONS]
<1>1. tab[k] \in Tabs /\ tab \in Seq(Tabs) /\ Len(tab) \in Nat /\ k \in 1..Len(tab)
  BY TypesOfTabs DEF AccessTypeOK
<1>2. CASE Exchange(k)
  <2>1. PICK token \in {<<tab[k].user, k>>} \cup
               (IF InTable(tab[k].user) THEN {user[tab[k].user].token} ELSE {}) :
          /\ tab' = [tab EXCEPT ![k].pc = "answer", ![k].token = token]
          /\ user' = [user EXCEPT ![tab[k].user] = Account(tab[k].user, token)]
    BY <1>2 DEF Exchange
  <2>2. tab'[k].token = token
    BY <1>1, <2>1 DEF Tabs
  <2>3. tab[k].user \in Users /\ k \in 0..MaxRegistrations
    BY <1>1, AccessAssumption DEF Tabs
  <2>4. token \in Tokens
    <3>1. <<tab[k].user, k>> \in Tokens
      BY <2>3 DEF Tokens
    <3>2. ASSUME InTable(tab[k].user)
          PROVE  user[tab[k].user].token \in Tokens
      BY <2>3, <3>2 DEF AccessTypeOK, Accounts, InTable
    <3> QED BY <2>1, <3>1, <3>2
  <2> QED BY <1>2, <2>1, <2>2, <2>4 DEF Exchange
<1>3. CASE ~Exchange(k)
  <2>1. user' = user /\ granted' = granted
    BY <1>3 DEF TabStep, Callback, ExchangeFails, Receive, Lose
  <2>2. PICK pc \in {"exchange", "done", "refused", "failed"} :
          tab' = [tab EXCEPT ![k].pc = pc] /\ (pc = "done" => tab[k].pc = "answer")
    BY <1>3 DEF TabStep, Callback, ExchangeFails, Receive, Lose, Answered
  <2>3. tab'[k].token = tab[k].token /\ tab'[k].pc = pc
    BY <1>1, <2>2 DEF Tabs
  <2> QED BY <2>1, <2>2, <2>3
<1> QED BY <1>2, <1>3

LEMMA AccountFields ==
  ASSUME AccessTypeOK, NEW u \in Users, NEW token \in Tokens
  PROVE  /\ Account(u, token) \in Accounts
         /\ Account(u, token).token = token /\ ~Account(u, token).expired
         /\ Account(u, token).permissions = IF InTable(u) THEN user[u].permissions
                                            ELSE DEFAULT_PERMISSIONS
<1>1. user[u] \in Accounts
  BY DEF AccessTypeOK
<1>2. CASE InTable(u)
  BY <1>1, <1>2 DEF Account, Accounts
<1>3. CASE ~InTable(u)
  BY <1>3 DEF Account, Accounts, NewAccount, DEFAULT_PERMISSIONS
<1> QED BY <1>2, <1>3

(* Workers go on with the user that they began with.                       *)
LEMMA HandlingKeepsUsers ==
  ASSUME TypeOK, NEW w \in Workers, Handling(w), NEW x \in Workers
  PROVE  Acting(x)' => Acting(x) /\ worker'[x].user = worker[x].user
<1>1. worker \in [Workers -> Jobs] /\ worker[w] \in Jobs /\ worker[x] \in Jobs
  BY DEF TypeOK
<1>2. \A job : Becomes(w, job) => worker'[x] = IF x = w THEN job ELSE worker[x]
  BY <1>1 DEF Becomes
<1>3. ASSUME NEW code, Answer(w, code)
      PROVE  (x = w /\ worker'[x].pc = "done") \/ worker'[x] = worker[x]
  BY <1>1, <1>3 DEF Answer, Becomes, Jobs
<1>4. ASSUME NEW point \in Points, Goes(w, point)
      PROVE  (x = w /\ worker'[x].user = worker[x].user) \/ worker'[x] = worker[x]
  BY <1>1, <1>4 DEF Goes, Becomes, Jobs
<1>5. CASE PutNumber(w)
  <2>1. x = w => worker[w].pc = "number" /\ worker'[x].user = worker[x].user
    BY <1>1, <1>5 DEF PutNumber, At, Becomes, Jobs
  <2>2. x # w => worker'[x] = worker[x]
    BY <1>1, <1>5 DEF PutNumber, Becomes
  <2> QED BY <2>1, <2>2 DEF Acting, At
<1>6. CASE Done(w)
  BY <1>1, <1>6 DEF Done, Becomes, Idle, Acting, At
<1>7. CASE PutItems(w) \/ PutOwner(w)
  <2>1. worker[w].pc \in {"items", "owner"}
    BY <1>7 DEF PutItems, PutOwner, At
  <2>2. "owner" \in Points /\ "number" \in Points
    BY DEF Points
  <2> QED BY <1>3, <1>4, <1>7, <2>1, <2>2 DEF PutItems, PutOwner, Acting, At
<1>8. CASE PutInsert(w) \/ Fail(w)
  BY <1>3, <1>8 DEF PutInsert, Fail, Acting, At
<1> QED BY <1>5, <1>6, <1>7, <1>8 DEF Handling

(* A PUT begins only for a user whose token is known and good.             *)
LEMMA BearerPutBegins ==
  ASSUME TypeOK, NEW w \in Workers, NEW token, NEW uuid, NEW items,
         BearerPut(w, token, uuid, items), NEW x \in Workers, Acting(x)'
  PROVE  \/ x # w /\ worker'[x] = worker[x]
         \/ x = w /\ \E u \in Users : /\ worker'[x].user = u
                                      /\ MayPut(u) /\ ~user[u].expired
<1>1. worker \in [Workers -> Jobs]
  BY DEF TypeOK
<1>2. x # w => worker'[x] = worker[x]
  BY <1>1, ZenonT(60) DEF BearerPut, Unauthenticated, Forbidden, Answer, Put, Becomes
<1>3. ASSUME x = w
      PROVE  \E u \in Users : worker'[x].user = u /\ MayPut(u) /\ ~user[u].expired
  <2>1. ASSUME NEW code, Answer(w, code)
        PROVE  FALSE
    <3>1. worker'[w].pc = "done"
      BY <1>1, <2>1 DEF Answer, Becomes, Jobs
    <3> QED BY <1>3, <3>1 DEF Acting, At
  <2>2. PICK u \in Identity(token) : MayPut(u) /\ Put(w, u, uuid, items)
    BY <2>1 DEF BearerPut, Unauthenticated, Forbidden
  <2>3. worker'[w].user = u
    <3> DEFINE job == [Idle EXCEPT !.user = u, !.uuid = uuid, !.items = items]
    <3>1. \/ worker'[w] = [job EXCEPT !.pc = "done", !.status = 400]
          \/ worker'[w] = [job EXCEPT !.pc = "items"]
      BY <1>1, <2>2 DEF Put, Becomes
    <3> QED BY <3>1, ZenonT(60) DEF Idle
  <2> QED BY <1>3, <2>2, <2>3 DEF Identity
<1> QED BY <1>2, <1>3

LEMMA AccessNextKeepsAccounts ==
  ASSUME AccountsInv, BagInv, BagInv', [AccessNext]_allVars
  PROVE  AccountsInv'
<1>1. /\ AccessTypeOK /\ TypeOK /\ Len(tab) <= MaxRegistrations
      /\ PermissionsAsGranted /\ PutsArePermitted /\ AnswersHaveTokens
  BY DEF AccountsInv, BagInv
<1>2. ASSUME NEW w \in Workers, Acting(w)
      PROVE  worker[w].user \in Users
  BY <1>2 DEF BagInv, JobsOK, JobOK, Acting, At
<1>3. CASE UNCHANGED accessVars /\ \A x \in Workers :
             Acting(x)' => Acting(x) /\ worker'[x].user = worker[x].user
  <2>1. UNCHANGED <<user, cookie, tab, held, granted, overtaken>>
    BY <1>3 DEF accessVars
  <2>2. PutsArePermitted'
    BY <1>1, <1>3, <2>1 DEF PutsArePermitted, MayPut
  <2>3. /\ PermissionsAsGranted' /\ AccessTypeOK' /\ AnswersHaveTokens'
        /\ (Len(tab) <= MaxRegistrations)'
    BY <1>1, <2>1 DEF PermissionsAsGranted, AccessTypeOK, InTable, AnswersHaveTokens
  <2> QED BY <2>2, <2>3 DEF AccountsInv
<1>4. CASE UNCHANGED allVars
  <2>1. UNCHANGED accessVars /\ worker' = worker
    BY <1>4 DEF allVars, vars
  <2> QED BY <1>3, <2>1 DEF Acting, At
<1>5. CASE UNCHANGED accessVars /\ DatasetChange
  BY <1>3, <1>5 DEF DatasetChange, Acting, At
<1>6. ASSUME UNCHANGED accessVars, NEW w \in Workers, Handling(w)
      PROVE  AccountsInv'
  BY <1>1, <1>3, <1>6, HandlingKeepsUsers
<1>7. ASSUME NEW w \in Workers, NEW token, NEW uuid, NEW items, BearerPut(w, token, uuid, items)
      PROVE  AccountsInv'
  <2>1. overtaken' = overtaken \ {w} /\ UNCHANGED <<user, cookie, tab, held, granted>>
    BY <1>7 DEF BearerPut
  <2>2. /\ AccessTypeOK' /\ PermissionsAsGranted' /\ AnswersHaveTokens'
        /\ (Len(tab) <= MaxRegistrations)'
    BY <1>1, <2>1 DEF AccessTypeOK, PermissionsAsGranted, InTable, AnswersHaveTokens
  <2>3. ASSUME NEW x \in Workers, Acting(x)', x \notin overtaken'
        PROVE  MayPut(worker'[x].user) /\ ~user[worker'[x].user].expired
    <3>1. CASE x # w /\ worker'[x] = worker[x]
      BY <1>1, <2>1, <2>3, <3>1 DEF PutsArePermitted, Acting, At
    <3>2. CASE \E u \in Users : worker'[x].user = u /\ MayPut(u) /\ ~user[u].expired
      BY <3>2
    <3> QED BY <1>1, <1>7, <2>3, <3>1, <3>2, BearerPutBegins
  <2>4. PutsArePermitted'
    BY <2>1, <2>3 DEF PutsArePermitted, MayPut
  <2> QED BY <2>2, <2>4 DEF AccountsInv
<1>8. ASSUME NEW u \in Users, Register(u)
      PROVE  AccountsInv'
  <2>1. /\ cookie' = [cookie EXCEPT ![u] = Len(tab) + 1]
        /\ UNCHANGED <<user, held, granted, overtaken, worker>> /\ Len(tab) < MaxRegistrations
    BY <1>8 DEF Register, Cookie, vars
  <2>2. Len(tab) \in Nat /\ DOMAIN tab = 1..Len(tab)
    BY <1>1, TypesOfTabs
  <2>5. tab' \in Seq(Tabs) /\ Len(tab') = Len(tab) + 1 /\ AnswersHaveTokens'
    <3>1. tab' \in Seq(Tabs) /\ Len(tab') = Len(tab) + 1
      BY <1>1, <1>8, RegisterSteps
    <3>2. ASSUME NEW k \in DOMAIN tab', tab'[k].pc = "answer"
          PROVE  tab'[k].token # NoToken
      <4>1. k \in DOMAIN tab \/ k = Len(tab) + 1
        BY <2>2, <3>1, <3>2
      <4>2. k \in DOMAIN tab /\ tab[k].pc = "answer" /\ tab'[k].token = tab[k].token
        BY <1>1, <1>8, <3>2, <4>1, RegisterSteps
      <4> QED BY <1>1, <4>2 DEF AnswersHaveTokens
    <3> QED BY <3>1, <3>2 DEF AnswersHaveTokens
  <2>6. cookie' \in [Users -> 0..MaxRegistrations]
    BY <1>1, <2>1, <2>2, AccessAssumption DEF AccessTypeOK
  <2>7. AccessTypeOK' /\ PermissionsAsGranted' /\ (Len(tab) <= MaxRegistrations)'
    BY <1>1, <2>1, <2>2, <2>5, <2>6, AccessAssumption DEF AccessTypeOK, PermissionsAsGranted, InTable
  <2>8. PutsArePermitted'
    BY <1>1, <2>1 DEF PutsArePermitted, MayPut, Acting, At
  <2> QED BY <2>5, <2>7, <2>8 DEF AccountsInv
<1>9. ASSUME NEW u \in Users, NEW new \in Accounts,
             new.permissions \in SUBSET Needs,
             new.token = user[u].token, InTable(u),
             user' = [user EXCEPT ![u] = new], granted' = [granted EXCEPT ![u] = new.permissions],
             overtaken' = overtaken \cup {w \in Workers : Acting(w) /\ worker[w].user = u},
             UNCHANGED <<vars, cookie, tab, held>>
      PROVE  AccountsInv'
  <2>1. user \in [Users -> Accounts] /\ granted \in [Users -> SUBSET Needs]
    BY <1>1 DEF AccessTypeOK
  <2>2. user' \in [Users -> Accounts] /\ granted' \in [Users -> SUBSET Needs]
    BY <1>9, <2>1
  <2>3. AccessTypeOK' /\ AnswersHaveTokens' /\ (Len(tab) <= MaxRegistrations)'
    BY <1>1, <1>9, <2>2 DEF AccessTypeOK, AnswersHaveTokens
  <2>4. PermissionsAsGranted'
    BY <1>1, <1>9, <2>1 DEF PermissionsAsGranted, InTable
  <2>5. ASSUME NEW x \in Workers, Acting(x), x \notin overtaken'
        PROVE  MayPut(worker[x].user)' /\ ~user'[worker[x].user].expired
    <3>1. worker[x].user \in Users /\ worker[x].user # u /\ x \notin overtaken /\ worker' = worker
      BY <1>2, <1>9, <2>5 DEF vars
    <3>2. user'[worker[x].user] = user[worker[x].user]
      BY <1>9, <2>1, <3>1
    <3> QED BY <1>1, <2>5, <3>1, <3>2 DEF PutsArePermitted, MayPut
  <2>6. PutsArePermitted'
    <3>1. worker' = worker
      BY <1>9 DEF vars
    <3> QED BY <2>5, <3>1 DEF PutsArePermitted, MayPut, Acting, At
  <2> QED BY <2>3, <2>4, <2>6 DEF AccountsInv
<1>10. ASSUME NEW u \in Users, NEW permissions \in SUBSET Needs, SetPermissions(u, permissions)
       PROVE  AccountsInv'
  <2> DEFINE new == [user[u] EXCEPT !.permissions = permissions]
  <2>1. user[u] \in Accounts
    BY <1>1 DEF AccessTypeOK
  <2>2. new \in Accounts /\ new.permissions = permissions /\ new.token = user[u].token
    BY <2>1 DEF Accounts
  <2>3. user' = [user EXCEPT ![u] = new]
    BY <1>10 DEF SetPermissions
  <2> HIDE DEF new
  <2> QED BY <1>9, <1>10, <2>2, <2>3 DEF SetPermissions
<1>11. ASSUME NEW u \in Users, Expire(u)
       PROVE  AccountsInv'
  <2> DEFINE new == [user[u] EXCEPT !.expired = TRUE]
  <2>1. user[u] \in Accounts /\ granted \in [Users -> SUBSET Needs]
    BY <1>1 DEF AccessTypeOK
  <2>2. /\ new \in Accounts /\ new.permissions = user[u].permissions
        /\ new.permissions \in SUBSET Needs /\ new.token = user[u].token
    BY <2>1 DEF Accounts
  <2>3. user' = [user EXCEPT ![u] = new] /\ InTable(u) /\ granted' = granted
    BY <1>11 DEF Expire
  <2>4. granted' = [granted EXCEPT ![u] = new.permissions]
    BY <1>1, <2>1, <2>2, <2>3 DEF PermissionsAsGranted
  <2> HIDE DEF new
  <2> QED BY <1>9, <1>11, <2>2, <2>3, <2>4 DEF Expire
<1>12. ASSUME NEW k \in DOMAIN tab, TabStep(k)
       PROVE  AccountsInv'
  <2> DEFINE u == tab[k].user
  <2>1. /\ tab[k] \in Tabs /\ u \in Users /\ Len(tab) \in Nat /\ k \in DOMAIN tab
        /\ user \in [Users -> Accounts] /\ granted \in [Users -> SUBSET Needs]
        /\ cookie \in [Users -> 0..MaxRegistrations] /\ held \in [Users -> SUBSET Tokens]
    BY <1>1, TypesOfTabs DEF Tabs, AccessTypeOK
  <2>2. tab' \in Seq(Tabs) /\ Len(tab') = Len(tab)
    BY <1>1, <1>12, TabSteps
  <2>3. worker' = worker /\ overtaken' = overtaken
    BY <1>12 DEF TabStep, Callback, Exchange, ExchangeFails, Receive, Lose, vars
  <2>4. cookie' \in [Users -> 0..MaxRegistrations]
    <3>1. cookie' = cookie \/ cookie' = [cookie EXCEPT ![u] = NoState]
      BY <1>12 DEF TabStep, Callback, Exchange, ExchangeFails, Receive, Lose, Answered
    <3>2. NoState \in 0..MaxRegistrations
      BY AccessAssumption DEF NoState
    <3> QED BY <2>1, <3>1, <3>2
  <2>5. held' \in [Users -> SUBSET Tokens]
    <3>1. CASE Receive(k)
      <4>1. tab[k].token \in Tokens
        <5>1. tab[k].pc = "answer"
          BY <3>1 DEF Receive
        <5> QED BY <1>1, <2>1, <5>1 DEF Tabs, AnswersHaveTokens
      <4> QED BY <2>1, <3>1, <4>1 DEF Receive
    <3>2. CASE ~Receive(k)
      <4>1. held' = held
        BY <1>12, <3>2 DEF TabStep, Callback, Exchange, ExchangeFails, Lose
      <4> QED BY <2>1, <4>1
    <3> QED BY <3>1, <3>2
  <2> HIDE DEF u
  <2>6. /\ user' \in [Users -> Accounts] /\ granted' \in [Users -> SUBSET Needs]
        /\ PermissionsAsGranted' /\ PutsArePermitted'
    <3>1. CASE user' = user /\ granted' = granted
      <4>1. PermissionsAsGranted' /\ PutsArePermitted'
        BY <1>1, <2>3, <3>1 DEF PermissionsAsGranted, PutsArePermitted, MayPut, InTable, Acting, At
      <4> QED BY <2>1, <3>1, <4>1
    <3>2. ASSUME NEW new \in Accounts, user' = [user EXCEPT ![u] = new], ~new.expired,
                 new.permissions = IF InTable(u) THEN user[u].permissions ELSE DEFAULT_PERMISSIONS,
                 granted' = IF InTable(u) THEN granted
                            ELSE [granted EXCEPT ![u] = DEFAULT_PERMISSIONS]
          PROVE  /\ user' \in [Users -> Accounts] /\ granted' \in [Users -> SUBSET Needs]
                 /\ PermissionsAsGranted' /\ PutsArePermitted'
      <4>1. user' \in [Users -> Accounts] /\ granted' \in [Users -> SUBSET Needs]
        BY <2>1, <3>2 DEF DEFAULT_PERMISSIONS
      <4>2. PermissionsAsGranted'
        <5>1. ASSUME NEW x \in Users, InTable(x)'
              PROVE  user'[x].permissions = granted'[x]
          <6>1. CASE x = u
            BY <1>1, <2>1, <3>2, <6>1 DEF PermissionsAsGranted
          <6>2. CASE x # u
            <7>1. user'[x] = user[x] /\ granted'[x] = granted[x]
              BY <2>1, <3>2, <6>2
            <7> QED BY <1>1, <5>1, <7>1 DEF PermissionsAsGranted, InTable
          <6> QED BY <6>1, <6>2
        <5> QED BY <5>1 DEF PermissionsAsGranted
      <4>3. ASSUME NEW x \in Workers, Acting(x), x \notin overtaken
            PROVE  MayPut(worker[x].user)' /\ ~user'[worker[x].user].expired
        <5>1. worker[x].user \in Users /\ MayPut(worker[x].user) /\ ~user[worker[x].user].expired
          BY <1>1, <1>2, <4>3 DEF PutsArePermitted
        <5>2. worker' = worker
          BY <2>3
        <5>3. CASE worker[x].user = u
          <6>1. user'[worker[x].user] = new
            BY <2>1, <3>2, <5>3
          <6>2. "create-bag" \in new.permissions
            BY <3>2, <5>1, <5>3 DEF MayPut, DEFAULT_PERMISSIONS, Needs
          <6> QED BY <3>2, <5>2, <6>1, <6>2 DEF MayPut
        <5>4. CASE worker[x].user # u
          <6>1. user'[worker[x].user] = user[worker[x].user]
            BY <2>1, <3>2, <5>1, <5>4
          <6> QED BY <5>1, <5>2, <6>1 DEF MayPut
        <5> QED BY <5>3, <5>4
      <4>4. PutsArePermitted'
        BY <2>3, <4>3 DEF PutsArePermitted, MayPut, Acting, At
      <4> QED BY <4>1, <4>2, <4>4
    <3>3. CASE /\ tab'[k].token \in Tokens
               /\ user' = [user EXCEPT ![u] = Account(u, tab'[k].token)]
               /\ granted' = IF InTable(u) THEN granted
                             ELSE [granted EXCEPT ![u] = DEFAULT_PERMISSIONS]
      <4>1. /\ Account(u, tab'[k].token) \in Accounts /\ ~Account(u, tab'[k].token).expired
            /\ Account(u, tab'[k].token).permissions = IF InTable(u) THEN user[u].permissions
                                                       ELSE DEFAULT_PERMISSIONS
        BY <1>1, <2>1, <3>3, AccountFields
      <4> QED BY <3>2, <3>3, <4>1
    <3> QED BY <1>1, <1>12, <3>1, <3>3, TabStepStores DEF u
  <2>7. AnswersHaveTokens'
    <3>1. ASSUME NEW j \in DOMAIN tab, tab'[j].pc = "answer"
          PROVE  tab'[j].token # NoToken
      <4>1. CASE j = k
        BY <1>1, <1>12, <3>1, <4>1, TabStepStores, NoTokenIsNone DEF AnswersHaveTokens
      <4>2. CASE j # k
        BY <1>1, <1>12, <3>1, <4>2, TabSteps DEF AnswersHaveTokens
      <4> QED BY <4>1, <4>2
    <3> QED BY <1>1, <1>12, <3>1, TabSteps DEF AnswersHaveTokens
  <2>8. AccessTypeOK'
    BY <1>1, <2>2, <2>3, <2>4, <2>5, <2>6 DEF AccessTypeOK
  <2> QED BY <1>1, <2>2, <2>6, <2>7, <2>8 DEF AccountsInv
<1> QED BY <1>4, <1>5, <1>6, <1>7, <1>8, <1>10, <1>11, <1>12 DEF AccessNext, TabStep

(* A registration that begins takes the cookie, and marks whoever had it.  *)
LEMMA RegisterKeepsTabs ==
  ASSUME AccountsInv, TabsInv, NEW u \in Users, Register(u)
  PROVE  TabsInv'
<1> DEFINE n == Len(tab) + 1
<1>1. /\ AccessTypeOK /\ Len(tab) \in Nat /\ DOMAIN tab = 1..Len(tab)
      /\ \A j \in DOMAIN tab : tab[j] \in Tabs
      /\ CrossingsMarked /\ CookieIsTheirs /\ RefusalsHaveACause /\ NewestTokenWorks
  BY TypesOfTabs DEF AccountsInv, TabsInv
<1>2. DOMAIN tab' = 1..n /\ Len(tab') = n
  BY <1>1, RegisterSteps
<1>3. \A j \in DOMAIN tab :
        /\ tab'[j].user = tab[j].user /\ tab'[j].pc = tab[j].pc
        /\ tab'[j].token = tab[j].token
        /\ tab'[j].crossed <=> (tab[j].crossed \/ (tab[j].user = u /\ UnderWay(j)))
        /\ UnderWay(j)' <=> UnderWay(j)
  BY <1>1, RegisterSteps DEF UnderWay
<1>4. /\ tab'[n].user = u /\ tab'[n].pc = "orcid" /\ tab'[n].token = NoToken
      /\ ~tab'[n].crossed => \A j \in DOMAIN tab : ~(tab[j].user = u /\ UnderWay(j))
  BY <1>1, RegisterSteps
<1>5. user' = user /\ cookie' = [cookie EXCEPT ![u] = n] /\ cookie \in [Users -> 0..MaxRegistrations]
  BY <1>1 DEF Register, Cookie, AccessTypeOK
<1>6. \A j \in DOMAIN tab' : j \in DOMAIN tab \/ j = n
  BY <1>1, <1>2
<1>7. \A j \in DOMAIN tab : j < n /\ j # n /\ tab[j].user \in Users
  BY <1>1 DEF Tabs
<1>8. n \in Nat /\ ~(n < n)
  BY <1>1
<1> HIDE DEF n
<1>9. CrossingsMarked'
  <2> SUFFICES ASSUME NEW j \in DOMAIN tab', NEW k \in DOMAIN tab',
                      j < k, tab'[j].user = tab'[k].user, UnderWay(j)'
               PROVE  tab'[j].crossed /\ tab'[k].crossed
    BY DEF CrossingsMarked
  <2>1. j \in DOMAIN tab
    BY <1>1, <1>2, <1>6, <1>7, <1>8
  <2>2. CASE k \in DOMAIN tab
    BY <1>1, <1>3, <2>1, <2>2 DEF CrossingsMarked
  <2>3. CASE k = n
    BY <1>3, <1>4, <2>1, <2>3
  <2> QED BY <1>6, <2>2, <2>3
<1>10. CookieIsTheirs'
  <2> SUFFICES ASSUME NEW k \in DOMAIN tab', tab'[k].pc = "orcid", ~tab'[k].crossed
               PROVE  cookie'[tab'[k].user] = k
    BY DEF CookieIsTheirs
  <2>1. CASE k \in DOMAIN tab
    <3>1. tab[k].user # u /\ tab[k].pc = "orcid" /\ ~tab[k].crossed
      BY <1>3, <2>1 DEF UnderWay
    <3> QED BY <1>1, <1>3, <1>5, <1>7, <2>1, <3>1 DEF CookieIsTheirs
  <2>2. CASE k = n
    BY <1>4, <1>5, <2>2
  <2> QED BY <1>6, <2>1, <2>2
<1>11. RefusalsHaveACause'
  BY <1>1, <1>3, <1>4, <1>6 DEF RefusalsHaveACause
<1>12. NewestTokenWorks'
  <2> SUFFICES ASSUME NEW k \in DOMAIN tab', tab'[k].pc \in {"answer", "done"}, ~tab'[k].crossed,
                      \A j \in k + 1..Len(tab') :
                        tab'[j].user = tab'[k].user => tab'[j].token = NoToken
               PROVE  user[tab'[k].user].token = tab'[k].token
    BY <1>5 DEF NewestTokenWorks
  <2>1. k \in DOMAIN tab /\ tab[k].pc \in {"answer", "done"} /\ ~tab[k].crossed
    BY <1>3, <1>4, <1>6
  <2>2. ASSUME NEW j \in k + 1..Len(tab), tab[j].user = tab[k].user
        PROVE  tab[j].token = NoToken
    <3>1. j \in DOMAIN tab /\ j \in k + 1..Len(tab')
      BY <1>1, <1>2, <1>8, <2>1 DEF n
    <3> QED BY <1>3, <2>1, <2>2, <3>1
  <2> QED BY <1>1, <1>3, <2>1, <2>2 DEF NewestTokenWorks
<1> QED BY <1>9, <1>10, <1>11, <1>12 DEF TabsInv

(* A step of one registration leaves those of its user that nothing        *)
(* crossed alone, for both would be under way.                             *)
LEMMA TabStepKeepsTabs ==
  ASSUME AccountsInv, TabsInv, NEW k \in DOMAIN tab, TabStep(k)
  PROVE  TabsInv'
<1>1. /\ AccessTypeOK /\ Len(tab) \in Nat /\ DOMAIN tab = 1..Len(tab)
      /\ Len(tab) <= MaxRegistrations
      /\ \A j \in DOMAIN tab : tab[j] \in Tabs /\ tab[j].user \in Users
      /\ CrossingsMarked /\ CookieIsTheirs /\ RefusalsHaveACause /\ NewestTokenWorks
  BY TypesOfTabs DEF AccountsInv, TabsInv, Tabs
<1>2. /\ DOMAIN tab' = DOMAIN tab /\ Len(tab') = Len(tab) /\ UnderWay(k) /\ tab'[k].pc # "orcid"
      /\ \A j \in DOMAIN tab : /\ tab'[j].user = tab[j].user
                               /\ tab'[j].crossed = tab[j].crossed
                               /\ j # k => tab'[j] = tab[j]
  BY <1>1, TabSteps
<1>3. \A j \in DOMAIN tab : UnderWay(j)' => UnderWay(j)
  BY <1>2 DEF UnderWay
<1>4. ASSUME NEW j \in DOMAIN tab, j # k, tab[j].user = tab[k].user,
             UnderWay(j) \/ k < j
      PROVE  tab[j].crossed
  <2>1. j < k \/ k < j
    BY <1>1, <1>4
  <2> QED BY <1>1, <1>2, <1>4, <2>1 DEF CrossingsMarked
<1>5. CrossingsMarked'
  BY <1>1, <1>2, <1>3 DEF CrossingsMarked
<1>6. CookieIsTheirs'
  <2> SUFFICES ASSUME NEW j \in DOMAIN tab, tab'[j].pc = "orcid", ~tab[j].crossed
               PROVE  cookie'[tab[j].user] = j
    BY <1>2 DEF CookieIsTheirs
  <2>1. j # k /\ tab[j].pc = "orcid" /\ UnderWay(j)
    BY <1>2 DEF UnderWay
  <2>2. tab[j].user # tab[k].user
    BY <1>4, <2>1
  <2>3. cookie' = cookie \/ cookie' = [cookie EXCEPT ![tab[k].user] = NoState]
    BY DEF TabStep, Callback, Exchange, ExchangeFails, Receive, Lose, Answered
  <2>4. cookie \in [Users -> 0..MaxRegistrations]
    BY <1>1 DEF AccessTypeOK
  <2>5. cookie'[tab[j].user] = cookie[tab[j].user]
    BY <1>1, <2>2, <2>3, <2>4
  <2> QED BY <1>1, <2>1, <2>5 DEF CookieIsTheirs
<1>7. RefusalsHaveACause'
  <2> SUFFICES ASSUME NEW j \in DOMAIN tab, tab'[j].pc = "refused"
               PROVE  tab[j].crossed
    BY <1>2 DEF RefusalsHaveACause
  <2>1. CASE j # k
    BY <1>1, <1>2, <2>1 DEF RefusalsHaveACause
  <2>2. CASE j = k
    <3>1. \A pc : tab' = [tab EXCEPT ![k].pc = pc] => tab'[k].pc = pc
      BY <1>1 DEF Tabs
    <3>2. ~Exchange(k)
      <4>1. ASSUME NEW token, tab' = [tab EXCEPT ![k].pc = "answer", ![k].token = token]
            PROVE  tab'[k].pc = "answer"
        BY <1>1, <4>1 DEF Tabs
      <4> QED BY <2>2, <4>1 DEF Exchange
    <3>3. Callback(k) /\ ~StateMatches(k) /\ tab[k].pc = "orcid"
      BY <2>2, <3>1, <3>2 DEF TabStep, Callback, ExchangeFails, Receive, Lose, Answered
    <3> QED BY <1>1, <2>2, <3>3 DEF StateMatches, CookieIsTheirs
  <2> QED BY <2>1, <2>2
<1>8. NewestTokenWorks'
  <2> SUFFICES ASSUME NEW j \in DOMAIN tab, tab'[j].pc \in {"answer", "done"}, ~tab[j].crossed,
                      \A l \in j + 1..Len(tab) :
                        tab'[l].user = tab'[j].user => tab'[l].token = NoToken
               PROVE  user'[tab[j].user].token = tab'[j].token
    BY <1>2 DEF NewestTokenWorks
  <2>1. j \in 1..Len(tab) /\ k \in 1..Len(tab) /\ \A l \in j + 1..Len(tab) : l \in DOMAIN tab
    BY <1>1
  <2>2. CASE /\ user' = user /\ tab'[k].token = tab[k].token
             /\ tab'[k].pc \in {"answer", "done"} => tab[k].pc = "answer"
    <3>1. \A l \in DOMAIN tab : tab'[l].token = tab[l].token
      BY <1>2, <2>2
    <3>2. tab[j].pc \in {"answer", "done"}
      BY <1>2, <2>2
    <3> QED BY <1>1, <1>2, <2>1, <2>2, <3>1, <3>2 DEF NewestTokenWorks
  <2>3. CASE /\ tab'[k].token \in Tokens
             /\ user' = [user EXCEPT ![tab[k].user] = Account(tab[k].user, tab'[k].token)]
    <3>1. Account(tab[k].user, tab'[k].token).token = tab'[k].token /\ user \in [Users -> Accounts]
      BY <1>1, <2>3, AccountFields DEF AccessTypeOK
    <3>2. CASE j = k
      BY <1>1, <2>3, <3>1, <3>2
    <3>3. CASE j # k /\ tab[j].user = tab[k].user
      <4>1. j < k
        BY <1>1, <1>4, <3>3
      <4>2. k \in j + 1..Len(tab)
        BY <2>1, <4>1
      <4>3. tab'[k].token = NoToken
        BY <1>2, <3>3, <4>2
      <4> QED BY <2>3, <4>3, NoTokenIsNone
    <3>4. CASE j # k /\ tab[j].user # tab[k].user
      <4>1. user'[tab[j].user] = user[tab[j].user] /\ tab'[j] = tab[j]
        BY <1>1, <1>2, <2>3, <3>1, <3>4
      <4>2. ASSUME NEW l \in j + 1..Len(tab), tab[l].user = tab[j].user
            PROVE  tab[l].token = NoToken
        BY <1>2, <2>1, <3>4, <4>2
      <4> QED BY <1>1, <4>1, <4>2 DEF NewestTokenWorks
    <3> QED BY <3>2, <3>3, <3>4
  <2> QED BY <1>1, <2>2, <2>3, TabStepStores
<1> QED BY <1>5, <1>6, <1>7, <1>8 DEF TabsInv

LEMMA AccessNextKeepsTabs ==
  ASSUME AccountsInv, TabsInv, [AccessNext]_allVars
  PROVE  TabsInv'
<1>1. AccessTypeOK /\ \A k \in DOMAIN tab : tab[k].user \in Users
  BY TypesOfTabs DEF AccountsInv, Tabs
<1>2. CASE UNCHANGED <<cookie, tab>> /\ \A u \in Users : user'[u].token = user[u].token
  BY <1>1, <1>2 DEF TabsInv, CrossingsMarked, CookieIsTheirs, RefusalsHaveACause,
                    NewestTokenWorks, UnderWay
<1>3. CASE UNCHANGED allVars \/ UNCHANGED accessVars
  BY <1>2, <1>3 DEF allVars, accessVars
<1>4. ASSUME NEW w, NEW token, NEW uuid, NEW items, BearerPut(w, token, uuid, items)
      PROVE  TabsInv'
  BY <1>2, <1>4 DEF BearerPut
<1>5. ASSUME NEW u \in Users, Expire(u) \/ \E permissions \in SUBSET Needs : SetPermissions(u, permissions)
      PROVE  TabsInv'
  <2>1. UNCHANGED <<cookie, tab>>
    BY <1>5 DEF Expire, SetPermissions
  <2>2. user \in [Users -> Accounts]
    BY <1>1 DEF AccessTypeOK
  <2>3. ASSUME NEW x \in Users
        PROVE  user'[x].token = user[x].token
    <3>1. user[x] \in Accounts
      BY <2>2
    <3>2. CASE Expire(u)
      BY <2>2, <3>1, <3>2 DEF Expire, Accounts
    <3>3. ASSUME NEW permissions, user' = [user EXCEPT ![u].permissions = permissions]
          PROVE  user'[x].token = user[x].token
      BY <2>2, <3>1, <3>3 DEF Accounts
    <3> QED BY <1>5, <3>2, <3>3 DEF SetPermissions
  <2> QED BY <1>2, <2>1, <2>3
<1> QED BY <1>3, <1>4, <1>5, RegisterKeepsTabs, TabStepKeepsTabs DEF AccessNext, TabStep

LEMMA InitAccess == AccessInit => AccessInv
<1> SUFFICES ASSUME AccessInit PROVE AccessInv
  OBVIOUS
<1>1. BagInv
  BY InitBags DEF AccessInit
<1>2. tab = <<>> /\ Len(tab) = 0 /\ DOMAIN tab = {}
  BY DEF AccessInit
<1>3. /\ user \in [Users -> Accounts] /\ granted \in [Users -> SUBSET Needs]
      /\ held \in [Users -> SUBSET Tokens]
  <2>1. ASSUME NEW u \in Users
        PROVE  /\ EarlierToken(u) \in Tokens
               /\ NewAccount(EarlierToken(u)) \in Accounts /\ NoAccount \in Accounts
    <3>1. EarlierToken(u) \in Tokens
      BY AccessAssumption DEF EarlierToken, Tokens
    <3> QED BY <3>1 DEF NewAccount, NoAccount, Accounts, DEFAULT_PERMISSIONS
  <2>2. user \in [Users -> Accounts] /\ held \in [Users -> SUBSET Tokens]
    BY <2>1 DEF AccessInit
  <2>3. \A u \in Users : user[u].permissions \in SUBSET Needs
    BY <2>2 DEF Accounts
  <2> QED BY <2>2, <2>3 DEF AccessInit
<1>4. AccessTypeOK
  <2>1. <<>> \in Seq(Tabs) /\ 0 \in 0..MaxRegistrations
    BY AccessAssumption
  <2> QED BY <1>3, <2>1 DEF AccessInit, AccessTypeOK, NoState
<1>5. PermissionsAsGranted
  BY DEF AccessInit, PermissionsAsGranted
<1>6. PutsArePermitted
  BY DEF AccessInit, Init, Idle, PutsArePermitted, Acting, At
<1>7. Len(tab) <= MaxRegistrations /\ AnswersHaveTokens /\ TabsInv
  BY <1>2, AccessAssumption DEF AnswersHaveTokens, TabsInv, CrossingsMarked, CookieIsTheirs,
                                RefusalsHaveACause, NewestTokenWorks
<1> QED BY <1>4, <1>5, <1>6, <1>7 DEF AccessInv, AccountsInv

LEMMA AccessIsKept == AccessSpec => []AccessInv
<1>1. AccessInit => AccessInv
  BY InitAccess
<1>2. AccessInv /\ BagInv /\ BagInv' /\ [AccessNext]_allVars => AccessInv'
  BY AccessNextKeepsAccounts, AccessNextKeepsTabs DEF AccessInv
<1> QED BY <1>1, <1>2, BagsAreKept, PTL DEF AccessSpec

(* The table of users, the cookies and the registrations are well typed.   *)
THEOREM AccessIsTyped == AccessSpec => []AccessTypeOK
<1>1. AccessInv => AccessTypeOK
  BY DEF AccessInv, AccountsInv
<1> QED BY <1>1, AccessIsKept, PTL

(* A PUT that is being handled has the permission and the token that it    *)
(* needs, unless an administrator or the clock came between                *)
(* (UpdateBagPermission and _get_identity).                                *)
THEOREM OnlyPermittedPuts == AccessSpec => []PutsArePermitted
<1>1. AccessInv => PutsArePermitted
  BY DEF AccessInv, AccountsInv
<1> QED BY <1>1, AccessIsKept, PTL

(* Registering again keeps what the administrator granted                  *)
(* (add_user_or_update_credentials).                                       *)
THEOREM GrantsSurvive == AccessSpec => []PermissionsAsGranted
<1>1. AccessInv => PermissionsAsGranted
  BY DEF AccessInv, AccountsInv
<1> QED BY <1>1, AccessIsKept, PTL

(* The token of a registration that nothing crossed and that was the last  *)
(* to store one is the token in the table (add_user_or_update_credentials  *)
(* and registered).                                                        *)
THEOREM LastTokenWorks == AccessSpec => []NewestTokenWorks
<1>1. AccessInv => NewestTokenWorks
  BY DEF AccessInv, TabsInv
<1> QED BY <1>1, AccessIsKept, PTL

(* Only crossed registrations are refused for their state (registered).    *)
THEOREM OnlyCrossedRefused == AccessSpec => []RefusalsHaveACause
<1>1. AccessInv => RefusalsHaveACause
  BY DEF AccessInv, TabsInv
<1> QED BY <1>1, AccessIsKept, PTL
=============================================================================
