-------------------------- MODULE GraphStoreProofs --------------------------
(***************************************************************************)
(* Theorems about GraphStore, for any number of workers, paths and         *)
(* versions.  The first part is about the table of graphs and holds        *)
(* however GETs, PUTs and purges overlap; the second is about what the     *)
(* proxy keeps, if they do not overlap and purges arrive.                  *)
(***************************************************************************)
EXTENDS GraphStore, FiniteSetTheorems, TLAPS

-----------------------------------------------------------------------------
(* The table.                                                              *)

(* The newest version is the one that is live, if any is.                  *)
RowsOK(rows) ==
  /\ Len(rows) <= MaxVersions
  /\ \A k \in 1..Len(rows) : rows[k].wasRevisionOf = k - 2
  /\ \A k, l \in 1..Len(rows) : k < l /\ rows[l].deleted => rows[k].deleted

(* A PUT that has numbered its version has room for it.                    *)
InsertOK(j) == j.pc = "insert" => j.path \in GraphIds /\ j.max_version + 1 < MaxVersions

TableInv ==
  /\ TypeOK
  /\ \A id \in GraphIds : RowsOK(graph[id])
  /\ \A w \in Workers : InsertOK(worker[w])

LEMMA Assumptions ==
  /\ Under \in [Paths -> SUBSET GraphIds] /\ Under[Root] = GraphIds
  /\ GraphIds \cap SlashPaths = {} /\ Root \notin GraphIds \cup SlashPaths \cup BarePaths
  /\ NoPath \notin Paths /\ MaxVersions \in Nat
  /\ GraphIds \subseteq Paths /\ SlashPaths \subseteq Paths /\ Root \in Paths
BY GraphAssumption DEF Paths

LEMMA TypesOfGraphs ==
  ASSUME TypeOK, NEW id \in GraphIds
  PROVE  /\ graph[id] \in Seq(Rows) /\ Len(graph[id]) \in Nat
         /\ DOMAIN graph[id] = 1..Len(graph[id])
BY DEF TypeOK

(* Versions that are hidden are below those that are not: the newest live  *)
(* version is the newest.                                                  *)
LEMMA NewestIsLive ==
  ASSUME TableInv, NEW id \in GraphIds, Live(id) # {}
  PROVE  Len(graph[id]) \in Live(id) /\ Max(Live(id)) = Len(graph[id])
<1> DEFINE n == Len(graph[id])
<1>1. /\ n \in Nat /\ DOMAIN graph[id] = 1..n
      /\ \A k, l \in 1..n : k < l /\ graph[id][l].deleted => graph[id][k].deleted
  BY TypesOfGraphs DEF TableInv, RowsOK
<1>2. PICK k \in 1..n : ~graph[id][k].deleted
  BY <1>1 DEF Live
<1>3. n \in Live(id) /\ \A x \in Live(id) : x \in 1..n
  BY <1>1, <1>2 DEF Live
<1>4. \A y \in Live(id) : n >= y
  BY <1>1, <1>3
<1>5. \A x \in Live(id) : (\A y \in Live(id) : x >= y) => x = n
  BY <1>1, <1>3
<1> QED BY <1>3, <1>4, <1>5 DEF Max

LEMMA ResponsesAreTyped ==
  ASSUME TableInv, NEW ids \in SUBSET GraphIds, \A id \in ids : Live(id) # {}, NEW d \in Nat
  PROVE  Response(ids, d) \in Responses
<1> DEFINE versions == [id \in ids |-> Max(Live(id)) - 1]
<1>1. ASSUME NEW id \in ids
      PROVE  Max(Live(id)) - 1 \in 0..MaxVersions
  <2>1. /\ id \in GraphIds /\ Max(Live(id)) = Len(graph[id]) /\ Len(graph[id]) \in Nat
        /\ Len(graph[id]) \in Live(id) /\ Live(id) \subseteq 1..Len(graph[id])
    BY NewestIsLive, TypesOfGraphs DEF TableInv, Live
  <2>2. Len(graph[id]) <= MaxVersions
    BY <2>1 DEF TableInv, RowsOK
  <2> QED BY <2>1, <2>2, Assumptions
<1>2. versions \in [ids -> 0..MaxVersions]
  BY <1>1
<1> HIDE DEF versions
<1>3. versions \in UNION {[S -> 0..MaxVersions] : S \in SUBSET GraphIds}
  BY <1>2
<1> QED BY <1>3 DEF Response, Responses, versions

LEMMA ListedAreLive ==
  ASSUME NEW path \in Paths
  PROVE  Listed(path) \in SUBSET GraphIds /\ \A id \in Listed(path) : Live(id) # {}
BY Assumptions DEF Listed

LEMMA AnsweredIsTyped ==
  ASSUME NEW code \in Nat
  PROVE  /\ Answered(code) \in Jobs /\ Answered(code).pc = "done"
         /\ Idle \in Jobs /\ Idle.pc = "idle" /\ Idle.status = 0 /\ NoResponse \in Responses
<1>1. NoResponse \in Responses
  <2> DEFINE none == [id \in {} |-> 0]
  <2>1. none \in [{} -> 0..MaxVersions] /\ {} \in SUBSET GraphIds
    OBVIOUS
  <2> HIDE DEF none
  <2>2. none \in UNION {[S -> 0..MaxVersions] : S \in SUBSET GraphIds}
    BY <2>1
  <2> QED BY <2>2 DEF NoResponse, Responses, none
<1>2. Idle \in Jobs /\ Idle.pc = "idle" /\ Idle.status = 0
  BY <1>1 DEF Idle, Jobs, Points
<1>3. Answered(code) \in Jobs /\ Answered(code).pc = "done"
  <2>1. Idle \in Jobs /\ "done" \in Points
    BY <1>2 DEF Points
  <2> QED BY <2>1 DEF Answered, Jobs
<1> QED BY <1>1, <1>2, <1>3

(* A step of one worker that leaves good tables.                           *)
LEMMA WorkerStep ==
  ASSUME TableInv, NEW w \in Workers, NEW job \in Jobs, Becomes(w, job), InsertOK(job),
         graph' \in [GraphIds -> Seq(Rows)], \A id \in GraphIds : RowsOK(graph'[id]),
         dataset' \in Nat, cache' \in [Paths -> Responses \cup {Miss}]
  PROVE  TableInv'
<1>1. worker \in [Workers -> Jobs]
  BY DEF TableInv, TypeOK
<1>2. worker' \in [Workers -> Jobs]
  BY <1>1 DEF Becomes
<1>3. \A x \in Workers : InsertOK(worker'[x])
  BY <1>1 DEF TableInv, Becomes
<1> QED BY <1>2, <1>3 DEF TableInv, TypeOK

LEMMA LocalStep ==
  ASSUME TableInv, UNCHANGED <<graph, dataset, cache>>,
         NEW w \in Workers, NEW job \in Jobs, Becomes(w, job), InsertOK(job)
  PROVE  TableInv'
BY WorkerStep DEF TableInv, TypeOK

LEMMA PutKeepsTable ==
  ASSUME TableInv, NEW w \in Workers, NEW path \in GraphIds \cup SlashPaths, Put(w, path)
  PROVE  TableInv'
<1>1. CASE Becomes(w, Answered(400))
  <2>1. 400 \in Nat
    OBVIOUS
  <2>2. Answered(400) \in Jobs /\ InsertOK(Answered(400))
    BY <2>1, AnsweredIsTyped DEF InsertOK
  <2> QED BY <1>1, <2>2, LocalStep DEF Put
<1>2. CASE /\ path \in GraphIds /\ Len(graph[path]) + Cardinality(Writing) < MaxVersions
           /\ Becomes(w, [[Idle EXCEPT !.path = path] EXCEPT !.pc = "insert",
                                                             !.max_version = MaxVersion(path)])
  <2> DEFINE job == [[Idle EXCEPT !.path = path] EXCEPT !.pc = "insert",
                                                        !.max_version = MaxVersion(path)]
  <2>1. Len(graph[path]) \in Nat /\ Cardinality(Writing) \in Nat
    <3>1. Writing \in SUBSET Workers
      BY DEF Writing
    <3>2. IsFiniteSet(Writing)
      BY <3>1, GraphAssumption, FS_Subset
    <3> QED BY <1>2, <3>2, FS_CardinalityType, TypesOfGraphs DEF TableInv
  <2>2. MaxVersion(path) \in Nat \cup {Null} /\ MaxVersion(path) + 1 < MaxVersions
    <3>1. MaxVersion(path) = Len(graph[path]) - 1 /\ Null = -1
      BY DEF MaxVersion, Null
    <3> QED BY <1>2, <2>1, <3>1, Assumptions
  <2>3. Idle \in Jobs /\ "insert" \in Points /\ path \in Paths
    BY <1>2, AnsweredIsTyped, Assumptions DEF Points
  <2>4. /\ job \in Jobs /\ job.pc = "insert" /\ job.path = path
        /\ job.max_version = MaxVersion(path)
    BY <2>2, <2>3 DEF Jobs
  <2> HIDE DEF job
  <2>5. InsertOK(job)
    BY <1>2, <2>2, <2>4 DEF InsertOK
  <2>6. Becomes(w, job)
    BY <1>2 DEF job
  <2> QED BY <2>4, <2>5, <2>6, LocalStep DEF Put
<1> QED BY <1>1, <1>2 DEF Put

LEMMA SubpathsAreGiven ==
  ASSUME NEW id \in GraphIds
  PROVE  Subpaths(id) \in SUBSET Paths /\ Subpaths(id) # {}
BY Assumptions DEF Subpaths

LEMMA PutInsertKeepsTable ==
  ASSUME TableInv, NEW w \in Workers, PutInsert(w)
  PROVE  TableInv'
<1> DEFINE j == worker[w]
           row == [deleted |-> FALSE, wasRevisionOf |-> j.max_version]
           id == j.path
<1>1. /\ j \in Jobs /\ j.pc = "insert" /\ id \in GraphIds /\ j.max_version + 1 < MaxVersions
      /\ graph \in [GraphIds -> Seq(Rows)]
      /\ dataset' = dataset /\ cache' = cache
      /\ dataset \in Nat /\ cache \in [Paths -> Responses \cup {Miss}]
  BY DEF PutInsert, At, TableInv, InsertOK, TypeOK
<1>2. /\ \A code \in Nat : Answered(code) \in Jobs /\ InsertOK(Answered(code))
      /\ 201 \in Nat /\ 500 \in Nat
  BY AnsweredIsTyped DEF InsertOK
<1>3. CASE Becomes(w, Answered(500)) /\ UNCHANGED graph
  BY <1>1, <1>2, <1>3, LocalStep
<1>4. CASE /\ VersionFree(id, j.max_version + 1)
           /\ graph' = [graph EXCEPT ![id] = Append(@, row)]
           /\ \/ Becomes(w, [j EXCEPT !.pc = "purge", !.left = Subpaths(id), !.status = 201])
              \/ Becomes(w, Answered(201))
  <2> DEFINE next == [j EXCEPT !.pc = "purge", !.left = Subpaths(id), !.status = 201]
             rows == graph[id]
  <2>1. next \in Jobs /\ next.pc = "purge"
    <3>1. Subpaths(id) \in SUBSET Paths /\ "purge" \in Points
      BY <1>1, SubpathsAreGiven DEF Points
    <3> QED BY <1>1, <1>2, <3>1, ZenonT(60) DEF Jobs
  <2>2. Becomes(w, next) \/ Becomes(w, Answered(201))
    BY <1>4
  <2>3. row \in Rows /\ row.wasRevisionOf = j.max_version /\ ~row.deleted
    BY <1>1 DEF Rows, Jobs
  <2>4. j.max_version + 1 = Len(rows) /\ j.max_version \in Int
    <3>1. Null \in Int
      BY DEF Null
    <3> QED BY <1>1, <1>4, <3>1 DEF VersionFree, Jobs
  <2>5. /\ rows \in Seq(Rows) /\ Len(rows) \in Nat
        /\ Len(rows) < MaxVersions /\ RowsOK(rows)
    BY <1>1, <2>4 DEF TableInv
  <2> HIDE DEF next, row
  <2>6. /\ graph' \in [GraphIds -> Seq(Rows)] /\ graph'[id] = Append(rows, row)
        /\ \A x \in GraphIds : x # id => graph'[x] = graph[x]
    BY <1>1, <1>4, <2>3
  <2> HIDE DEF rows
  <2>7. RowsOK(Append(rows, row))
    <3>1. /\ Len(Append(rows, row)) = Len(rows) + 1
          /\ \A k \in 1..Len(rows) : Append(rows, row)[k] = rows[k]
          /\ Append(rows, row)[Len(rows) + 1] = row
      BY <2>3, <2>5
    <3> QED BY <2>3, <2>4, <2>5, <3>1, Assumptions DEF RowsOK
  <2>8. \A x \in GraphIds : RowsOK(graph'[x])
    BY <2>6, <2>7 DEF TableInv
  <2>9. InsertOK(next)
    BY <2>1 DEF InsertOK
  <2> QED BY <1>1, <1>2, <2>1, <2>2, <2>6, <2>8, <2>9, WorkerStep
<1> QED BY <1>3, <1>4 DEF PutInsert

(* Deleting hides every version there is.                                  *)
LEMMA DeleteKeepsTable ==
  ASSUME TableInv, NEW w \in Workers, NEW id \in GraphIds, Delete(w, id)
  PROVE  TableInv'
<1>1. /\ graph \in [GraphIds -> Seq(Rows)] /\ dataset' = dataset /\ cache' = cache
      /\ dataset \in Nat /\ cache \in [Paths -> Responses \cup {Miss}]
  BY DEF Delete, TableInv, TypeOK
<1>2. CASE Becomes(w, Answered(404)) /\ UNCHANGED graph
  <2>1. 404 \in Nat
    OBVIOUS
  <2>2. Answered(404) \in Jobs /\ InsertOK(Answered(404))
    BY <2>1, AnsweredIsTyped DEF InsertOK
  <2> QED BY <1>1, <1>2, <2>2, LocalStep
<1>3. CASE /\ graph' = [graph EXCEPT ![id] = Deleted(@)]
           /\ Becomes(w, [[Idle EXCEPT !.path = id] EXCEPT !.pc = "purge", !.left = Subpaths(id),
                                                           !.status = 204])
  <2> DEFINE job == [[Idle EXCEPT !.path = id] EXCEPT !.pc = "purge", !.left = Subpaths(id),
                                                      !.status = 204]
             rows == graph[id]
  <2>1. job \in Jobs /\ job.pc = "purge"
    <3>1. /\ Idle \in Jobs /\ Subpaths(id) \in SUBSET Paths /\ "purge" \in Points
          /\ id \in Paths /\ 204 \in Nat
      BY SubpathsAreGiven, AnsweredIsTyped, Assumptions DEF Points
    <3> QED BY <3>1, ZenonT(60) DEF Jobs
  <2>2. rows \in Seq(Rows) /\ Len(rows) \in Nat /\ DOMAIN rows = 1..Len(rows) /\ RowsOK(rows)
    BY <1>1 DEF TableInv
  <2>3. \A k \in 1..Len(rows) : rows[k] \in Rows
    BY <2>2
  <2>4. graph'[id] = Deleted(rows) /\ \A x \in GraphIds : x # id => graph'[x] = graph[x]
    BY <1>1, <1>3
  <2>5. Becomes(w, job)
    BY <1>3
  <2> HIDE DEF job, rows
  <2>6. \A k \in 1..Len(rows) : LET new == [rows[k] EXCEPT !.deleted = TRUE]
                                IN /\ new \in Rows /\ new.deleted
                                   /\ new.wasRevisionOf = rows[k].wasRevisionOf
    BY <2>3 DEF Rows
  <2>7. /\ Deleted(rows) \in Seq(Rows) /\ Len(Deleted(rows)) = Len(rows)
        /\ \A k \in 1..Len(rows) : /\ Deleted(rows)[k].deleted
                                   /\ Deleted(rows)[k].wasRevisionOf = rows[k].wasRevisionOf
    <3>1. Deleted(rows) = [k \in 1..Len(rows) |-> [rows[k] EXCEPT !.deleted = TRUE]]
      BY <2>2 DEF Deleted
    <3>2. Deleted(rows) \in [1..Len(rows) -> Rows]
      BY <2>6, <3>1
    <3>3. \A k \in 1..Len(rows) : Deleted(rows)[k] = [rows[k] EXCEPT !.deleted = TRUE]
      BY <3>1
    <3> HIDE DEF Deleted
    <3>4. Deleted(rows) \in Seq(Rows) /\ Len(Deleted(rows)) = Len(rows)
      BY <2>2, <3>1, <3>2
    <3> QED BY <2>6, <3>3, <3>4
  <2>8. RowsOK(Deleted(rows))
    BY <2>2, <2>7 DEF RowsOK
  <2>9. graph' \in [GraphIds -> Seq(Rows)] /\ \A x \in GraphIds : RowsOK(graph'[x])
    <3>1. \A x \in GraphIds : RowsOK(graph'[x])
      BY <2>4, <2>8 DEF TableInv
    <3>2. graph' \in [GraphIds -> Seq(Rows)]
      BY <1>1, <1>3, <2>7 DEF rows
    <3> QED BY <3>1, <3>2
  <2>10. InsertOK(job)
    BY <2>1 DEF InsertOK
  <2> QED BY <1>1, <2>1, <2>5, <2>9, <2>10, WorkerStep
<1> QED BY <1>2, <1>3 DEF Delete

LEMMA PurgersKeepTable ==
  ASSUME TableInv, NEW w \in Workers, Merge(w) \/ Purge(w)
  PROVE  TableInv'
<1>1. /\ worker[w] \in Jobs /\ graph \in [GraphIds -> Seq(Rows)]
      /\ \A id \in GraphIds : RowsOK(graph[id])
      /\ dataset \in Nat /\ cache \in [Paths -> Responses \cup {Miss}]
  BY DEF TableInv, TypeOK
<1>2. CASE Merge(w)
  <2> DEFINE job == [Idle EXCEPT !.pc = "purge", !.left = {Root}, !.status = 204]
  <2>1. job \in Jobs /\ job.pc = "purge"
    <3>1. Idle \in Jobs /\ {Root} \in SUBSET Paths /\ "purge" \in Points /\ 204 \in Nat
      BY AnsweredIsTyped, Assumptions DEF Points
    <3> QED BY <3>1, ZenonT(60) DEF Jobs
  <2>2. Becomes(w, job) /\ graph' = graph /\ cache' = cache /\ dataset' \in Nat
    BY <1>1, <1>2 DEF Merge
  <2> HIDE DEF job
  <2>3. InsertOK(job)
    BY <2>1 DEF InsertOK
  <2> QED BY <1>1, <2>1, <2>2, <2>3, WorkerStep
<1>3. CASE Purge(w)
  <2>1. PICK path \in worker[w].left :
          LET j == [worker[w] EXCEPT !.left = @ \ {path}]
          IN /\ IF j.left = {} THEN Becomes(w, Answered(j.status)) ELSE Becomes(w, j)
             /\ \/ cache' = [p \in Paths |-> IF p \in {path, Root} THEN Miss ELSE cache[p]]
                \/ ~PurgesArrive /\ UNCHANGED cache
    BY <1>3 DEF Purge
  <2> DEFINE j == [worker[w] EXCEPT !.left = @ \ {path}]
  <2>2. j \in Jobs /\ j.status \in Nat /\ j.pc = "purge"
    BY <1>1, <1>3 DEF Jobs, Purge, At
  <2>3. Becomes(w, Answered(j.status)) \/ Becomes(w, j)
    BY <2>1
  <2>4. cache' \in [Paths -> Responses \cup {Miss}]
    BY <1>1, <2>1
  <2>5. graph' = graph /\ dataset' = dataset
    BY <1>3 DEF Purge
  <2> HIDE DEF j
  <2>6. InsertOK(j) /\ InsertOK(Answered(j.status)) /\ Answered(j.status) \in Jobs
    BY <2>2, AnsweredIsTyped DEF InsertOK
  <2> QED BY <1>1, <2>2, <2>3, <2>4, <2>5, <2>6, WorkerStep
<1> QED BY <1>2, <1>3

LEMMA ReadersKeepTable ==
  ASSUME TableInv, NEW w \in Workers,
         (\E path \in Paths : Get(w, path)) \/ GetDataset(w) \/ GetOne(w) \/ Respond(w)
  PROVE  TableInv'
<1>1. /\ worker[w] \in Jobs /\ graph \in [GraphIds -> Seq(Rows)]
      /\ \A id \in GraphIds : RowsOK(graph[id])
      /\ dataset \in Nat /\ cache \in [Paths -> Responses \cup {Miss}]
  BY DEF TableInv, TypeOK
<1>2. ASSUME NEW path \in Paths, Get(w, path)
      PROVE  TableInv'
  <2> DEFINE response == Response(Listed(path), 0)
  <2>1. PICK pc \in {"dataset", "respond", "one"} :
          Becomes(w, [[Idle EXCEPT !.path = path, !.response = response] EXCEPT !.pc = pc])
    BY <1>2 DEF Get
  <2> DEFINE job == [[Idle EXCEPT !.path = path, !.response = response] EXCEPT !.pc = pc]
  <2>2. response \in Responses
    BY ListedAreLive, ResponsesAreTyped
  <2> HIDE DEF response
  <2>3. job \in Jobs /\ job.pc = pc
    <3>1. Idle \in Jobs /\ pc \in Points
      BY AnsweredIsTyped DEF Points
    <3> QED BY <2>2, <3>1 DEF Jobs
  <2>4. Becomes(w, job)
    BY <2>1
  <2> HIDE DEF job
  <2>5. InsertOK(job)
    BY <2>3 DEF InsertOK
  <2> QED BY <1>2, <2>3, <2>4, <2>5, LocalStep DEF Get
<1>3. CASE GetDataset(w)
  <2> DEFINE job == [worker[w] EXCEPT !.pc = "respond", !.response.dataset = dataset]
  <2>1. worker[w].response \in Responses
    BY <1>1 DEF Jobs
  <2>2. [worker[w].response EXCEPT !.dataset = dataset] \in Responses
    BY <1>1, <2>1 DEF Responses
  <2>3. job \in Jobs /\ job.pc = "respond"
    <3>1. "respond" \in Points
      BY DEF Points
    <3> QED BY <1>1, <2>2, <3>1 DEF Jobs
  <2>4. Becomes(w, job)
    BY <1>3 DEF GetDataset
  <2> HIDE DEF job
  <2>5. InsertOK(job)
    BY <2>3 DEF InsertOK
  <2> QED BY <1>3, <2>3, <2>4, <2>5, LocalStep DEF GetDataset
<1>4. CASE GetOne(w)
  <2>1. CASE Becomes(w, Answered(404))
    <3>1. 404 \in Nat
      OBVIOUS
    <3>2. Answered(404) \in Jobs /\ InsertOK(Answered(404))
      BY <3>1, AnsweredIsTyped DEF InsertOK
    <3> QED BY <1>4, <2>1, <3>2, LocalStep DEF GetOne
  <2>2. CASE /\ worker[w].path \in GraphIds /\ Live(worker[w].path) # {}
             /\ Becomes(w, [worker[w] EXCEPT !.pc = "respond",
                                             !.response = Response({worker[w].path}, 0)])
    <3> DEFINE response == Response({worker[w].path}, 0)
               job == [worker[w] EXCEPT !.pc = "respond", !.response = response]
    <3>1. response \in Responses
      <4>1. /\ {worker[w].path} \in SUBSET GraphIds
            /\ \A id \in {worker[w].path} : Live(id) # {}
        BY <2>2
      <4> QED BY <4>1, ResponsesAreTyped
    <3> HIDE DEF response
    <3>2. job \in Jobs /\ job.pc = "respond"
      <4>1. "respond" \in Points
        BY DEF Points
      <4> QED BY <1>1, <3>1, <4>1 DEF Jobs
    <3>3. Becomes(w, job)
      BY <2>2 DEF response
    <3> HIDE DEF job
    <3>4. InsertOK(job)
      BY <3>2 DEF InsertOK
    <3> QED BY <1>4, <3>2, <3>3, <3>4, LocalStep DEF GetOne
  <2> QED BY <1>4, <2>1, <2>2 DEF GetOne
<1>5. CASE Respond(w)
  <2>1. worker[w].response \in Responses
    BY <1>1 DEF Jobs
  <2>2. cache' \in [Paths -> Responses \cup {Miss}]
    BY <1>1, <1>5, <2>1 DEF Respond
  <2>3. 200 \in Nat
    OBVIOUS
  <2>4. Answered(200) \in Jobs /\ InsertOK(Answered(200))
    BY <2>3, AnsweredIsTyped DEF InsertOK
  <2> QED BY <1>1, <1>5, <2>2, <2>4, WorkerStep DEF Respond
<1> QED BY <1>2, <1>3, <1>4, <1>5

LEMMA OthersKeepTable ==
  ASSUME TableInv,
         \/ \E w \in Workers : Fail(w) \/ Done(w)
         \/ \E path \in Paths : Expire(path)
  PROVE  TableInv'
<1>1. 500 \in Nat
  OBVIOUS
<1>2. /\ Answered(500) \in Jobs /\ InsertOK(Answered(500))
      /\ Idle \in Jobs /\ InsertOK(Idle)
  BY <1>1, AnsweredIsTyped DEF InsertOK
<1>3. ASSUME NEW w \in Workers, Fail(w) \/ Done(w)
      PROVE  TableInv'
  BY <1>2, <1>3, LocalStep DEF Fail, Done
<1>4. ASSUME NEW path \in Paths, Expire(path)
      PROVE  TableInv'
  BY <1>4 DEF Expire, TableInv, TypeOK
<1> QED BY <1>3, <1>4

LEMMA NextKeepsTable ==
  ASSUME TableInv, [Next]_vars
  PROVE  TableInv'
<1>1. CASE UNCHANGED vars
  BY <1>1 DEF vars, TableInv, TypeOK
<1>2. CASE Next
  <2>1. ASSUME NEW w \in Workers,
               \/ \E path \in GraphIds \cup SlashPaths : Put(w, path)
               \/ PutInsert(w)
               \/ \E id \in GraphIds : Delete(w, id)
        PROVE  TableInv'
    BY <2>1, PutKeepsTable, PutInsertKeepsTable, DeleteKeepsTable
  <2>2. ASSUME NEW w \in Workers, Merge(w) \/ Purge(w)
        PROVE  TableInv'
    BY <2>2, PurgersKeepTable
  <2>3. ASSUME NEW w \in Workers,
               (\E path \in Paths : Get(w, path)) \/ GetDataset(w) \/ GetOne(w) \/ Respond(w)
        PROVE  TableInv'
    BY <2>3, ReadersKeepTable
  <2>4. ASSUME \/ \E w \in Workers : Fail(w) \/ Done(w)
               \/ \E path \in Paths : Expire(path)
        PROVE  TableInv'
    BY <2>4, OthersKeepTable
  <2> QED BY <1>2, <2>1, <2>2, <2>3, <2>4 DEF Next
<1> QED BY <1>1, <1>2

LEMMA InitTable == Init => TableInv
<1> SUFFICES ASSUME Init PROVE TableInv
  OBVIOUS
<1>1. Idle \in Jobs /\ InsertOK(Idle)
  <2>1. 0 \in Nat
    OBVIOUS
  <2> QED BY <2>1, AnsweredIsTyped DEF InsertOK
<1>2. <<>> \in Seq(Rows) /\ Len(<<>>) = 0
  OBVIOUS
<1>3. RowsOK(<<>>)
  BY <1>2, Assumptions DEF RowsOK
<1>4. TypeOK
  BY <1>1, <1>2 DEF Init, TypeOK
<1> QED BY <1>1, <1>3, <1>4 DEF Init, TableInv

LEMMA TableIsKept == Spec => []TableInv
<1>1. TableInv /\ [Next]_vars => TableInv'
  BY NextKeepsTable
<1> QED BY <1>1, InitTable, PTL DEF Spec

(* The table, the proxy's responses and the handlers' local variables are  *)
(* well typed; no response names more versions than there may be.          *)
THEOREM GraphsAreTyped == Spec => []TypeOK
<1>1. TableInv => TypeOK
  BY DEF TableInv
<1> QED BY <1>1, TableIsKept, PTL

(* However PUTs overlap, each version of a graph revises the one before it *)
(* (create_or_update_graph).                                               *)
THEOREM GraphVersionsFormAChain == Spec => []RevisionChain
<1>1. TableInv => RevisionChain
  <2> SUFFICES ASSUME TableInv, NEW id \in GraphIds, NEW k \in DOMAIN graph[id]
               PROVE  graph[id][k].wasRevisionOf = k - 2
    BY DEF RevisionChain
  <2> QED BY TypesOfGraphs DEF TableInv, RowsOK
<1> QED BY <1>1, TableIsKept, PTL

(* No version older than a deleted one is shown in its stead               *)
(* (delete_graph and get_graphs).                                          *)
THEOREM DeletedGraphsStayHidden == Spec => []DeletedStayHidden
<1>1. TableInv => DeletedStayHidden
  <2> SUFFICES ASSUME TableInv, NEW id \in GraphIds, NEW k \in DOMAIN graph[id],
                      NEW l \in DOMAIN graph[id], k < l, graph[id][l].deleted
               PROVE  graph[id][k].deleted
    BY DEF DeletedStayHidden
  <2> QED BY TypesOfGraphs DEF TableInv, RowsOK
<1> QED BY <1>1, TableIsKept, PTL

-----------------------------------------------------------------------------
(* The proxy.                                                              *)

(* The paths of PurgesSuffice.                                             *)
Scope == {Root} \cup SlashPaths \cup {id \in GraphIds : Under[id] = {}}

(* A worker that is about to drop what the proxy has for a path: every     *)
(* purge drops that of /graphs/ too.                                       *)
PurgedBy(w, path) == At(w, "purge") /\ (path \in worker[w].left \/ path = Root)
HasNew(path) == \E id \in Under[path] : Len(graph[id]) = 1
PathOK(path) == CacheIsFresh(path) \/ (\E w \in Workers : PurgedBy(w, path)) \/ HasNew(path)

(* What a GET has read is what it would read now.                          *)
ReadOK(j) ==
  /\ j.pc \in {"one", "dataset", "respond"} => j.path \in Paths
  /\ j.pc = "dataset" => j.path = Root /\ j.response = Response(Listed(Root), 0)
  /\ j.pc = "one" => j.path # Root /\ Listed(j.path) = {}
  /\ j.pc = "respond" => j.response = Fresh(j.path)

Apart == Reading = {} \/ Writing = {}
ReadsOK == \A w \in Workers : ReadOK(worker[w])
CacheInv == Apart /\ ReadsOK /\ \A path \in Scope : PathOK(path)

(* What workers of one kind there are after a step of w.                   *)
LEMMA StepOf ==
  ASSUME TableInv, NEW w \in Workers, NEW job, Becomes(w, job)
  PROVE  /\ worker'[w] = job /\ \A x \in Workers \ {w} : worker'[x] = worker[x]
         /\ job.pc \notin {"one", "dataset", "respond"} => Reading' \subseteq Reading
         /\ job.pc \notin {"insert", "purge"} => Writing' \subseteq Writing
         /\ w \in Reading => Writing' \subseteq Writing \cup {w}
<1>1. worker \in [Workers -> Jobs]
  BY DEF TableInv, TypeOK
<1>2. worker'[w] = job /\ \A x \in Workers \ {w} : worker'[x] = worker[x]
  BY <1>1 DEF Becomes
<1> QED BY <1>2 DEF Reading, Writing

(* A step of a worker that is not purging, which changes no table.         *)
LEMMA LocalCacheStep ==
  ASSUME TableInv, CacheInv, UNCHANGED <<graph, dataset, cache>>,
         NEW w \in Workers, ~At(w, "purge"), NEW job, Becomes(w, job), ReadOK(job),
         \/ job.pc \notin {"insert", "purge"} /\ (Writing = {} \/ job.pc \notin {"one", "dataset", "respond"})
         \/ job.pc = "insert" /\ Reading = {}
  PROVE  CacheInv'
<1>1. worker'[w] = job /\ \A x \in Workers \ {w} : worker'[x] = worker[x]
  BY StepOf
<1>2. Apart'
  BY StepOf DEF CacheInv, Apart
<1>3. /\ \A path \in Paths : Listed(path)' = Listed(path) /\ Fresh(path)' = Fresh(path)
      /\ Response(Listed(Root), 0)' = Response(Listed(Root), 0)
  BY DEF Fresh, Listed, Live, Response
<1>4. ASSUME NEW j, ReadOK(j)
      PROVE  ReadOK(j)'
  BY <1>3, <1>4 DEF ReadOK
<1>5. ReadsOK'
  BY <1>1, <1>4 DEF CacheInv, ReadsOK
<1>6. ASSUME NEW path \in Scope
      PROVE  PathOK(path)'
  <2>1. PathOK(path) /\ path \in Paths
    BY Assumptions DEF CacheInv, Scope
  <2>2. \A x \in Workers : PurgedBy(x, path) => PurgedBy(x, path)'
    BY <1>1 DEF PurgedBy, At
  <2>3. CacheIsFresh(path) => CacheIsFresh(path)'
    BY <1>3, <2>1 DEF CacheIsFresh
  <2>4. HasNew(path) => HasNew(path)'
    BY DEF HasNew
  <2> QED BY <2>1, <2>2, <2>3, <2>4 DEF PathOK
<1> QED BY <1>2, <1>5, <1>6 DEF CacheInv

(* A response changes only with the graphs that it is about.               *)
LEMMA FreshElsewhere ==
  ASSUME NEW id \in GraphIds, NEW path \in Scope, path # Root, path # id, id \notin Under[path],
         \A x \in GraphIds \ {id} : graph'[x] = graph[x]
  PROVE  /\ Fresh(path)' = Fresh(path)
         /\ HasNew(path) => HasNew(path)'
<1>1. Under[path] \in SUBSET GraphIds
  BY Assumptions DEF Scope
<1>2. \A x \in GraphIds \ {id} : Live(x)' = Live(x)
  BY DEF Live
<1>3. Listed(path)' = Listed(path) /\ Listed(path) \subseteq GraphIds \ {id}
  BY <1>1, <1>2 DEF Listed
<1>4. ASSUME NEW ids \in SUBSET (GraphIds \ {id})
      PROVE  Response(ids, 0)' = Response(ids, 0)
  BY <1>2, <1>4 DEF Response
<1>5. path \in GraphIds => Live(path)' = Live(path) /\ Response({path}, 0)' = Response({path}, 0)
  BY <1>2, <1>4
<1>6. Response(Listed(path), 0)' = Response(Listed(path), 0)
  BY <1>3, <1>4 DEF Response
<1>7. Fresh(path)' = Fresh(path)
  BY <1>3, <1>5, <1>6 DEF Fresh
<1>8. HasNew(path) => HasNew(path)'
  BY <1>1 DEF HasNew
<1> QED BY <1>7, <1>8

(* A write to a graph: whoever shows it is purged, or shows a graph that   *)
(* has had one version only, or cannot have been kept.                     *)
LEMMA WriteKeepsPaths ==
  ASSUME TableInv, CacheInv, NEW w \in Workers, ~At(w, "purge"), NEW job, Becomes(w, job),
         NEW id \in GraphIds, \A x \in GraphIds \ {id} : graph'[x] = graph[x],
         cache' = cache,
         \/ job.pc = "purge" /\ job.left = Subpaths(id)
         \/ graph[id] = <<>> /\ Len(graph'[id]) = 1
  PROVE  \A path \in Scope : PathOK(path)'
<1> SUFFICES ASSUME NEW path \in Scope PROVE PathOK(path)'
  OBVIOUS
<1>1. PathOK(path) /\ path \in Paths /\ Under[path] \subseteq GraphIds
  BY Assumptions DEF CacheInv, Scope
<1>2. worker'[w] = job /\ \A x \in Workers \ {w} : worker'[x] = worker[x]
  BY StepOf
<1>3. \A x \in Workers : PurgedBy(x, path) => PurgedBy(x, path)'
  BY <1>2 DEF PurgedBy, At
<1>4. CASE path = Root \/ id \in Under[path]
  <2>1. id \in Under[path] /\ path \notin {x \in GraphIds : Under[x] = {}}
    BY <1>4, Assumptions
  <2>2. path = Root \/ path \in SlashPaths
    BY <2>1 DEF Scope
  <2>3. CASE job.pc = "purge" /\ job.left = Subpaths(id)
    <3>1. PurgedBy(w, path)'
      BY <1>2, <2>1, <2>2, <2>3 DEF PurgedBy, At, Subpaths
    <3> QED BY <3>1 DEF PathOK
  <2>4. CASE Len(graph'[id]) = 1
    BY <2>1, <2>4 DEF PathOK, HasNew
  <2> QED BY <2>3, <2>4
<1>5. CASE path = id /\ path # Root /\ id \notin Under[path]
  <2>1. Under[id] = {}
    BY <1>5, Assumptions DEF Scope
  <2>2. CASE job.pc = "purge" /\ job.left = Subpaths(id)
    <3>1. PurgedBy(w, path)'
      BY <1>2, <1>5, <2>2 DEF PurgedBy, At, Subpaths
    <3> QED BY <3>1 DEF PathOK
  <2>3. CASE graph[id] = <<>>
    <3>1. Live(id) = {} /\ Listed(path) = {} /\ ~HasNew(path)
      BY <1>5, <2>1, <2>3 DEF Live, Listed, HasNew
    <3>2. Fresh(path) = Miss
      BY <1>5, <3>1 DEF Fresh
    <3>3. CacheIsFresh(path) => CacheIsFresh(path)'
      BY <3>2 DEF CacheIsFresh
    <3> QED BY <1>1, <1>3, <3>1, <3>3 DEF PathOK
  <2> QED BY <2>2, <2>3
<1>6. CASE path # Root /\ path # id /\ id \notin Under[path]
  <2>1. Fresh(path)' = Fresh(path) /\ (HasNew(path) => HasNew(path)')
    BY <1>6, FreshElsewhere
  <2> QED BY <1>1, <1>3, <2>1 DEF PathOK, CacheIsFresh
<1> QED BY <1>4, <1>5, <1>6

(* While a worker writes there are no reads to be overtaken.               *)
LEMMA NoReads ==
  ASSUME Reading' = {}
  PROVE  Apart' /\ ReadsOK'
BY DEF Apart, ReadsOK, ReadOK, Reading

LEMMA WritersKeepCache ==
  ASSUME TableInv, CacheInv, ReadsOverlapWrites = FALSE, NEW w \in Workers,
         \/ \E path \in GraphIds \cup SlashPaths : Put(w, path)
         \/ PutInsert(w)
         \/ \E id \in GraphIds : Delete(w, id)
         \/ Merge(w)
  PROVE  CacheInv'
<1>1. /\ \A code : Answered(code).pc = "done" /\ ReadOK(Answered(code))
      /\ graph \in [GraphIds -> Seq(Rows)]
  BY DEF Answered, Idle, ReadOK, TableInv, TypeOK
<1>2. ASSUME NEW path \in GraphIds \cup SlashPaths, Put(w, path)
      PROVE  CacheInv'
  <2>1. ~At(w, "purge") /\ Reading = {} /\ UNCHANGED <<graph, dataset, cache>>
    BY <1>2 DEF Put, At, MayWrite
  <2>2. CASE Becomes(w, Answered(400))
    BY <1>1, <2>1, <2>2, LocalCacheStep
  <2>3. ASSUME NEW job, Becomes(w, job), job.pc = "insert"
        PROVE  CacheInv'
    <3>1. ReadOK(job)
      BY <2>3 DEF ReadOK
    <3> QED BY <2>1, <2>3, <3>1, LocalCacheStep
  <2>4. [[Idle EXCEPT !.path = path] EXCEPT !.pc = "insert",
                                            !.max_version = MaxVersion(path)].pc = "insert"
    BY DEF Idle
  <2> QED BY <1>2, <2>2, <2>3, <2>4 DEF Put
<1>3. CASE PutInsert(w)
  <2> DEFINE j == worker[w]
             row == [deleted |-> FALSE, wasRevisionOf |-> j.max_version]
             next == [j EXCEPT !.pc = "purge", !.left = Subpaths(j.path), !.status = 201]
  <2>1. /\ ~At(w, "purge") /\ w \in Writing /\ j \in Jobs /\ j.path \in GraphIds
        /\ dataset' = dataset /\ cache' = cache
    BY <1>3 DEF PutInsert, At, Writing, TableInv, TypeOK, InsertOK
  <2>2. Reading = {}
    BY <2>1 DEF CacheInv, Apart
  <2>3. CASE Becomes(w, Answered(500)) /\ UNCHANGED graph
    BY <1>1, <2>1, <2>3, LocalCacheStep
  <2>4. CASE /\ VersionFree(j.path, j.max_version + 1)
             /\ graph' = [graph EXCEPT ![j.path] = Append(@, row)]
             /\ IF j.max_version + 1 > 0 THEN Becomes(w, next) ELSE Becomes(w, Answered(201))
    <3>1. /\ \A x \in GraphIds \ {j.path} : graph'[x] = graph[x]
          /\ graph'[j.path] = Append(graph[j.path], row)
      BY <1>1, <2>1, <2>4
    <3>2. next.pc = "purge" /\ next.left = Subpaths(j.path)
      BY <2>1 DEF Jobs
    <3> HIDE DEF next
    <3>3. CASE Becomes(w, next)
      <4>1. \A path \in Scope : PathOK(path)'
        BY <2>1, <3>1, <3>2, <3>3, WriteKeepsPaths
      <4>2. Reading' = {}
        BY <2>2, <3>2, <3>3, StepOf
      <4> QED BY <4>1, <4>2, NoReads DEF CacheInv
    <3>4. CASE Becomes(w, Answered(201)) /\ ~(j.max_version + 1 > 0)
      <4>1. graph[j.path] \in Seq(Rows) /\ Len(graph[j.path]) = j.max_version + 1
        BY <1>1, <2>1, <2>4 DEF VersionFree
      <4>2. graph[j.path] = <<>>
        BY <3>4, <4>1
      <4>3. Len(graph'[j.path]) = 1
        BY <3>1, <4>2
      <4>4. \A path \in Scope : PathOK(path)'
        BY <2>1, <3>1, <3>4, <4>2, <4>3, WriteKeepsPaths
      <4>5. Reading' = {}
        BY <1>1, <2>2, <3>4, StepOf
      <4> QED BY <4>4, <4>5, NoReads DEF CacheInv
    <3> QED BY <2>4, <3>3, <3>4
  <2> QED BY <1>3, <2>3, <2>4 DEF PutInsert
<1>4. ASSUME NEW id \in GraphIds, Delete(w, id)
      PROVE  CacheInv'
  <2> DEFINE next == [[Idle EXCEPT !.path = id] EXCEPT !.pc = "purge", !.left = Subpaths(id),
                                                       !.status = 204]
  <2>1. ~At(w, "purge") /\ Reading = {} /\ UNCHANGED <<dataset, cache>>
    BY <1>4 DEF Delete, At, MayWrite
  <2>2. CASE Becomes(w, Answered(404)) /\ UNCHANGED graph
    BY <1>1, <2>1, <2>2, LocalCacheStep
  <2>3. CASE graph' = [graph EXCEPT ![id] = Deleted(@)] /\ Becomes(w, next)
    <3>1. \A x \in GraphIds \ {id} : graph'[x] = graph[x]
      BY <1>1, <2>3
    <3>2. next.pc = "purge" /\ next.left = Subpaths(id)
      BY DEF Idle
    <3>3. Becomes(w, next)
      BY <2>3
    <3> HIDE DEF next
    <3>4. \A path \in Scope : PathOK(path)'
      BY <2>1, <3>1, <3>2, <3>3, WriteKeepsPaths
    <3>5. Reading' = {}
      BY <2>1, <3>2, <3>3, StepOf
    <3> QED BY <3>4, <3>5, NoReads DEF CacheInv
  <2> QED BY <1>4, <2>2, <2>3 DEF Delete
<1>5. CASE Merge(w)
  <2> DEFINE next == [Idle EXCEPT !.pc = "purge", !.left = {Root}, !.status = 204]
  <2>1. /\ ~At(w, "purge") /\ Reading = {} /\ UNCHANGED <<graph, cache>> /\ Becomes(w, next)
    BY <1>5 DEF Merge, At, MayWrite
  <2>2. next.pc = "purge" /\ next.left = {Root}
    BY DEF Idle
  <2> HIDE DEF next
  <2>3. worker'[w] = next /\ \A x \in Workers \ {w} : worker'[x] = worker[x]
    BY <2>1, StepOf
  <2>4. ASSUME NEW path \in Scope
        PROVE  PathOK(path)'
    <3>1. CASE path = Root
      <4>1. PurgedBy(w, path)'
        BY <2>2, <2>3, <3>1 DEF PurgedBy, At
      <4> QED BY <4>1 DEF PathOK
    <3>2. CASE path # Root
      <4>1. Fresh(path)' = Fresh(path) /\ (HasNew(path) => HasNew(path)')
        BY <2>1, <3>2 DEF Fresh, Listed, Live, Response, HasNew
      <4>2. \A x \in Workers : PurgedBy(x, path) => PurgedBy(x, path)'
        BY <2>1, <2>3 DEF PurgedBy, At
      <4>3. PathOK(path)
        BY DEF CacheInv
      <4> QED BY <2>1, <4>1, <4>2, <4>3 DEF PathOK, CacheIsFresh
    <3> QED BY <3>1, <3>2
  <2>5. Reading' = {}
    BY <2>1, <2>2, StepOf
  <2> QED BY <2>4, <2>5, NoReads DEF CacheInv
<1> QED BY <1>2, <1>3, <1>4, <1>5

LEMMA PurgeKeepsCache ==
  ASSUME TableInv, CacheInv, PurgesArrive = TRUE, NEW w \in Workers, Purge(w)
  PROVE  CacheInv'
<1>1. PICK gone \in worker[w].left :
        LET j == [worker[w] EXCEPT !.left = @ \ {gone}]
        IN /\ IF j.left = {} THEN Becomes(w, Answered(j.status)) ELSE Becomes(w, j)
           /\ cache' = [p \in Paths |-> IF p \in {gone, Root} THEN Miss ELSE cache[p]]
  BY DEF Purge
<1> DEFINE j == [worker[w] EXCEPT !.left = @ \ {gone}]
<1>2. worker[w] \in Jobs /\ worker[w].pc = "purge" /\ w \in Writing
  BY DEF Purge, At, Writing, TableInv, TypeOK
<1>3. j.pc = "purge" /\ j.left = worker[w].left \ {gone}
  BY <1>2 DEF Jobs
<1>4. PICK job : /\ Becomes(w, job) /\ job.pc \in {"purge", "done"}
                 /\ job = j \/ worker[w].left \ {gone} = {}
  <2>1. Answered(j.status).pc = "done"
    BY DEF Answered, Idle
  <2> HIDE DEF j
  <2> QED BY <1>1, <1>3, <2>1 DEF j
<1> HIDE DEF j
<1>5. worker'[w] = job /\ \A x \in Workers \ {w} : worker'[x] = worker[x]
  BY <1>4, StepOf
<1>6. Reading' = {}
  <2>1. Reading = {}
    BY <1>2 DEF CacheInv, Apart
  <2> QED BY <1>4, <2>1, StepOf
<1>7. ASSUME NEW path \in Scope
      PROVE  PathOK(path)'
  <2>1. PathOK(path) /\ path \in Paths
    BY Assumptions DEF CacheInv, Scope
  <2>2. CASE path \in {gone, Root}
    BY <1>1, <2>1, <2>2 DEF PathOK, CacheIsFresh
  <2>3. CASE path \notin {gone, Root}
    <3>1. cache'[path] = cache[path]
      BY <1>1, <2>1, <2>3
    <3>2. UNCHANGED <<graph, dataset>>
      BY DEF Purge
    <3>3. Fresh(path)' = Fresh(path) /\ (HasNew(path) => HasNew(path)')
      BY <3>2 DEF Fresh, Listed, Live, Response, HasNew
    <3>4. ASSUME NEW x \in Workers, PurgedBy(x, path)
          PROVE  PurgedBy(x, path)'
      <4>1. CASE x = w
        BY <1>3, <1>4, <1>5, <2>3, <3>4, <4>1 DEF PurgedBy, At
      <4>2. CASE x # w
        BY <1>5, <3>4, <4>2 DEF PurgedBy, At
      <4> QED BY <4>1, <4>2
    <3> QED BY <2>1, <3>1, <3>3, <3>4 DEF PathOK, CacheIsFresh
  <2> QED BY <2>2, <2>3
<1> QED BY <1>6, <1>7, NoReads DEF CacheInv

LEMMA ReadersKeepCache ==
  ASSUME TableInv, CacheInv, ReadsOverlapWrites = FALSE, NEW w \in Workers,
         (\E path \in Paths : Get(w, path)) \/ GetDataset(w) \/ GetOne(w)
  PROVE  CacheInv'
<1>1. worker[w] \in Jobs /\ ReadOK(worker[w])
  BY DEF TableInv, TypeOK, CacheInv, ReadsOK
<1>2. ASSUME NEW path \in Paths, Get(w, path)
      PROVE  CacheInv'
  <2> DEFINE response == Response(Listed(path), 0)
             pc == IF path = Root THEN "dataset" ELSE IF Listed(path) # {} THEN "respond" ELSE "one"
             job == [[Idle EXCEPT !.path = path, !.response = response] EXCEPT !.pc = pc]
  <2>1. Becomes(w, job) /\ ~At(w, "purge") /\ Writing = {} /\ UNCHANGED <<graph, dataset, cache>>
    BY <1>2 DEF Get, At, MayRead
  <2>2. job.path = path /\ job.response = response /\ job.pc = pc
    BY DEF Idle
  <2>3. response = Response(Listed(path), 0)
    OBVIOUS
  <2> HIDE DEF job, response
  <2>4. pc = "respond" => Fresh(path) = response
    BY <2>3 DEF Fresh
  <2>5. ReadOK(job)
    BY <2>2, <2>3, <2>4 DEF ReadOK
  <2>6. job.pc \notin {"insert", "purge"}
    BY <2>2
  <2> QED BY <2>1, <2>5, <2>6, LocalCacheStep
<1>3. CASE GetDataset(w)
  <2> DEFINE job == [worker[w] EXCEPT !.pc = "respond", !.response.dataset = dataset]
  <2>1. /\ Becomes(w, job) /\ worker[w].pc = "dataset" /\ w \in Reading
        /\ UNCHANGED <<graph, dataset, cache>>
    BY <1>3 DEF GetDataset, At, Reading
  <2>2. /\ job.path = Root /\ job.pc = "respond"
        /\ job.response = [worker[w].response EXCEPT !.dataset = dataset]
        /\ worker[w].response = Response(Listed(Root), 0)
    BY <1>1, <2>1 DEF ReadOK, Jobs
  <2>3. job.response = Fresh(Root)
    BY <2>2 DEF Response, Fresh
  <2> HIDE DEF job
  <2>4. ReadOK(job)
    BY <2>2, <2>3, Assumptions DEF ReadOK
  <2>5. Writing = {} /\ ~At(w, "purge")
    BY <2>1 DEF CacheInv, Apart, At
  <2> QED BY <2>1, <2>2, <2>4, <2>5, LocalCacheStep
<1>4. CASE GetOne(w)
  <2>1. /\ worker[w].pc = "one" /\ w \in Reading /\ UNCHANGED <<graph, dataset, cache>>
        /\ worker[w].path # Root /\ Listed(worker[w].path) = {} /\ worker[w].path \in Paths
    BY <1>1, <1>4 DEF GetOne, At, Reading, ReadOK
  <2>2. Writing = {} /\ ~At(w, "purge")
    BY <2>1 DEF CacheInv, Apart, At
  <2>3. CASE Becomes(w, Answered(404))
    <3>1. Answered(404).pc = "done"
      BY DEF Answered, Idle
    <3>2. ReadOK(Answered(404))
      BY <3>1 DEF ReadOK
    <3> QED BY <2>1, <2>2, <2>3, <3>1, <3>2, LocalCacheStep
  <2>4. CASE /\ worker[w].path \in GraphIds /\ Live(worker[w].path) # {}
             /\ Becomes(w, [worker[w] EXCEPT !.pc = "respond",
                                             !.response = Response({worker[w].path}, 0)])
    <3> DEFINE response == Response({worker[w].path}, 0)
               job == [worker[w] EXCEPT !.pc = "respond", !.response = response]
    <3>1. response = Fresh(worker[w].path)
      BY <2>1, <2>4 DEF Fresh
    <3> HIDE DEF response
    <3>2. job.pc = "respond" /\ job.response = response /\ job.path = worker[w].path
      BY <1>1 DEF Jobs
    <3>3. Becomes(w, job)
      BY <2>4 DEF response
    <3> HIDE DEF job
    <3>4. ReadOK(job)
      BY <2>1, <3>1, <3>2 DEF ReadOK
    <3> QED BY <2>1, <2>2, <3>2, <3>3, <3>4, LocalCacheStep
  <2> QED BY <1>4, <2>3, <2>4 DEF GetOne
<1> QED BY <1>2, <1>3, <1>4

(* A response or its expiry, which leave the tables alone.                 *)
LEMMA CacheChanges ==
  ASSUME TableInv, CacheInv, UNCHANGED <<graph, dataset>>,
         \A x \in Workers : At(x, "purge") => worker'[x] = worker[x],
         \A path \in Paths : \/ cache'[path] = cache[path]
                             \/ cache'[path] = Miss \/ cache'[path] = Fresh(path)
  PROVE  \A path \in Scope : PathOK(path)'
<1> SUFFICES ASSUME NEW path \in Scope PROVE PathOK(path)'
  OBVIOUS
<1>1. PathOK(path) /\ path \in Paths
  BY Assumptions DEF CacheInv, Scope
<1>2. Fresh(path)' = Fresh(path) /\ (HasNew(path) => HasNew(path)')
  BY DEF Fresh, Listed, Live, Response, HasNew
<1>3. \A x \in Workers : PurgedBy(x, path) => PurgedBy(x, path)'
  BY DEF PurgedBy, At
<1> QED BY <1>1, <1>2, <1>3 DEF PathOK, CacheIsFresh

LEMMA TablesKeepReads ==
  ASSUME UNCHANGED <<graph, dataset>>, NEW j, ReadOK(j)
  PROVE  ReadOK(j)'
BY DEF ReadOK, Fresh, Listed, Live, Response

LEMMA OthersKeepCache ==
  ASSUME TableInv, CacheInv, PurgesArrive = TRUE,
         \/ \E w \in Workers : Respond(w) \/ Fail(w) \/ Done(w)
         \/ \E path \in Paths : Expire(path)
  PROVE  CacheInv'
<1>1. \A code : Answered(code).pc = "done" /\ ReadOK(Answered(code))
  BY DEF Answered, Idle, ReadOK
<1>2. Idle.pc = "idle" /\ ReadOK(Idle)
  BY DEF Idle, ReadOK
<1>3. ASSUME NEW w \in Workers, Fail(w)
      PROVE  CacheInv'
  BY <1>1, <1>3, LocalCacheStep DEF Fail
<1>4. ASSUME NEW w \in Workers, Done(w)
      PROVE  CacheInv'
  <2>1. ~At(w, "purge")
    BY <1>4 DEF Done, At
  <2> QED BY <1>2, <1>4, <2>1, LocalCacheStep DEF Done
<1>5. ASSUME NEW w \in Workers, Respond(w)
      PROVE  CacheInv'
  <2>1. /\ worker[w].pc = "respond" /\ ReadOK(worker[w]) /\ w \in Reading
        /\ UNCHANGED <<graph, dataset>> /\ Becomes(w, Answered(200))
        /\ cache' = [cache EXCEPT ![worker[w].path] = worker[w].response]
    BY <1>5 DEF Respond, At, Reading, CacheInv, ReadsOK
  <2>2. worker[w].response = Fresh(worker[w].path) /\ worker[w].path \in Paths
    BY <2>1 DEF ReadOK
  <2>3. worker'[w] = Answered(200) /\ \A x \in Workers \ {w} : worker'[x] = worker[x]
    BY <2>1, StepOf
  <2>4. cache \in [Paths -> Responses \cup {Miss}]
    BY DEF TableInv, TypeOK
  <2>5. \A path \in Scope : PathOK(path)'
    <3>1. \A path \in Paths : cache'[path] = cache[path] \/ cache'[path] = Fresh(path)
      BY <2>1, <2>2, <2>4
    <3>2. \A x \in Workers : At(x, "purge") => worker'[x] = worker[x]
      BY <2>1, <2>3 DEF At
    <3> QED BY <2>1, <3>1, <3>2, CacheChanges
  <2>6. ReadsOK'
    BY <1>1, <2>1, <2>3, TablesKeepReads DEF CacheInv, ReadsOK
  <2>7. Apart'
    BY <1>1, <2>1, StepOf DEF CacheInv, Apart
  <2> QED BY <2>5, <2>6, <2>7 DEF CacheInv
<1>6. ASSUME NEW path \in Paths, Expire(path)
      PROVE  CacheInv'
  <2>1. UNCHANGED <<graph, dataset, worker>> /\ cache' = [cache EXCEPT ![path] = Miss]
    BY <1>6 DEF Expire
  <2>2. cache \in [Paths -> Responses \cup {Miss}]
    BY DEF TableInv, TypeOK
  <2>3. \A p \in Scope : PathOK(p)'
    <3>1. \A p \in Paths : cache'[p] = cache[p] \/ cache'[p] = Miss
      BY <2>1, <2>2
    <3> QED BY <2>1, <3>1, CacheChanges
  <2>4. ReadsOK' /\ Apart'
    BY <2>1, TablesKeepReads DEF CacheInv, ReadsOK, Apart, Reading, Writing
  <2> QED BY <2>3, <2>4 DEF CacheInv
<1> QED BY <1>3, <1>4, <1>5, <1>6

LEMMA NextKeepsCache ==
  ASSUME TableInv, CacheInv, ReadsOverlapWrites = FALSE, PurgesArrive = TRUE, [Next]_vars
  PROVE  CacheInv'
<1>1. CASE UNCHANGED vars
  <2>1. UNCHANGED <<graph, dataset, cache, worker>>
    BY <1>1 DEF vars
  <2>2. \A p \in Scope : PathOK(p)'
    BY <2>1, CacheChanges
  <2>3. ReadsOK' /\ Apart'
    BY <2>1, TablesKeepReads DEF CacheInv, ReadsOK, Apart, Reading, Writing
  <2> QED BY <2>2, <2>3 DEF CacheInv
<1>2. CASE Next
  <2>1. ASSUME NEW w \in Workers,
               \/ \E path \in GraphIds \cup SlashPaths : Put(w, path)
               \/ PutInsert(w)
               \/ \E id \in GraphIds : Delete(w, id)
               \/ Merge(w)
        PROVE  CacheInv'
    BY <2>1, WritersKeepCache
  <2>2. ASSUME NEW w \in Workers, Purge(w)
        PROVE  CacheInv'
    BY <2>2, PurgeKeepsCache
  <2>3. ASSUME NEW w \in Workers,
               (\E path \in Paths : Get(w, path)) \/ GetDataset(w) \/ GetOne(w)
        PROVE  CacheInv'
    BY <2>3, ReadersKeepCache
  <2>4. ASSUME \/ \E w \in Workers : Respond(w) \/ Fail(w) \/ Done(w)
               \/ \E path \in Paths : Expire(path)
        PROVE  CacheInv'
    BY <2>4, OthersKeepCache
  <2> QED BY <1>2, <2>1, <2>2, <2>3, <2>4 DEF Next
<1> QED BY <1>1, <1>2

LEMMA InitCache == Init => CacheInv
<1> SUFFICES ASSUME Init PROVE CacheInv
  OBVIOUS
<1>1. Idle.pc = "idle" /\ \A w \in Workers : worker[w] = Idle
  BY DEF Init, Idle
<1>2. Apart /\ ReadsOK
  BY <1>1 DEF Apart, Reading, ReadsOK, ReadOK
<1>3. ASSUME NEW path \in Scope
      PROVE  PathOK(path)
  <2>1. path \in Paths
    BY Assumptions DEF Scope
  <2> QED BY <2>1 DEF Init, PathOK, CacheIsFresh
<1> QED BY <1>2, <1>3 DEF CacheInv

(* With purges that arrive, and no GET overlapping a write, the purges of  *)
(* purge_graph() and purge_graphs() are enough, but for groups with a new  *)
(* graph and groups asked for without the slash.                           *)
THEOREM PurgesAreEnough ==
  ASSUME ReadsOverlapWrites = FALSE, PurgesArrive = TRUE
  PROVE  Spec => []PurgesSuffice
<1>1. TableInv /\ CacheInv /\ [Next]_vars => CacheInv'
  BY NextKeepsCache
<1>2. CacheInv => PurgesSuffice
  BY DEF CacheInv, PurgesSuffice, Scope, PathOK, PurgedBy, HasNew
<1> QED BY <1>1, <1>2, InitCache, TableIsKept, PTL DEF Spec
=============================================================================
