----------------------------- MODULE GraphStore -----------------------------
(***************************************************************************)
(* Named graphs and the proxy that caches them: PUT, DELETE and GET of     *)
(* /graphs/<path> and GET /graphs/ (resources.py), create_or_update_graph  *)
(* and delete_graph (database.py), and the purges of cache.py.             *)
(*                                                                         *)
(* A GET reads the database, and the proxy keeps what it answers for a     *)
(* week (cache.medium_time).  A PUT or DELETE writes to the database and   *)
(* then tells the proxy, path by path, to drop what it has; so does a      *)
(* merge of a patch, for /graphs/ holds the dataset too.                   *)
(*                                                                         *)
(* As in BagStore, SELECT MAX(version) is not in the INSERT's transaction. *)
(* Version v of a graph is graph[id][v + 1].  Paths with a suffix such as  *)
(* .json are kept and purged like those without and are left out, and so   *)
(* is ?version=v, which is neither listed nor purged.                      *)
(***************************************************************************)
EXTENDS Integers, FiniteSets, Sequences, FiniteSetsExt

CONSTANTS
  Workers,
  GraphIds,       \* paths below /graphs/ that clients PUT
  SlashPaths,     \* paths that end in "/"
  BarePaths,      \* paths of groups without the "/"
  Root,           \* the path of /graphs/ itself
  Under,          \* the graphs that lie below a path
  Miss,           \* the proxy has no response
  NoPath,
  ReadsOverlapWrites, \* FALSE: no GET is under way during a PUT, DELETE or merge
  PurgesArrive,       \* TRUE: the proxy gets every purge
  MaxVersions,
  MaxDatasets

Paths == GraphIds \cup SlashPaths \cup BarePaths \cup {Root}

ASSUME GraphAssumption ==
  /\ IsFiniteSet(Workers)
  /\ Under \in [Paths -> SUBSET GraphIds] /\ Under[Root] = GraphIds
  /\ GraphIds \cap SlashPaths = {} /\ Root \notin GraphIds \cup SlashPaths \cup BarePaths
  /\ NoPath \notin Paths
  /\ ReadsOverlapWrites \in BOOLEAN /\ PurgesArrive \in BOOLEAN
  /\ MaxVersions \in Nat /\ MaxDatasets \in Nat

VARIABLES
  graph,          \* table graph
  dataset,        \* number of the newest dataset
  cache,          \* what the proxy has for a path
  worker

vars == <<graph, dataset, cache, worker>>

Null == -1
Rows == [deleted : BOOLEAN, wasRevisionOf : Nat \cup {Null}]

Live(id) == {k \in DOMAIN graph[id] : ~graph[id][k].deleted}
Listed(path) == {id \in Under[path] : Live(id) # {}}

(* A response names the version of each graph in it, and of the dataset.   *)
Response(ids, d) == [graphs |-> [id \in ids |-> Max(Live(id)) - 1], dataset |-> d]
Responses == [graphs : UNION {[S -> 0..MaxVersions] : S \in SUBSET GraphIds}, dataset : Nat]

(* What GET <path> answers if nothing changes meanwhile; Miss for 404.     *)
Fresh(path) ==
  IF path = Root THEN Response(Listed(Root), dataset)
  ELSE IF Listed(path) # {} THEN Response(Listed(path), 0)
  ELSE IF path \in GraphIds /\ Live(path) # {} THEN Response({path}, 0)
  ELSE Miss

-----------------------------------------------------------------------------
Points == {"idle", "insert", "purge", "one", "dataset", "respond", "done"}
NoResponse == [graphs |-> [id \in {} |-> 0], dataset |-> 0]
Idle == [pc |-> "idle", path |-> NoPath, max_version |-> Null,
         left |-> {}, response |-> NoResponse, status |-> 0]
Jobs == [pc : Points, path : Paths \cup {NoPath}, max_version : Nat \cup {Null},
         left : SUBSET Paths, response : Responses, status : Nat]

At(w, point) == worker[w].pc = point
Becomes(w, job) == worker' = [worker EXCEPT ![w] = job]
Answered(code) == [Idle EXCEPT !.pc = "done", !.status = code]

Reading == {w \in Workers : worker[w].pc \in {"one", "dataset", "respond"}}
Writing == {w \in Workers : worker[w].pc \in {"insert", "purge"}}
MayWrite == Reading # {} => ReadsOverlapWrites
MayRead == Writing # {} => ReadsOverlapWrites

(* subpaths(): the path itself and, up from it, the groups that it is in.  *)
SubpathsItselfOnly(id) == {id}
Subpaths(id) == {id} \cup {path \in SlashPaths : id \in Under[path]}

-----------------------------------------------------------------------------
(* PUT /graphs/<path> : Graph.put and create_or_update_graph().            *)
MaxVersionFromOne(id) == Len(graph[id]) - 2
MaxVersion(id) == Len(graph[id]) - 1

Put(w, path) ==
  /\ At(w, "idle") /\ MayWrite
  /\ LET job == [Idle EXCEPT !.path = path]
     IN \/ path \in SlashPaths /\ Becomes(w, Answered(400))
        \/ /\ path \in GraphIds
           /\ Len(graph[path]) + Cardinality(Writing) < MaxVersions
           /\ Becomes(w, [job EXCEPT !.pc = "insert",
                                     !.max_version = MaxVersion(path)])
  /\ UNCHANGED <<graph, dataset, cache>>

VersionAlwaysFree(id, version) == TRUE
VersionFree(id, version) == version = Len(graph[id])

PutInsert(w) ==
  /\ At(w, "insert")
  /\ LET j == worker[w]
         row == [deleted |-> FALSE, wasRevisionOf |-> j.max_version]
     IN \/ /\ VersionFree(j.path, j.max_version + 1)
           /\ graph' = [graph EXCEPT ![j.path] = Append(@, row)]
           /\ IF j.max_version + 1 > 0
              THEN Becomes(w, [j EXCEPT !.pc = "purge", !.left = Subpaths(j.path),
                                        !.status = 201])
              ELSE Becomes(w, Answered(201))
        \/ /\ ~VersionFree(j.path, j.max_version + 1)
           /\ Becomes(w, Answered(500))
           /\ UNCHANGED graph
  /\ UNCHANGED <<dataset, cache>>

(* DELETE /graphs/<path> : Graph.delete and delete_graph().                *)
DeletedNewest(rows) == [rows EXCEPT ![Len(rows)].deleted = TRUE]
Deleted(rows) == [k \in DOMAIN rows |-> [rows[k] EXCEPT !.deleted = TRUE]]

Delete(w, id) ==
  /\ At(w, "idle") /\ MayWrite
  /\ LET job == [Idle EXCEPT !.path = id]
     IN IF graph[id] = <<>>
        THEN /\ Becomes(w, Answered(404))
             /\ UNCHANGED graph
        ELSE /\ graph' = [graph EXCEPT ![id] = Deleted(@)]
             /\ Becomes(w, [job EXCEPT !.pc = "purge", !.left = Subpaths(id), !.status = 204])
  /\ UNCHANGED <<dataset, cache>>

(* A merge of a patch (see Patching), followed by cache.purge_graphs().    *)
Merge(w) ==
  /\ At(w, "idle") /\ MayWrite
  /\ dataset < MaxDatasets
  /\ dataset' = dataset + 1
  /\ Becomes(w, [Idle EXCEPT !.pc = "purge", !.left = {Root}, !.status = 204])
  /\ UNCHANGED <<graph, cache>>

(* One POST to the proxy.  Every rule of an endpoint that starts with      *)
(* "graph" is in it, the one of /graphs/ too.                              *)
Purge(w) ==
  /\ At(w, "purge")
  /\ \E path \in worker[w].left :
       LET j == [worker[w] EXCEPT !.left = @ \ {path}]
       IN /\ IF j.left = {} THEN Becomes(w, Answered(j.status)) ELSE Becomes(w, j)
          /\ \/ cache' = [p \in Paths |-> IF p \in {path, Root} THEN Miss ELSE cache[p]]
             \/ ~PurgesArrive /\ UNCHANGED cache
  /\ UNCHANGED <<graph, dataset>>

-----------------------------------------------------------------------------
(* GET /graphs/ and GET /graphs/<path>, when the proxy has no response.    *)
Get(w, path) ==
  /\ At(w, "idle") /\ MayRead
  /\ cache[path] = Miss
  /\ LET job == [Idle EXCEPT !.path = path, !.response = Response(Listed(path), 0)]
     IN Becomes(w, [job EXCEPT !.pc = IF path = Root THEN "dataset"
                                      ELSE IF Listed(path) # {} THEN "respond"
                                      ELSE "one"])
  /\ UNCHANGED <<graph, dataset, cache>>

GetDataset(w) ==
  /\ At(w, "dataset")
  /\ Becomes(w, [worker[w] EXCEPT !.pc = "respond", !.response.dataset = dataset])
  /\ UNCHANGED <<graph, dataset, cache>>

GetOne(w) ==
  /\ At(w, "one")
  /\ LET j == worker[w]
     IN IF j.path \in GraphIds /\ Live(j.path) # {}
        THEN Becomes(w, [j EXCEPT !.pc = "respond", !.response = Response({j.path}, 0)])
        ELSE Becomes(w, Answered(404))
  /\ UNCHANGED <<graph, dataset, cache>>

Respond(w) ==
  /\ At(w, "respond")
  /\ cache' = [cache EXCEPT ![worker[w].path] = worker[w].response]
  /\ Becomes(w, Answered(200))
  /\ UNCHANGED <<graph, dataset>>

(* The proxy drops a response when its week is over, or before.            *)
Expire(path) ==
  /\ cache[path] # Miss
  /\ cache' = [cache EXCEPT ![path] = Miss]
  /\ UNCHANGED <<graph, dataset, worker>>

(* The worker is killed, or the database is locked for too long.  When it  *)
(* dies between its write and its purge, the purge is lost.                *)
Fail(w) ==
  /\ worker[w].pc \notin {"idle", "done"}
  /\ PurgesArrive => ~At(w, "purge")
  /\ Becomes(w, Answered(500))
  /\ UNCHANGED <<graph, dataset, cache>>

Done(w) ==
  /\ At(w, "done")
  /\ Becomes(w, Idle)
  /\ UNCHANGED <<graph, dataset, cache>>

Init ==
  /\ graph = [id \in GraphIds |-> <<>>]
  /\ dataset = 1
  /\ cache = [path \in Paths |-> Miss]
  /\ worker = [w \in Workers |-> Idle]

Next ==
  \/ \E w \in Workers :
       \/ \E path \in GraphIds \cup SlashPaths : Put(w, path)
       \/ PutInsert(w)
       \/ \E id \in GraphIds : Delete(w, id)
       \/ Merge(w)
       \/ Purge(w)
       \/ \E path \in Paths : Get(w, path)
       \/ GetDataset(w)
       \/ GetOne(w)
       \/ Respond(w)
       \/ Fail(w)
       \/ Done(w)
  \/ \E path \in Paths : Expire(path)

Spec == Init /\ [][Next]_vars

-----------------------------------------------------------------------------
(* Properties.                                                             *)

(* Every column, response and local variable has its type.                 *)
TypeOK ==
  /\ graph \in [GraphIds -> Seq(Rows)]
  /\ dataset \in Nat
  /\ cache \in [Paths -> Responses \cup {Miss}]
  /\ worker \in [Workers -> Jobs]

(* Each version of a graph says it revises the one before it, and the      *)
(* first that it revises none, however PUTs overlap: no PUT has taken the  *)
(* number of another (database.py:304-330).                                *)
RevisionChain ==
  \A id \in GraphIds : \A k \in DOMAIN graph[id] : graph[id][k].wasRevisionOf = k - 2

(* Versions that were deleted stay hidden: no version older than a deleted *)
(* one is shown in its stead (delete_graph and the MAX(version) of         *)
(* get_graphs, database.py:212-244, 333-336).                              *)
DeletedStayHidden ==
  \A id \in GraphIds : \A k, l \in DOMAIN graph[id] :
    k < l /\ graph[id][l].deleted => graph[id][k].deleted

(* What the proxy would serve for a path is what the server would.         *)
CacheIsFresh(path) == cache[path] # Miss => cache[path] = Fresh(path)

(* The purges of purge_graph() and purge_graphs() are enough: a stale      *)
(* response is about to be purged (cache.py:74-87).  It relies on purges   *)
(* that arrive and on no GET overlapping a write, and leaves out the two   *)
(* cases the code does not purge: groups with a graph that has had only    *)
(* its first version, and the paths of groups without the slash.           *)
PurgesSuffice ==
  \A path \in {Root} \cup SlashPaths \cup {id \in GraphIds : Under[id] = {}} :
    \/ CacheIsFresh(path)
    \/ \E w \in Workers : At(w, "purge")
    \/ \E id \in Under[path] : Len(graph[id]) = 1

(* Once nothing is being written or purged, /graphs/ lists every graph.    *)
GraphsAreListed == Writing = {} => CacheIsFresh(Root)
=============================================================================
