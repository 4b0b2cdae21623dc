------------------------------ MODULE BagStore ------------------------------
(***************************************************************************)
(* Bags of periods: PUT /bags/<uuid> (resources.py) and                    *)
(* create_or_update_bag() (database.py), as run by several workers while   *)
(* the dataset changes under them.                                         *)
(*                                                                         *)
(* The handler reads the dataset, reads the newest version of the bag, and *)
(* then numbers and inserts the next one.  Python's sqlite3 opens a        *)
(* transaction at the INSERT and not at the SELECT MAX(version) before it, *)
(* so these are two steps, and it is the primary key (uuid, version) that  *)
(* makes the second of two inserts of the same version fail.               *)
(*                                                                         *)
(* Version v of a bag is bag[uuid][v + 1].  What the dataset says of a     *)
(* period does not matter here, only which periods it has.                 *)
(***************************************************************************)
EXTENDS Integers, FiniteSets, Sequences, SequencesExt

CONSTANTS
  Workers,
  Users,          \* users with the create-bag permission
  Uuids,
  Maker,          \* the user whose client generated the UUID
  Periods,
  Loaded,         \* the periods in the first version of the dataset
  Listings,       \* the items that clients send, as sequences
  NoUser,
  NoUuid,
  MaxVersions,    \* of a bag
  MaxDatasets     \* versions of the dataset

ASSUME BagAssumption ==
  /\ Maker \in [Uuids -> Users] /\ NoUser \notin Users /\ NoUuid \notin Uuids
  /\ Loaded \subseteq Periods /\ Listings \subseteq Seq(Periods)
  /\ MaxVersions \in Nat /\ MaxDatasets \in Nat

VARIABLES
  bag,            \* table bag
  dataset,        \* the periods in each version of the dataset
  worker

vars == <<bag, dataset, worker>>

Null == -1

Rows == [created_by : Users, owners : SUBSET Users, items : Seq(Periods),
         wasRevisionOf : Nat \cup {Null}]

Points == {"idle", "items", "owner", "number", "insert", "done"}
Idle == [pc |-> "idle", user |-> NoUser, uuid |-> NoUuid, items |-> <<>>,
         max_version |-> Null, status |-> 0]
Jobs == [pc : Points, user : Users \cup {NoUser}, uuid : Uuids \cup {NoUuid},
         items : Seq(Periods), max_version : Nat \cup {Null}, status : Nat]

At(w, point) == worker[w].pc = point
Becomes(w, job) == worker' = [worker EXCEPT ![w] = job]
Goes(w, point) == Becomes(w, [worker[w] EXCEPT !.pc = point])
Answer(w, code) == Becomes(w, [worker[w] EXCEPT !.pc = "done", !.status = code])

-----------------------------------------------------------------------------
Writing(uuid) == {w \in Workers : worker[w].uuid = uuid /\ ~At(w, "done")}

(* The UUID of a bag that is not listed yet is known to its maker only.    *)
(* The test of the title is left out.                                      *)
Put(w, u, uuid, items) ==
  /\ At(w, "idle")
  /\ u = Maker[uuid] \/ bag[uuid] # <<>>
  /\ LET job == [Idle EXCEPT !.user = u, !.uuid = uuid, !.items = items]
     IN \/ /\ Len(items) < 2
           /\ Becomes(w, [job EXCEPT !.pc = "done", !.status = 400])
        \/ /\ Len(items) >= 2
           /\ Len(bag[uuid]) + Cardinality(Writing(uuid)) < MaxVersions
           /\ Becomes(w, [job EXCEPT !.pc = "items"])
  /\ UNCHANGED <<bag, dataset>>

(* get_periods_and_context(items, raiseErrors=True).                       *)
ItemsUnchecked(items, data) == TRUE
ItemsKnown(items, data) == ToSet(items) \subseteq data

PutItems(w) ==
  /\ At(w, "items")
  /\ IF ItemsKnown(worker[w].items, Last(dataset))
     THEN Goes(w, "owner") ELSE Answer(w, 400)
  /\ UNCHANGED <<bag, dataset>>

MayReviseOpenly(u, rows) == TRUE
MayRevise(u, rows) == rows = <<>> \/ u \in Last(rows).owners

PutOwner(w) ==
  /\ At(w, "owner")
  /\ IF MayRevise(worker[w].user, bag[worker[w].uuid])
     THEN Goes(w, "number") ELSE Answer(w, 403)
  /\ UNCHANGED <<bag, dataset>>

(* SELECT MAX(version) : NULL when there is none.                          *)
MaxVersionFromOne(uuid) == Len(bag[uuid]) - 2
MaxVersion(uuid) == Len(bag[uuid]) - 1

PutNumber(w) ==
  /\ At(w, "number")
  /\ LET j == worker[w]
     IN Becomes(w, [j EXCEPT !.pc = "insert", !.max_version = MaxVersion(j.uuid)])
  /\ UNCHANGED <<bag, dataset>>

(* INSERT: an IntegrityError when the version exists by now.               *)
VersionAlwaysFree(uuid, version) == TRUE
VersionFree(uuid, version) == version = Len(bag[uuid])

PutInsert(w) ==
  /\ At(w, "insert")
  /\ LET j == worker[w]
         row == [created_by |-> j.user, owners |-> {j.user}, items |-> j.items,
                 wasRevisionOf |-> j.max_version]
     IN IF VersionFree(j.uuid, j.max_version + 1)
        THEN /\ bag' = [bag EXCEPT ![j.uuid] = Append(@, row)]
             /\ Answer(w, 201)
        ELSE /\ Answer(w, 500)
             /\ UNCHANGED bag
  /\ UNCHANGED dataset

(* The worker is killed, or the database is locked for too long.           *)
Fail(w) ==
  /\ worker[w].pc \notin {"idle", "done"}
  /\ Answer(w, 500)
  /\ UNCHANGED <<bag, dataset>>

Done(w) ==
  /\ At(w, "done")
  /\ Becomes(w, Idle)
  /\ UNCHANGED <<bag, dataset>>

(* A merge elsewhere makes a new version of the dataset (see Patching).    *)
DatasetChange ==
  /\ Len(dataset) < MaxDatasets
  /\ \E data \in SUBSET Periods : dataset' = Append(dataset, data)
  /\ UNCHANGED <<bag, worker>>

Init ==
  /\ bag = [uuid \in Uuids |-> <<>>]
  /\ dataset = <<Loaded>>
  /\ worker = [w \in Workers |-> Idle]

Next ==
  \/ \E w \in Workers :
       \/ \E u \in Users, uuid \in Uuids, items \in Listings : Put(w, u, uuid, items)
       \/ PutItems(w)
       \/ PutOwner(w)
       \/ PutNumber(w)
       \/ PutInsert(w)
       \/ Fail(w)
       \/ Done(w)
  \/ DatasetChange

Spec == Init /\ [][Next]_vars

-----------------------------------------------------------------------------
(* Properties.                                                             *)

(* Every column and every local variable has its type.                     *)
TypeOK ==
  /\ bag \in [Uuids -> Seq(Rows)]
  /\ dataset \in Seq(SUBSET Periods) /\ dataset # <<>>
  /\ worker \in [Workers -> Jobs]

(* Each version says it revises the one before it, and the first says it   *)
(* revises none, however PUTs overlap (database.py:269-299).               *)
RevisionChain ==
  \A uuid \in Uuids : \A k \in DOMAIN bag[uuid] : bag[uuid][k].wasRevisionOf = k - 2

(* The version that a PUT was answered 201 with is the one that it sent:   *)
(* no other PUT has taken its number or its place (resources.py:732-733).  *)
AcknowledgedBagsLast ==
  \A w \in Workers :
    LET j == worker[w]
    IN j.status = 201 =>
         /\ j.max_version + 2 \in DOMAIN bag[j.uuid]
         /\ bag[j.uuid][j.max_version + 2].created_by = j.user
         /\ bag[j.uuid][j.max_version + 2].items = j.items

(* A bag stays with the user who made it (resources.py:728-730), although  *)
(* the owners are read before the version is numbered.  It relies on no    *)
(* two users making the same UUID.                                         *)
OwnersKept ==
  \A uuid \in Uuids : \A k \in DOMAIN bag[uuid] : bag[uuid][k].owners = {Maker[uuid]}

(* The periods of a version of a bag have all been in one version of the   *)
(* dataset together (resources.py:707-710).                                *)
ItemsExistedTogether ==
  \A uuid \in Uuids : \A k \in DOMAIN bag[uuid] :
    \E v \in DOMAIN dataset : ToSet(bag[uuid][k].items) \subseteq dataset[v]
=============================================================================
