------------------------------ MODULE Activity ------------------------------
(***************************************************************************)
(* What is told of the requests while people work on them: pages of        *)
(* /patches/ (resources.PatchRequestList), the comments in /history        *)
(* (provenance.py) and the feed (feed.py), over the columns of the tables  *)
(* that hold times.                                                        *)
(*                                                                         *)
(* A client follows the "next" links of a list while the table changes     *)
(* under it; the history counts the comments of all merged requests in one *)
(* query and lists those of each in a later one; the feed is one query.    *)
(* Times are whole seconds (strftime('%s')), so that several things happen *)
(* at the same one.  How reviews of one request may overlap is Patching's  *)
(* concern: here a revision, merge or rejection is the UPDATE it ends in.  *)
(*                                                                         *)
(* Readers change nothing that another reads, so one at a time is enough.  *)
(***************************************************************************)
EXTENDS Integers, FiniteSets, Sequences, FiniteSetsExt, Functions

CONSTANTS
  Queries,        \* the arguments that clients list requests with
  MaxRows,        \* requests and comments together
  MaxTime

VARIABLES
  now,
  request,        \* table patch_request
  comment,        \* table patch_request_comment
  latest,         \* the last thing that happened (a history variable)
  lister,         \* a client that pages through /patches/
  history         \* a worker that answers /history

tables == <<request, comment>>
vars == <<now, request, comment, latest, lister, history>>

Null == -1

ASSUME ActivityAssumption ==
  /\ Queries \subseteq [sort : {"created_at", "updated_at"}, order : {"asc", "desc"},
                        filter : {"none", "open", "merged"}, limit : Int]
  /\ MaxRows \in Nat /\ MaxTime \in Nat

Rows == [created_at : Nat, updated_at : Nat, merged_at : Nat \cup {Null},
         open : BOOLEAN, merged : BOOLEAN]
Comments == [patch_request_id : Nat, posted_at : Nat]
Whats == {"submitted", "updated", "merged", "rejected", "commented on"}

Merged == {i \in DOMAIN request : request[i].merged}
CommentsOn(i) == {c \in DOMAIN comment : comment[c].patch_request_id = i}

-----------------------------------------------------------------------------
(* The work: what is written, and when it is said to have happened.        *)

RoomForRows == Len(request) + Len(comment) < MaxRows

(* A client that is paging strikes rows that change off those it wants to  *)
(* see, and counts the changes, as far as they can matter.                 *)
Noted(i) ==
  lister' = IF lister.pc # "paging" THEN lister
            ELSE [lister EXCEPT !.wanted = @ \ {i},
                                !.changes = IF @ < MaxRows THEN @ + 1 ELSE @]

Times == (UNION {{r.created_at, r.updated_at, r.merged_at} : r \in Range(request)})
         \cup {c.posted_at : c \in Range(comment)}
Happened(i, what) ==
  latest' = [id |-> i, what |-> what, alone |-> \A t \in Times : t < now]

NewRow == [created_at |-> now, updated_at |-> now, merged_at |-> Null,
           open |-> TRUE, merged |-> FALSE]

Submit ==
  /\ RoomForRows
  /\ request' = Append(request, NewRow)
  /\ Happened(Len(request) + 1, "submitted")
  /\ UNCHANGED <<now, comment, lister, history>>

(* The trigger update_patch on original_patch.                             *)
RevisedRowUntouched(row) == row
RevisedRow(row) == [row EXCEPT !.updated_at = now]

Revise(i) ==
  /\ request[i].open
  /\ request' = [request EXCEPT ![i] = RevisedRow(@)]
  /\ Happened(i, "updated") /\ Noted(i)
  /\ UNCHANGED <<now, comment, history>>

ClosedRow(row, merged) ==
  [row EXCEPT !.open = FALSE, !.merged = merged, !.merged_at = now]

Merge(i) ==
  /\ request[i].open
  /\ request' = [request EXCEPT ![i] = ClosedRow(@, TRUE)]
  /\ Happened(i, "merged") /\ Noted(i)
  /\ UNCHANGED <<now, comment, history>>

Reject(i) ==
  /\ request[i].open
  /\ request' = [request EXCEPT ![i] = ClosedRow(@, FALSE)]
  /\ Happened(i, "rejected") /\ Noted(i)
  /\ UNCHANGED <<now, comment, history>>

(* add_comment(): that the request exists, which it reads first, stays so. *)
Comment(i) ==
  /\ RoomForRows
  /\ comment' = Append(comment, [patch_request_id |-> i, posted_at |-> now])
  /\ Happened(i, "commented on")
  /\ UNCHANGED <<now, request, lister, history>>

Tick == now < MaxTime /\ now' = now + 1 /\ UNCHANGED <<tables, latest, lister, history>>

-----------------------------------------------------------------------------
(* GET /patches/ with its "next" links: PatchRequestList.get.              *)

LimitAsGiven(q) == q.limit
Limit(q) == IF q.limit < 0 THEN 25 ELSE IF q.limit > 250 THEN 250 ELSE q.limit

Selected(q) ==
  {i \in DOMAIN request : /\ q.filter = "open" => request[i].open
                          /\ q.filter = "merged" => request[i].merged}

(* ORDER BY <sort> <order>, id DESC.                                       *)
Before(q, i, j) ==
  LET x == request[i][q.sort]
      y == request[j][q.sort]
  IN IF x = y THEN i > j ELSE (x < y) = (q.order = "asc")

Place(q, i) == Cardinality({j \in Selected(q) : Before(q, j, i)})

(* LIMIT and OFFSET, and whether one more row is there.                    *)
Page(q, from) == {i \in Selected(q) : Place(q, i) \in from..(from + Limit(q) - 1)}
More(q, from) == Cardinality(Selected(q)) > from + Limit(q)

NextFromOverlapping(q, from) == from + Limit(q) - 1
NextFromSkipping(q, from) == from + Limit(q) + 1
NextFrom(q, from) == from + Limit(q)

NoQuery == [sort |-> "updated_at", order |-> "desc", filter |-> "none", limit |-> 25]
NotListing == [pc |-> "idle", query |-> NoQuery, from |-> 0, seen |-> {},
               wanted |-> {}, changes |-> 0]
Listings == [pc : {"idle", "paging", "done"}, query : Queries \cup {NoQuery}, from : Nat,
             seen : SUBSET Nat, wanted : SUBSET Nat, changes : Nat]

StartList(q) ==
  /\ lister.pc = "idle" /\ history.pc = "idle"
  /\ lister' = [NotListing EXCEPT !.pc = "paging", !.query = q,
                                  !.wanted = Selected(q)]
  /\ UNCHANGED <<now, tables, latest, history>>

GetPage ==
  /\ lister.pc = "paging"
  /\ LET q == lister.query
         got == [lister EXCEPT !.seen = @ \cup Page(q, lister.from)]
     IN lister' = IF More(q, lister.from)
                  THEN [got EXCEPT !.from = NextFrom(q, lister.from)]
                  ELSE [got EXCEPT !.pc = "done"]
  /\ UNCHANGED <<now, tables, latest, history>>

EndList ==
  /\ lister.pc = "done"
  /\ lister' = NotListing
  /\ UNCHANGED <<now, tables, latest, history>>

-----------------------------------------------------------------------------
(* GET /history: provenance.history(), what it says of comments.           *)

NotAnswering == [pc |-> "idle", counts |-> <<>>, told |-> {}]
Tellings == [id : Nat, total : Nat, items : SUBSET Nat, first : Nat, last : Nat]

(* get_merged_patches(), which counts the comments of each.                *)
HistoryRows ==
  /\ history.pc = "idle" /\ lister.pc = "idle"
  /\ history' = [NotAnswering EXCEPT !.pc = "comments",
                   !.counts = [i \in Merged |-> Cardinality(CommentsOn(i))]]
  /\ UNCHANGED <<now, tables, latest, lister>>

(* ORDER BY posted_at: comments of the same second may come in any order.  *)
MayBeAtAny(c, place, comments) == TRUE
MayBeAt(c, place, comments) ==
  LET at(d) == comment[d].posted_at
  IN /\ Cardinality({d \in comments : at(d) < at(c)}) < place
     /\ place <= Cardinality({d \in comments : at(d) <= at(c)})

Untold == {i \in DOMAIN history.counts : /\ history.counts[i] > 0
                                         /\ \A t \in history.told : t.id # i}

(* get_patch_request_comments(), for each request that had any.            *)
HistoryComments ==
  /\ history.pc = "comments" /\ Untold # {}
  /\ LET i == Min(Untold)
         total == history.counts[i]
     IN \E first, last \in CommentsOn(i) :
          /\ MayBeAt(first, 1, CommentsOn(i)) /\ MayBeAt(last, total, CommentsOn(i))
          /\ first = last <=> total = 1
          /\ history' = [history EXCEPT !.told = @ \cup
               {[id |-> i, total |-> total, items |-> CommentsOn(i),
                 first |-> first, last |-> last]}]
  /\ UNCHANGED <<now, tables, latest, lister>>

HistoryEnd ==
  /\ history.pc = "comments" /\ Untold = {}
  /\ history' = NotAnswering
  /\ UNCHANGED <<now, tables, latest, lister>>

-----------------------------------------------------------------------------
(* GET /feed.xml: the rows of get_recent_activity(), a request with one of *)
(* its comments (0: it has none), and what is said of each.                *)
FeedRows == {row \in (DOMAIN request) \X (0..Len(comment)) :
               IF CommentsOn(row[1]) = {} THEN row[2] = 0 ELSE row[2] \in CommentsOn(row[1])}

PostedAt(c) == IF c = 0 THEN Null ELSE comment[c].posted_at
LastUpdateTime(i, c) ==
  Max({request[i].created_at, request[i].updated_at, request[i].merged_at, PostedAt(c)})

(* get_what_happened().                                                    *)
WhatHappenedFirst(i, c) ==
  IF request[i].open THEN "submitted"
  ELSE IF request[i].merged THEN "merged" ELSE "rejected"
WhatHappened(i, c) ==
  IF LastUpdateTime(i, c) = PostedAt(c) THEN "commented on"
  ELSE IF request[i].open
       THEN IF request[i].updated_at > request[i].created_at THEN "updated" ELSE "submitted"
  ELSE IF request[i].merged THEN "merged" ELSE "rejected"

(* The rows that may come first: ORDER BY last_update_time DESC.           *)
FeedTop == {row \in FeedRows : \A other \in FeedRows :
              LastUpdateTime(other[1], other[2]) <= LastUpdateTime(row[1], row[2])}

-----------------------------------------------------------------------------
Init ==
  /\ now = 1
  /\ request = <<[NewRow EXCEPT !.merged_at = now, !.open = FALSE, !.merged = TRUE]>>
  /\ comment = <<>>
  /\ latest = [id |-> 1, what |-> "merged", alone |-> FALSE]
  /\ lister = NotListing
  /\ history = NotAnswering

Next ==
  \/ Submit
  \/ \E i \in DOMAIN request : Revise(i) \/ Merge(i) \/ Reject(i) \/ Comment(i)
  \/ Tick
  \/ \E q \in Queries : StartList(q)
  \/ GetPage
  \/ EndList
  \/ HistoryRows
  \/ HistoryComments
  \/ HistoryEnd

Spec == Init /\ [][Next]_vars

(* A client that has begun to page follows the links.                      *)
FairSpec == Spec /\ WF_vars(GetPage)

-----------------------------------------------------------------------------
(* Properties.                                                             *)

(* Columns and what readers hold have their types.                         *)
TypeOK ==
  /\ now \in Nat
  /\ request \in Seq(Rows) /\ comment \in Seq(Comments)
  /\ latest \in [id : Nat, what : Whats, alone : BOOLEAN]
  /\ lister \in Listings
  /\ history.pc \in {"idle", "comments"} /\ history.told \subseteq Tellings

(* A client that pages to the end, with a positive limit, misses at most   *)
(* as many rows that stayed as they were as rows were changed meanwhile;   *)
(* none at all in the default order, or by time of creation, or among the  *)
(* merged, where changed rows only move towards the pages it has seen or   *)
(* do not move (PatchRequestList.get, resources.py:485-530).               *)
RowsMayMoveAway(q) ==
  q.filter = "open" \/ (q.sort = "updated_at" /\ q.order = "asc")

PagesMissLittle ==
  lister.pc = "done" =>
    Cardinality(lister.wanted \ lister.seen)
      <= IF RowsMayMoveAway(lister.query) THEN lister.changes ELSE 0

(* A client that follows the links comes to the last page, if its limit is *)
(* not zero: then the page is empty and its "next" link leads to itself.   *)
PagesEnd ==
  lister.pc = "paging" /\ Limit(lister.query) > 0 ~> lister.pc = "done"

(* The comments that were counted are all among the items, the first named *)
(* is as early as any of them, and the last named is the last of those     *)
(* that were counted, even when others were posted before the items were   *)
(* read (provenance.py:113-125).                                           *)
Counted(t) == {c \in t.items : Cardinality({d \in t.items : d <= c}) <= t.total}

HistoryNamesCounted ==
  \A t \in history.told :
    /\ Cardinality(Counted(t)) = t.total
    /\ \A c \in t.items : comment[t.first].posted_at <= comment[c].posted_at
    /\ comment[t.last].posted_at = Max({comment[c].posted_at : c \in Counted(t)})

(* The feed begins with what happened last, of the right request, unless   *)
(* something else happened in the same second.                             *)
FeedTellsLatest ==
  latest.alone => \A row \in FeedTop :
                    row[1] = latest.id /\ WhatHappened(row[1], row[2]) = latest.what
=============================================================================
