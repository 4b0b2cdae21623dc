--------------------------- MODULE ActivityProofs ---------------------------
(***************************************************************************)
(* Theorems about Activity, for any number of requests, comments, seconds  *)
(* and kinds of queries.                                                   *)
(***************************************************************************)
EXTENDS Activity, FiniteSetTheorems, WellFoundedInduction, TLAPS

-----------------------------------------------------------------------------
(* Sets of numbers.                                                        *)

LEMMA MaxIs ==
  ASSUME NEW S \in SUBSET Int, NEW m \in S, \A x \in S : x <= m
  PROVE  Max(S) = m
<1>1. \A y \in S : m >= y
  OBVIOUS
<1>2. \A x \in S : (\A y \in S : x >= y) => x = m
  OBVIOUS
<1> QED BY <1>1, <1>2 DEF Max

LEMMA MaxOfFour ==
  ASSUME NEW a \in Int, NEW b \in Int, NEW c \in Int, NEW d \in Int
  PROVE  /\ Max({a, b, c, d}) \in {a, b, c, d}
         /\ \A x \in {a, b, c, d} : x <= Max({a, b, c, d})
<1>1. PICK m \in {a, b, c, d} : a <= m /\ b <= m /\ c <= m /\ d <= m
  OBVIOUS
<1>2. Max({a, b, c, d}) = m
  BY <1>1, MaxIs
<1> QED BY <1>1, <1>2

LEMMA MinExists ==
  ASSUME NEW S \in SUBSET Nat, S # {}
  PROVE  Min(S) \in S
<1> DEFINE less == OpToRel(<, Nat)
<1>1. IsWellFoundedOn(less, Nat)
  BY NatLessThanWellFounded
<1>2. \A x, y \in Nat : <<y, x>> \in less <=> y < x
  BY DEF OpToRel
<1> HIDE DEF less
<1>3. PICK x \in S : \A y \in S : <<y, x>> \notin less
  BY <1>1, WFMin
<1>4. ASSUME NEW y \in S
      PROVE  x <= y
  <2>1. x \in Nat /\ y \in Nat /\ ~(y < x)
    BY <1>2, <1>3
  <2> QED BY <2>1
<1> QED BY <1>4 DEF Min

LEMMA PartsAreFinite ==
  ASSUME NEW n \in Nat, NEW S \in SUBSET (1..n)
  PROVE  IsFiniteSet(S) /\ Cardinality(S) \in Nat /\ Cardinality(S) <= n
<1>1. IsFiniteSet(1..n) /\ Cardinality(1..n) = n
  BY FS_Interval
<1> QED BY <1>1, FS_Subset, FS_CardinalityType

(* The first of a set of numbers, as many as there are up to some number.  *)
LEMMA FirstOnes ==
  ASSUME NEW n \in Nat, NEW S \in SUBSET (1..n), NEW max \in Int
  PROVE  {c \in S : Cardinality({d \in S : d <= c}) <= Cardinality({d \in S : d <= max})}
           = {c \in S : c <= max}
<1> DEFINE first == {c \in S : c <= max}
           upTo(c) == {d \in S : d <= c}
<1>1. IsFiniteSet(first) /\ Cardinality(first) \in Nat
  BY PartsAreFinite
<1>2. ASSUME NEW c \in S
      PROVE  IsFiniteSet(upTo(c)) /\ Cardinality(upTo(c)) \in Nat
  BY PartsAreFinite
<1>3. ASSUME NEW c \in first
      PROVE  Cardinality(upTo(c)) <= Cardinality(first)
  <2>1. \A d \in S : d <= c => d <= max
    <3>1. c \in Int /\ c <= max /\ \A d \in S : d \in Int
      OBVIOUS
    <3> QED BY <3>1
  <2>2. upTo(c) \in SUBSET first
    BY <2>1
  <2> QED BY <1>1, <2>2, FS_Subset
<1>4. ASSUME NEW c \in S \ first
      PROVE  ~(Cardinality(upTo(c)) <= Cardinality(first))
  <2>1. c \in Int /\ ~(c <= max) /\ \A d \in S : d \in Int
    OBVIOUS
  <2>2. first \in SUBSET upTo(c) /\ c \in upTo(c) /\ c \notin first
    <3>1. ASSUME NEW d \in first
          PROVE  d <= c
      BY <2>1
    <3>2. first \subseteq upTo(c)
      BY <3>1
    <3>3. c \in upTo(c) /\ c \notin first
      BY <2>1
    <3> QED BY <3>2, <3>3
  <2>3. /\ Cardinality(first) <= Cardinality(upTo(c))
        /\ Cardinality(first) # Cardinality(upTo(c))
    BY <1>2, <2>2, FS_Subset
  <2> QED BY <1>1, <1>2, <2>3
<1> QED BY <1>3, <1>4

-----------------------------------------------------------------------------
(* The tables.                                                             *)

RowOK(r, time) ==
  /\ r.created_at <= r.updated_at /\ r.updated_at <= time /\ r.merged_at <= time
  /\ r.open => ~r.merged /\ r.merged_at = Null

TablesOK ==
  /\ now \in Nat /\ request \in Seq(Rows) /\ comment \in Seq(Comments)
  /\ \A i \in 1..Len(request) : RowOK(request[i], now)
  /\ \A c \in 1..Len(comment) :
       comment[c].patch_request_id \in 1..Len(request) /\ comment[c].posted_at <= now
  /\ \A c, d \in 1..Len(comment) : c <= d => comment[c].posted_at <= comment[d].posted_at

(* What was in the tables is there still, though requests may change.      *)
Grown ==
  /\ Len(request') >= Len(request) /\ Len(comment') >= Len(comment)
  /\ \A c \in 1..Len(comment) : comment'[c] = comment[c]

LEMMA TypesOfTables ==
  ASSUME TablesOK
  PROVE  /\ now \in Nat /\ Len(request) \in Nat /\ Len(comment) \in Nat
         /\ DOMAIN request = 1..Len(request) /\ DOMAIN comment = 1..Len(comment)
         /\ \A i \in 1..Len(request) : request[i] \in Rows
         /\ \A c \in 1..Len(comment) : comment[c] \in Comments
         /\ \A i : CommentsOn(i) \in SUBSET (1..Len(comment))
BY DEF TablesOK, CommentsOn

(* A request is changed to one that is good.                               *)
LEMMA ChangeKeepsTables ==
  ASSUME TablesOK, NEW i \in 1..Len(request), NEW row \in Rows, RowOK(row, now),
         request' = [request EXCEPT ![i] = row], UNCHANGED <<now, comment>>
  PROVE  /\ TablesOK' /\ Grown /\ Len(request') = Len(request)
         /\ request'[i] = row /\ \A k \in 1..Len(request) : k # i => request'[k] = request[k]
<1>1. request \in Seq(Rows) /\ Len(request) \in Nat
  BY TypesOfTables DEF TablesOK
<1>2. /\ request' \in Seq(Rows) /\ Len(request') = Len(request)
      /\ request'[i] = row /\ \A k \in 1..Len(request) : k # i => request'[k] = request[k]
  BY <1>1
<1>3. \A k \in 1..Len(request') : RowOK(request'[k], now)
  BY <1>2 DEF TablesOK
<1> QED BY <1>2, <1>3, TypesOfTables DEF TablesOK, Grown

LEMMA SubmitKeepsTables ==
  ASSUME TablesOK, Submit
  PROVE  /\ TablesOK' /\ Grown /\ Len(request') = Len(request) + 1 /\ UNCHANGED <<now, comment>>
         /\ request'[Len(request) + 1] = NewRow
         /\ \A k \in 1..Len(request) : request'[k] = request[k]
<1>1. request \in Seq(Rows) /\ Len(request) \in Nat /\ now \in Nat
  BY TypesOfTables DEF TablesOK
<1>2. NewRow \in Rows /\ RowOK(NewRow, now)
  <2>1. Null \in Int /\ Null <= now
    BY <1>1 DEF Null
  <2> QED BY <1>1, <2>1 DEF NewRow, Rows, RowOK
<1>3. request' = Append(request, NewRow) /\ UNCHANGED <<now, comment>>
  BY DEF Submit
<1> HIDE DEF NewRow
<1>4. /\ request' \in Seq(Rows) /\ Len(request') = Len(request) + 1
      /\ request'[Len(request) + 1] = NewRow
      /\ \A k \in 1..Len(request) : request'[k] = request[k]
  BY <1>1, <1>2, <1>3
<1>5. \A k \in 1..Len(request') : RowOK(request'[k], now)
  BY <1>1, <1>2, <1>4 DEF TablesOK
<1> QED BY <1>1, <1>3, <1>4, <1>5, TypesOfTables DEF TablesOK, Grown

LEMMA CommentKeepsTables ==
  ASSUME TablesOK, NEW i \in 1..Len(request), Comment(i)
  PROVE  /\ TablesOK' /\ Grown /\ Len(comment') = Len(comment) + 1 /\ UNCHANGED <<now, request>>
         /\ comment'[Len(comment) + 1] = [patch_request_id |-> i, posted_at |-> now]
<1> DEFINE new == [patch_request_id |-> i, posted_at |-> now]
<1>1. comment \in Seq(Comments) /\ Len(comment) \in Nat /\ now \in Nat /\ Len(request) \in Nat
  BY TypesOfTables DEF TablesOK
<1>2. new \in Comments /\ new.patch_request_id = i /\ new.posted_at = now
  BY <1>1 DEF Comments
<1>3. comment' = Append(comment, new) /\ UNCHANGED <<now, request>>
  BY DEF Comment
<1> HIDE DEF new
<1>4. /\ comment' \in Seq(Comments) /\ Len(comment') = Len(comment) + 1
      /\ comment'[Len(comment) + 1] = new
      /\ \A c \in 1..Len(comment) : comment'[c] = comment[c]
  BY <1>1, <1>2, <1>3
<1>5. \A c \in 1..Len(comment') : c \in 1..Len(comment) \/ c = Len(comment) + 1
  BY <1>1, <1>4
<1>6. \A c \in 1..Len(comment') :
        comment'[c].patch_request_id \in 1..Len(request) /\ comment'[c].posted_at <= now
  BY <1>1, <1>2, <1>4, <1>5 DEF TablesOK
<1>7. ASSUME NEW c \in 1..Len(comment'), NEW d \in 1..Len(comment'), c <= d
      PROVE  comment'[c].posted_at <= comment'[d].posted_at
  <2>1. CASE d = Len(comment) + 1
    BY <1>2, <1>4, <1>6, <2>1
  <2>2. CASE d \in 1..Len(comment)
    <3>1. c \in 1..Len(comment)
      BY <1>1, <1>7, <2>2
    <3> QED BY <1>4, <1>7, <2>2, <3>1 DEF TablesOK
  <2> QED BY <1>5, <2>1, <2>2
<1> QED BY <1>1, <1>3, <1>4, <1>6, <1>7 DEF TablesOK, Grown, new

LEMMA ChangesAreGood ==
  ASSUME TablesOK, NEW i \in 1..Len(request), Revise(i) \/ Merge(i) \/ Reject(i)
  PROVE  \E row \in Rows : /\ request[i].open /\ RowOK(row, now)
                           /\ request' = [request EXCEPT ![i] = row]
                           /\ UNCHANGED <<now, comment>>
<1>1. now \in Nat /\ request[i] \in Rows /\ RowOK(request[i], now)
  BY TypesOfTables DEF TablesOK
<1>2. CASE Revise(i)
  <2> DEFINE row == RevisedRow(request[i])
  <2>1. row \in Rows /\ RowOK(row, now)
    BY <1>1 DEF RevisedRow, Rows, RowOK
  <2>2. request' = [request EXCEPT ![i] = row]
    BY <1>2 DEF Revise
  <2> QED BY <1>2, <2>1, <2>2 DEF Revise
<1>3. ASSUME NEW merged \in BOOLEAN
      PROVE  ClosedRow(request[i], merged) \in Rows /\ RowOK(ClosedRow(request[i], merged), now)
  <2> DEFINE row == ClosedRow(request[i], merged)
  <2>1. row \in Rows
    BY <1>1 DEF ClosedRow, Rows
  <2>2. /\ row.created_at = request[i].created_at /\ row.updated_at = request[i].updated_at
        /\ row.merged_at = now /\ row.open = FALSE
    BY <1>1 DEF ClosedRow, Rows
  <2> HIDE DEF row
  <2>3. RowOK(row, now)
    BY <1>1, <2>2 DEF RowOK
  <2> QED BY <2>1, <2>3 DEF row
<1>4. CASE Merge(i)
  <2> DEFINE row == ClosedRow(request[i], TRUE)
  <2>1. row \in Rows /\ RowOK(row, now)
    BY <1>3
  <2>2. request' = [request EXCEPT ![i] = row]
    BY <1>4 DEF Merge
  <2> QED BY <1>4, <2>1, <2>2 DEF Merge
<1>5. CASE Reject(i)
  <2> DEFINE row == ClosedRow(request[i], FALSE)
  <2>1. row \in Rows /\ RowOK(row, now)
    BY <1>3
  <2>2. request' = [request EXCEPT ![i] = row]
    BY <1>5 DEF Reject
  <2> QED BY <1>5, <2>1, <2>2 DEF Reject
<1>6. Revise(i) \/ Merge(i) \/ Reject(i)
  OBVIOUS
<1> QED BY <1>2, <1>4, <1>5, <1>6

Reads == \/ \E q \in Queries : StartList(q)
         \/ GetPage \/ EndList \/ HistoryRows \/ HistoryComments \/ HistoryEnd

LEMMA ReadsReadOnly == Reads => UNCHANGED <<now, request, comment, latest>>
BY DEF Reads, StartList, GetPage, EndList, HistoryRows, HistoryComments, HistoryEnd, tables

LEMMA NextKeepsTables ==
  ASSUME TablesOK, [Next]_vars
  PROVE  TablesOK' /\ Grown
<1>1. CASE UNCHANGED <<request, comment>> /\ now' \in Nat /\ now' >= now
  <2>1. \A i \in 1..Len(request) : RowOK(request[i], now')
    <3> SUFFICES ASSUME NEW i \in 1..Len(request) PROVE RowOK(request[i], now')
      OBVIOUS
    <3>1. request[i] \in Rows /\ RowOK(request[i], now) /\ now \in Nat
      BY TypesOfTables DEF TablesOK
    <3>2. request[i].updated_at \in Int /\ request[i].merged_at \in Int
      BY <3>1 DEF Rows, Null
    <3> QED BY <1>1, <3>1, <3>2 DEF RowOK
  <2>2. \A c \in 1..Len(comment) : comment[c].posted_at <= now'
    BY <1>1, TypesOfTables, SMTT(20) DEF TablesOK, Comments
  <2> QED BY <1>1, <2>1, <2>2, TypesOfTables DEF TablesOK, Grown
<1>2. now \in Nat /\ DOMAIN request = 1..Len(request)
  BY TypesOfTables
<1>3. CASE Reads \/ UNCHANGED vars
  BY <1>1, <1>2, <1>3, ReadsReadOnly DEF vars
<1>4. CASE Tick
  BY <1>1, <1>2, <1>4 DEF Tick, tables
<1>5. ASSUME NEW i \in 1..Len(request), Revise(i) \/ Merge(i) \/ Reject(i) \/ Comment(i)
      PROVE  TablesOK' /\ Grown
  BY <1>5, ChangesAreGood, ChangeKeepsTables, CommentKeepsTables
<1> QED BY <1>2, <1>3, <1>4, <1>5, SubmitKeepsTables DEF Next, Reads

LEMMA TablesAreKept == Spec => []TablesOK
<1>1. Init => TablesOK
  <2> SUFFICES ASSUME Init PROVE TablesOK
    OBVIOUS
  <2> DEFINE row == [NewRow EXCEPT !.merged_at = now, !.open = FALSE, !.merged = TRUE]
  <2>1. now = 1 /\ request = <<row>> /\ comment = <<>>
    BY DEF Init
  <2>2. row \in Rows /\ RowOK(row, now)
    <3>1. /\ row.created_at = 1 /\ row.updated_at = 1 /\ row.merged_at = 1
          /\ row.open = FALSE /\ row.merged = TRUE /\ row \in Rows
      BY <2>1 DEF NewRow, Rows
    <3> HIDE DEF row
    <3> QED BY <2>1, <3>1 DEF RowOK
  <2> HIDE DEF row
  <2>3. request \in Seq(Rows) /\ Len(request) = 1 /\ request[1] = row
    BY <2>1, <2>2
  <2> QED BY <2>1, <2>2, <2>3 DEF TablesOK
<1>2. TablesOK /\ [Next]_vars => TablesOK'
  BY NextKeepsTables
<1> QED BY <1>1, <1>2, PTL DEF Spec

-----------------------------------------------------------------------------
(* The history.                                                            *)

Answerings == [pc : {"idle", "comments"}, counts : UNION {[S -> Nat] : S \in SUBSET Nat},
               told : SUBSET Tellings]

UpTo(i, max) == {c \in CommentsOn(i) : c <= max}

TellingOK(t) ==
  /\ t.items \in SUBSET (1..Len(comment)) /\ t.first \in t.items /\ t.last \in t.items
  /\ Cardinality(Counted(t)) = t.total
  /\ \A c \in t.items : comment[t.first].posted_at <= comment[c].posted_at
  /\ comment[t.last].posted_at = Max({comment[c].posted_at : c \in Counted(t)})

(* The comments that were counted are those that there were up to some     *)
(* number, which later comments do not change.                             *)
HistoryOK ==
  /\ history \in Answerings
  /\ \A i \in DOMAIN history.counts :
       \E max \in 0..Len(comment) : history.counts[i] = Cardinality(UpTo(i, max))
  /\ \A t \in history.told : TellingOK(t)

LEMMA GrownKeepsHistory ==
  ASSUME TablesOK, TablesOK', Grown, HistoryOK, history' = history
  PROVE  HistoryOK'
<1>1. /\ Len(comment) \in Nat /\ Len(comment') \in Nat /\ Len(comment) <= Len(comment')
      /\ DOMAIN comment = 1..Len(comment) /\ DOMAIN comment' = 1..Len(comment')
      /\ \A c \in 1..Len(comment) : comment'[c] = comment[c]
  <2>1. /\ Len(comment) \in Nat /\ DOMAIN comment = 1..Len(comment)
        /\ Len(comment') \in Nat /\ DOMAIN comment' = 1..Len(comment')
    <3>1. comment \in Seq(Comments) /\ comment' \in Seq(Comments)
      BY DEF TablesOK
    <3> QED BY <3>1
  <2>2. Len(comment') >= Len(comment) /\ \A c \in 1..Len(comment) : comment'[c] = comment[c]
    BY DEF Grown
  <2> QED BY <2>1, <2>2
<1>2. ASSUME NEW i, NEW max \in 0..Len(comment)
      PROVE  UpTo(i, max)' = UpTo(i, max) /\ max \in 0..Len(comment')
  <2>1. ASSUME NEW c \in Nat, c <= max
        PROVE  c \in DOMAIN comment' <=> c \in DOMAIN comment
    BY <1>1, <2>1
  <2>2. \A c \in DOMAIN comment' : c \in Nat
    BY <1>1
  <2>3. \A c \in DOMAIN comment : c \in Nat
    BY <1>1
  <2>4. max \in 0..Len(comment')
    BY <1>1
  <2> QED BY <1>1, <2>1, <2>2, <2>3, <2>4 DEF UpTo, CommentsOn
<1>3. ASSUME NEW t, TellingOK(t)
      PROVE  TellingOK(t)'
  <2>1. Counted(t) \subseteq t.items /\ t.items \subseteq 1..Len(comment)
    BY <1>3 DEF Counted, TellingOK
  <2>2. {comment'[c].posted_at : c \in Counted(t)} = {comment[c].posted_at : c \in Counted(t)}
    BY <1>1, <2>1
  <2>3. t.items \in SUBSET (1..Len(comment'))
    BY <1>1, <2>1
  <2>4. Counted(t)' = Counted(t)
    BY DEF Counted
  <2> QED BY <1>1, <1>3, <2>1, <2>2, <2>3, <2>4 DEF TellingOK
<1> QED BY <1>2, <1>3 DEF HistoryOK

(* Comments come by time, so the place of the last of those counted is     *)
(* taken by one that is as late as any of them.                            *)
LEMMA LastCounted ==
  ASSUME TablesOK, NEW i, NEW max \in 0..Len(comment), NEW last \in CommentsOn(i),
         MayBeAt(last, Cardinality(UpTo(i, max)), CommentsOn(i))
  PROVE  comment[last].posted_at = Max({comment[c].posted_at : c \in UpTo(i, max)})
<1> DEFINE S == CommentsOn(i)
           P == UpTo(i, max)
           at(c) == comment[c].posted_at
           before == {d \in S : at(d) < at(last)}
           until == {d \in S : at(d) <= at(last)}
<1>1. /\ Len(comment) \in Nat /\ S \in SUBSET (1..Len(comment)) /\ P \subseteq S
      /\ \A c \in S : at(c) \in Nat
  BY TypesOfTables DEF UpTo, Comments
<1>2. /\ IsFiniteSet(P) /\ Cardinality(P) \in Nat
      /\ IsFiniteSet(before) /\ Cardinality(before) \in Nat
      /\ IsFiniteSet(until) /\ Cardinality(until) \in Nat
  <2>1. P \in SUBSET (1..Len(comment)) /\ before \in SUBSET (1..Len(comment))
    BY <1>1
  <2>2. until \in SUBSET (1..Len(comment))
    BY <1>1
  <2> QED BY <1>1, <2>1, <2>2, PartsAreFinite
<1>3. Cardinality(before) < Cardinality(P) /\ Cardinality(P) <= Cardinality(until)
  BY DEF MayBeAt
<1>4. ASSUME NEW c \in P
      PROVE  at(c) <= at(last)
  <2> SUFFICES ASSUME ~(at(c) <= at(last)) PROVE FALSE
    OBVIOUS
  <2>1. ASSUME NEW d \in until
        PROVE  d \in P /\ d # c
    <3>1. d \in 1..Len(comment) /\ c \in 1..Len(comment) /\ c <= max
      BY <1>1 DEF UpTo
    <3>2. at(d) <= at(last) /\ at(d) \in Nat /\ at(c) \in Nat /\ at(last) \in Nat
      BY <1>1
    <3>3. ~(c <= d)
      <4>1. c <= d => at(c) <= at(d)
        BY <3>1 DEF TablesOK
      <4> HIDE DEF at
      <4> QED BY <3>2, <4>1
    <3>4. d <= max /\ d # c
      BY <3>1, <3>3
    <3> QED BY <3>4 DEF UpTo
  <2>2. until \subseteq P /\ c \in P /\ c \notin until
    BY <2>1
  <2> HIDE DEF until, P
  <2>3. until \in SUBSET P
    BY <2>2
  <2>4. Cardinality(until) <= Cardinality(P) /\ (Cardinality(P) = Cardinality(until) => P = until)
    BY <1>2, <2>3, FS_Subset
  <2>5. P # until
    BY <2>2
  <2> QED BY <1>2, <1>3, <2>4, <2>5
<1>5. \E c \in P : at(c) = at(last)
  <2> SUFFICES ASSUME \A c \in P : at(c) # at(last) PROVE FALSE
    OBVIOUS
  <2>1. ASSUME NEW c \in P
        PROVE  c \in before
    <3>1. at(c) <= at(last) /\ at(c) # at(last) /\ at(c) \in Nat /\ at(last) \in Nat /\ c \in S
      BY <1>1, <1>4
    <3> QED BY <3>1
  <2>2. P \in SUBSET before
    BY <2>1
  <2>3. Cardinality(P) <= Cardinality(before)
    BY <1>2, <2>2, FS_Subset
  <2> QED BY <1>2, <1>3, <2>3
<1>6. {at(c) : c \in P} \in SUBSET Int
  BY <1>1
<1>7. at(last) \in {at(c) : c \in P} /\ \A x \in {at(c) : c \in P} : x <= at(last)
  BY <1>4, <1>5
<1>8. Max({at(c) : c \in P}) = at(last)
  <2> HIDE DEF at, P
  <2> QED BY <1>6, <1>7, MaxIs
<1> QED BY <1>8

LEMMA FirstCounted ==
  ASSUME TablesOK, NEW i, NEW first \in CommentsOn(i), MayBeAt(first, 1, CommentsOn(i)),
         NEW c \in CommentsOn(i)
  PROVE  comment[first].posted_at <= comment[c].posted_at
<1> DEFINE before == {d \in CommentsOn(i) : comment[d].posted_at < comment[first].posted_at}
<1>1. /\ Len(comment) \in Nat /\ before \in SUBSET (1..Len(comment))
      /\ comment[first].posted_at \in Nat /\ comment[c].posted_at \in Nat
  BY TypesOfTables DEF Comments
<1>2. Cardinality(before) < 1
  BY DEF MayBeAt
<1>3. IsFiniteSet(before) /\ Cardinality(before) \in Nat
  BY <1>1, PartsAreFinite
<1>4. c \notin before
  BY <1>2, <1>3, FS_EmptySet
<1> QED BY <1>1, <1>4

LEMMA HistoryCommentsKeepsHistory ==
  ASSUME TablesOK, HistoryOK, HistoryComments
  PROVE  HistoryOK'
<1> DEFINE i == Min(Untold)
           total == history.counts[i]
           S == CommentsOn(i)
<1>1. i \in Untold
  <2>1. DOMAIN history.counts \in SUBSET Nat
    BY DEF HistoryOK, Answerings
  <2>2. Untold \in SUBSET Nat /\ Untold # {}
    BY <2>1 DEF Untold, HistoryComments
  <2> QED BY <2>2, MinExists
<1>2. PICK first \in S, last \in S :
        /\ MayBeAt(first, 1, S) /\ MayBeAt(last, total, S)
        /\ history' = [history EXCEPT !.told = @ \cup
               {[id |-> i, total |-> total, items |-> S, first |-> first, last |-> last]}]
  BY DEF HistoryComments
<1> DEFINE t == [id |-> i, total |-> total, items |-> S, first |-> first, last |-> last]
<1>3. i \in DOMAIN history.counts /\ i \in Nat /\ total \in Nat
  BY <1>1 DEF Untold, HistoryOK, Answerings
<1>4. PICK max \in 0..Len(comment) : total = Cardinality(UpTo(i, max))
  BY <1>3 DEF HistoryOK
<1>5. Len(comment) \in Nat /\ S \in SUBSET (1..Len(comment)) /\ UNCHANGED <<request, comment>>
  BY TypesOfTables DEF HistoryComments, tables
<1>6. /\ t.items = S /\ t.total = total /\ t.first = first /\ t.last = last
      /\ t \in Tellings
  BY <1>3, <1>5 DEF Tellings
<1> HIDE DEF i, S, total, t
<1>7. Counted(t) = UpTo(i, max)
  <2>1. UpTo(i, max) = {c \in S : c <= max} /\ max \in Int
    BY DEF UpTo, S
  <2>2. {c \in S : Cardinality({d \in S : d <= c}) <= Cardinality({d \in S : d <= max})}
          = {c \in S : c <= max}
    BY <1>5, <2>1, FirstOnes
  <2>3. Counted(t) = {c \in S : Cardinality({d \in S : d <= c}) <= total}
    BY <1>6 DEF Counted
  <2> QED BY <1>4, <2>1, <2>2, <2>3
<1>8. \A c \in t.items : comment[t.first].posted_at <= comment[c].posted_at
  BY <1>2, <1>6, FirstCounted DEF S
<1>9. comment[t.last].posted_at = Max({comment[c].posted_at : c \in Counted(t)})
  BY <1>2, <1>4, <1>6, <1>7, LastCounted DEF S
<1>10. TellingOK(t)
  BY <1>2, <1>4, <1>5, <1>6, <1>7, <1>8, <1>9 DEF TellingOK
<1>11. history \in Answerings
  BY DEF HistoryOK
<1>12. /\ history' = [history EXCEPT !.told = @ \cup {t}]
       /\ history'.told = history.told \cup {t} /\ history'.counts = history.counts
       /\ history' \in Answerings
  <2>1. history' = [history EXCEPT !.told = @ \cup {t}]
    BY <1>2 DEF t
  <2>2. history.told \cup {t} \in SUBSET Tellings
    BY <1>6, <1>11 DEF Answerings
  <2> QED BY <1>11, <2>1, <2>2 DEF Answerings
<1>13. ASSUME NEW k, NEW m \in 0..Len(comment)
       PROVE  UpTo(k, m)' = UpTo(k, m)
  BY <1>5 DEF UpTo, CommentsOn
<1>14. \A u : TellingOK(u) => TellingOK(u)'
  BY <1>5 DEF TellingOK, Counted
<1> QED BY <1>5, <1>10, <1>12, <1>13, <1>14 DEF HistoryOK

LEMMA NotAnsweringIsFine ==
  /\ NotAnswering \in Answerings /\ NotAnswering.told = {} /\ DOMAIN NotAnswering.counts = {}
<1>1. <<>> \in [{} -> Nat] /\ {} \in SUBSET Nat
  OBVIOUS
<1>2. <<>> \in UNION {[S -> Nat] : S \in SUBSET Nat}
  BY <1>1
<1> QED BY <1>2 DEF NotAnswering, Answerings

LEMMA HistoryRowsKeepsHistory ==
  ASSUME TablesOK, HistoryRows
  PROVE  HistoryOK'
<1> DEFINE counts == [i \in Merged |-> Cardinality(CommentsOn(i))]
<1>1. Len(comment) \in Nat /\ UNCHANGED <<request, comment>> /\ Merged \in SUBSET Nat
  BY TypesOfTables DEF HistoryRows, tables, Merged
<1>2. ASSUME NEW i \in Merged
      PROVE  /\ Cardinality(CommentsOn(i)) \in Nat
             /\ CommentsOn(i) = UpTo(i, Len(comment)) /\ Len(comment) \in 0..Len(comment)
  <2>1. CommentsOn(i) \in SUBSET (1..Len(comment))
    BY TypesOfTables
  <2>2. Cardinality(CommentsOn(i)) \in Nat
    BY <1>1, <2>1, PartsAreFinite
  <2> QED BY <1>1, <2>1, <2>2 DEF UpTo
<1>3. counts \in [Merged -> Nat]
  BY <1>2
<1>4. history' = [NotAnswering EXCEPT !.pc = "comments", !.counts = counts]
  BY DEF HistoryRows
<1>5. counts \in UNION {[S -> Nat] : S \in SUBSET Nat} /\ DOMAIN counts = Merged
  BY <1>1, <1>3
<1>6. \A i \in Merged : counts[i] = Cardinality(UpTo(i, Len(comment)))
  BY <1>2
<1> HIDE DEF counts
<1>7. history' \in Answerings /\ history'.counts = counts /\ history'.told = {}
  BY <1>4, <1>5, NotAnsweringIsFine DEF Answerings
<1>8. \A i : UpTo(i, Len(comment))' = UpTo(i, Len(comment))
  BY <1>1 DEF UpTo, CommentsOn
<1>9. Len(comment) \in 0..Len(comment')
  BY <1>1
<1> QED BY <1>5, <1>6, <1>7, <1>8, <1>9 DEF HistoryOK

LEMMA NextKeepsHistory ==
  ASSUME TablesOK, TablesOK', HistoryOK, [Next]_vars
  PROVE  HistoryOK'
<1>1. CASE history' = history
  BY <1>1, NextKeepsTables, GrownKeepsHistory
<1>2. CASE HistoryEnd
  BY <1>2, NotAnsweringIsFine DEF HistoryEnd, HistoryOK
<1>3. ASSUME NEW i, Revise(i) \/ Merge(i) \/ Reject(i) \/ Comment(i)
      PROVE  history' = history
  BY <1>3 DEF Revise, Merge, Reject, Comment
<1>4. Submit \/ Tick \/ GetPage \/ EndList \/ (\E q \in Queries : StartList(q)) => history' = history
  BY DEF Submit, Tick, GetPage, EndList, StartList
<1>5. UNCHANGED vars => history' = history
  BY DEF vars
<1> QED BY <1>1, <1>2, <1>3, <1>4, <1>5, HistoryRowsKeepsHistory,
           HistoryCommentsKeepsHistory DEF Next

LEMMA HistoryIsKept == Spec => []HistoryOK
<1>1. Init => HistoryOK
  BY NotAnsweringIsFine DEF Init, HistoryOK
<1>2. TablesOK /\ TablesOK' /\ HistoryOK /\ [Next]_vars => HistoryOK'
  BY NextKeepsHistory
<1> QED BY <1>1, <1>2, TablesAreKept, PTL DEF Spec

(* Whatever is posted while the history is being written, it names as      *)
(* many comments of a request as it counted, from the first to the last of *)
(* those (provenance.history).                                             *)
THEOREM CountedAreNamed == Spec => []HistoryNamesCounted
<1>1. HistoryOK => HistoryNamesCounted
  BY DEF HistoryOK, TellingOK, HistoryNamesCounted
<1> QED BY <1>1, HistoryIsKept, PTL

-----------------------------------------------------------------------------
(* The feed.                                                               *)

RowBefore(r, time) == r.created_at < time /\ r.updated_at < time /\ r.merged_at < time
RowsBefore(but, time) == \A i \in 1..Len(request) : i # but => RowBefore(request[i], time)
CommentsBefore(but, time) ==
  \A c \in 1..Len(comment) : c # but => comment[c].posted_at < time

(* The row of a request that the last thing happened to, at that time.     *)
TellsOf(r, what, time) ==
  \/ /\ what = "submitted" /\ r.open
     /\ r.created_at = time /\ r.updated_at = time /\ r.merged_at < time
  \/ /\ what = "updated" /\ r.open
     /\ r.created_at < time /\ r.updated_at = time /\ r.merged_at < time
  \/ /\ what = "merged" /\ ~r.open /\ r.merged
     /\ r.created_at < time /\ r.updated_at < time /\ r.merged_at = time
  \/ /\ what = "rejected" /\ ~r.open /\ ~r.merged
     /\ r.created_at < time /\ r.updated_at < time /\ r.merged_at = time

RequestLatest(time) ==
  /\ latest.id \in 1..Len(request) /\ TellsOf(request[latest.id], latest.what, time)
  /\ RowsBefore(latest.id, time) /\ CommentsBefore(0, time)

CommentLatest(time) ==
  LET c == Len(comment)
  IN /\ c > 0 /\ latest.what = "commented on"
     /\ comment[c].patch_request_id = latest.id /\ comment[c].posted_at = time
     /\ RowsBefore(0, time) /\ CommentsBefore(c, time)

LatestOK ==
  /\ latest \in [id : Nat, what : Whats, alone : BOOLEAN]
  /\ latest.alone => \E time \in Nat : RequestLatest(time) \/ CommentLatest(time)

LEMMA UpdateTimes ==
  ASSUME TablesOK, NEW i \in 1..Len(request), NEW c \in 0..Len(comment)
  PROVE  LET r == request[i]
             at == {r.created_at, r.updated_at, r.merged_at, PostedAt(c)}
         IN /\ PostedAt(c) \in Int /\ LastUpdateTime(i, c) \in Int
            /\ LastUpdateTime(i, c) \in at /\ \A t \in at : t <= LastUpdateTime(i, c)
<1> DEFINE r == request[i]
<1>1. r.created_at \in Int /\ r.updated_at \in Int /\ r.merged_at \in Int
  BY TypesOfTables DEF Rows, Null
<1>2. PostedAt(c) \in Int
  <2>1. CASE c = 0
    BY <2>1 DEF PostedAt, Null
  <2>2. CASE c # 0
    <3>1. c \in 1..Len(comment)
      BY <2>2, TypesOfTables
    <3> QED BY <2>2, <3>1, TypesOfTables DEF PostedAt, Comments
  <2> QED BY <2>1, <2>2
<1> DEFINE m == Max({r.created_at, r.updated_at, r.merged_at, PostedAt(c)})
<1>3. /\ m \in {r.created_at, r.updated_at, r.merged_at, PostedAt(c)}
      /\ \A t \in {r.created_at, r.updated_at, r.merged_at, PostedAt(c)} : t <= m
  <2> HIDE DEF r
  <2> QED BY <1>1, <1>2, MaxOfFour
<1>4. m = LastUpdateTime(i, c)
  BY DEF LastUpdateTime
<1> HIDE DEF m
<1> QED BY <1>1, <1>2, <1>3, <1>4

(* Every request is in the feed.                                           *)
LEMMA SomeFeedRow ==
  ASSUME TablesOK, NEW i \in 1..Len(request)
  PROVE  \E c \in 0..Len(comment) : <<i, c>> \in FeedRows
<1>1. DOMAIN request = 1..Len(request) /\ CommentsOn(i) \in SUBSET (1..Len(comment))
  BY TypesOfTables
<1>2. Len(comment) \in Nat /\ 0 \in 0..Len(comment)
  BY TypesOfTables
<1>3. CASE CommentsOn(i) = {}
  <2>1. <<i, 0>> \in FeedRows
    BY <1>1, <1>2, <1>3 DEF FeedRows
  <2> QED BY <1>2, <2>1
<1>4. CASE CommentsOn(i) # {}
  <2>1. PICK c \in CommentsOn(i) : TRUE
    BY <1>4
  <2>2. c \in 0..Len(comment)
    BY <1>1, <1>2, <2>1
  <2>3. <<i, c>> \in FeedRows
    BY <1>1, <1>4, <2>1, <2>2 DEF FeedRows
  <2> QED BY <2>2, <2>3
<1> QED BY <1>3, <1>4

LEMMA FeedRowTypes ==
  ASSUME TablesOK, NEW row \in FeedRows
  PROVE  /\ row[1] \in 1..Len(request) /\ row[2] \in 0..Len(comment)
         /\ row[2] # 0 => row[2] \in 1..Len(comment) /\ comment[row[2]].patch_request_id = row[1]
<1>1. row[1] \in 1..Len(request) /\ row[2] \in 0..Len(comment)
  BY TypesOfTables DEF FeedRows
<1>2. row[2] # 0 => row[2] \in CommentsOn(row[1])
  BY DEF FeedRows
<1> QED BY <1>1, <1>2, TypesOfTables DEF CommentsOn

LEMMA FeedOfRequest ==
  ASSUME TablesOK, NEW time \in Nat, RequestLatest(time), NEW row \in FeedTop
  PROVE  row[1] = latest.id /\ WhatHappened(row[1], row[2]) = latest.what
<1> DEFINE i == row[1]
           c == row[2]
           r == request[i]
<1>1. row \in FeedRows /\ \A other \in FeedRows :
        LastUpdateTime(other[1], other[2]) <= LastUpdateTime(i, c)
  BY DEF FeedTop
<1>2. i \in 1..Len(request) /\ c \in 0..Len(comment)
  BY <1>1, FeedRowTypes
<1>3. LastUpdateTime(i, c) >= time
  <2>1. PICK d \in 0..Len(comment) : <<latest.id, d>> \in FeedRows
    BY SomeFeedRow DEF RequestLatest
  <2>2. LastUpdateTime(latest.id, d) \in Int /\ time <= LastUpdateTime(latest.id, d)
    <3>1. time \in {request[latest.id].created_at, request[latest.id].updated_at,
                    request[latest.id].merged_at}
      BY DEF RequestLatest, TellsOf
    <3> QED BY <3>1, UpdateTimes DEF RequestLatest
  <2>3. LastUpdateTime(latest.id, d) <= LastUpdateTime(i, c)
    BY <1>1, <2>1
  <2>4. LastUpdateTime(i, c) \in Int
    BY <1>2, UpdateTimes
  <2> QED BY <2>2, <2>3, <2>4
<1>4. PostedAt(c) < time
  <2>1. CASE c = 0
    BY <2>1 DEF PostedAt, Null
  <2>2. CASE c # 0
    <3>1. c \in 1..Len(comment)
      BY <1>1, <2>2, FeedRowTypes
    <3> QED BY <2>2, <3>1 DEF PostedAt, RequestLatest, CommentsBefore
  <2> QED BY <2>1, <2>2
<1>5. /\ r.created_at \in Int /\ r.updated_at \in Int /\ r.merged_at \in Int /\ PostedAt(c) \in Int
      /\ LastUpdateTime(i, c) \in {r.created_at, r.updated_at, r.merged_at, PostedAt(c)}
  <2>1. r \in Rows
    BY <1>2, TypesOfTables
  <2>2. r.created_at \in Int /\ r.updated_at \in Int /\ r.merged_at \in Int
    BY <2>1 DEF Rows, Null
  <2>3. /\ PostedAt(c) \in Int
        /\ LastUpdateTime(i, c) \in {r.created_at, r.updated_at, r.merged_at, PostedAt(c)}
    BY <1>2, UpdateTimes
  <2> QED BY <2>2, <2>3
<1>6. i = latest.id
  <2> SUFFICES ASSUME i # latest.id PROVE FALSE
    OBVIOUS
  <2>1. RowBefore(r, time)
    BY <1>2 DEF RequestLatest, RowsBefore
  <2>2. r.created_at < time /\ r.updated_at < time /\ r.merged_at < time
    BY <2>1 DEF RowBefore
  <2>3. LastUpdateTime(i, c) \in Int /\ LastUpdateTime(i, c) < time
    BY <1>4, <1>5, <2>2
  <2> QED BY <1>3, <2>3
<1>7. LastUpdateTime(i, c) # PostedAt(c)
  <2>1. PostedAt(c) \in Int
    BY <1>5
  <2> QED BY <1>3, <1>4, <2>1
<1>8. TellsOf(r, latest.what, time)
  BY <1>6 DEF RequestLatest
<1>9. WhatHappened(i, c) = latest.what
  BY <1>5, <1>7, <1>8 DEF WhatHappened, TellsOf
<1> QED BY <1>6, <1>9

LEMMA FeedOfComment ==
  ASSUME TablesOK, NEW time \in Nat, CommentLatest(time), NEW row \in FeedTop
  PROVE  row[1] = latest.id /\ WhatHappened(row[1], row[2]) = latest.what
<1> DEFINE i == row[1]
           c == row[2]
           n == Len(comment)
           r == request[i]
<1>1. row \in FeedRows /\ \A other \in FeedRows :
        LastUpdateTime(other[1], other[2]) <= LastUpdateTime(i, c)
  BY DEF FeedTop
<1>2. i \in 1..Len(request) /\ c \in 0..n /\ n \in Nat /\ n > 0
  BY <1>1, FeedRowTypes, TypesOfTables DEF CommentLatest
<1>3. latest.id \in 1..Len(request) /\ n \in CommentsOn(latest.id) /\ PostedAt(n) = time
  <2>1. n \in 1..n
    BY <1>2
  <2>2. comment[n].patch_request_id = latest.id /\ comment[n].posted_at = time
    BY DEF CommentLatest
  <2>3. n # 0
    BY <1>2
  <2>4. comment[n].patch_request_id \in 1..Len(request) /\ n \in DOMAIN comment
    BY <2>1, TypesOfTables DEF TablesOK
  <2> HIDE DEF n
  <2> QED BY <2>2, <2>3, <2>4 DEF CommentsOn, PostedAt
<1>4. LastUpdateTime(i, c) >= time
  <2>1. <<latest.id, n>> \in FeedRows
    BY <1>2, <1>3, TypesOfTables DEF FeedRows
  <2>2. n \in 0..n
    BY <1>2
  <2>3. LastUpdateTime(latest.id, n) \in Int /\ time <= LastUpdateTime(latest.id, n)
    BY <1>3, <2>2, UpdateTimes
  <2>4. LastUpdateTime(latest.id, n) <= LastUpdateTime(i, c) /\ LastUpdateTime(i, c) \in Int
    BY <1>1, <1>2, <2>1, UpdateTimes
  <2> QED BY <2>3, <2>4
<1>5. /\ r.created_at \in Int /\ r.updated_at \in Int /\ r.merged_at \in Int /\ PostedAt(c) \in Int
      /\ LastUpdateTime(i, c) \in {r.created_at, r.updated_at, r.merged_at, PostedAt(c)}
  <2>1. r \in Rows
    BY <1>2, TypesOfTables
  <2>2. r.created_at \in Int /\ r.updated_at \in Int /\ r.merged_at \in Int
    BY <2>1 DEF Rows, Null
  <2>3. i \in 1..Len(request) /\ c \in 0..Len(comment)
    BY <1>2
  <2> QED BY <2>2, <2>3, UpdateTimes
<1>6. RowBefore(r, time)
  <2>1. i # 0
    BY <1>2
  <2> QED BY <1>2, <2>1 DEF CommentLatest, RowsBefore
<1>7. PostedAt(c) = LastUpdateTime(i, c) /\ PostedAt(c) >= time
  BY <1>4, <1>5, <1>6 DEF RowBefore
<1>8. c = n
  <2> SUFFICES ASSUME c # n PROVE FALSE
    OBVIOUS
  <2>1. c # 0
    BY <1>7 DEF PostedAt, Null
  <2>2. c \in 1..n
    BY <1>2, <2>1
  <2>3. comment[c].posted_at < time /\ PostedAt(c) = comment[c].posted_at
    BY <2>1, <2>2 DEF CommentLatest, CommentsBefore, PostedAt
  <2> QED BY <1>5, <1>7, <2>3
<1>9. i = latest.id
  <2>1. c # 0
    BY <1>2, <1>8
  <2>2. comment[c].patch_request_id = i
    BY <1>1, <2>1, FeedRowTypes
  <2>3. comment[n].patch_request_id = latest.id
    BY DEF CommentLatest
  <2> QED BY <1>8, <2>2, <2>3
<1>10. WhatHappened(i, c) = "commented on"
  BY <1>7 DEF WhatHappened
<1> QED BY <1>9, <1>10 DEF CommentLatest

LEMMA FeedFollowsLatest ==
  ASSUME TablesOK, LatestOK
  PROVE  FeedTellsLatest
BY FeedOfRequest, FeedOfComment DEF LatestOK, FeedTellsLatest

(* When nothing else happened in the second, everything else is earlier.   *)
LEMMA AloneIsLast ==
  ASSUME TablesOK, NEW i, NEW what, Happened(i, what), latest'.alone
  PROVE  /\ RowsBefore(0, now) /\ CommentsBefore(0, now)
         /\ latest'.id = i /\ latest'.what = what
<1>1. /\ \A t \in Times : t < now
      /\ latest'.id = i /\ latest'.what = what
  BY DEF Happened
<1>2. ASSUME NEW k \in 1..Len(request)
      PROVE  RowBefore(request[k], now)
  <2>1. request[k] \in Range(request)
    BY TypesOfTables DEF Range
  <2>2. {request[k].created_at, request[k].updated_at, request[k].merged_at} \subseteq Times
    BY <2>1 DEF Times
  <2> QED BY <1>1, <2>2 DEF RowBefore
<1>3. ASSUME NEW c \in 1..Len(comment)
      PROVE  comment[c].posted_at < now
  <2>1. comment[c] \in Range(comment)
    BY TypesOfTables DEF Range
  <2>2. comment[c].posted_at \in {d.posted_at : d \in Range(comment)}
    BY <2>1
  <2>3. comment[c].posted_at \in Times
    BY <2>2 DEF Times
  <2> QED BY <1>1, <2>3
<1> QED BY <1>1, <1>2, <1>3 DEF RowsBefore, CommentsBefore

LEMMA HappenedIsTyped ==
  ASSUME NEW i \in Nat, NEW what \in Whats, Happened(i, what)
  PROVE  latest' \in [id : Nat, what : Whats, alone : BOOLEAN]
BY DEF Happened

(* Something happens to one request, whose row tells of it.                *)
LEMMA RequestHappens ==
  ASSUME TablesOK, NEW i \in Nat, NEW what \in Whats, Happened(i, what),
         UNCHANGED <<now, comment>>,
         i \in 1..Len(request'), Len(request') >= Len(request),
         Len(request') \in Nat, Len(request) \in Nat,
         \A k \in 1..Len(request') : k # i => k \in 1..Len(request) /\ request'[k] = request[k],
         RowsBefore(0, now) => TellsOf(request'[i], what, now)
  PROVE  LatestOK'
<1>1. latest' \in [id : Nat, what : Whats, alone : BOOLEAN]
  BY HappenedIsTyped
<1>2. ASSUME latest'.alone
      PROVE  now \in Nat /\ RequestLatest(now)'
  <2>1. /\ RowsBefore(0, now) /\ CommentsBefore(0, now)
        /\ latest'.id = i /\ latest'.what = what /\ now \in Nat
    BY <1>2, AloneIsLast, TypesOfTables
  <2>2. TellsOf(request'[i], what, now)
    BY <2>1
  <2>3. \A k \in 1..Len(request') : k # i => RowBefore(request'[k], now)
    <3> SUFFICES ASSUME NEW k \in 1..Len(request'), k # i PROVE RowBefore(request'[k], now)
      OBVIOUS
    <3>1. k \in 1..Len(request) /\ request'[k] = request[k]
      OBVIOUS
    <3>2. k # 0
      BY <3>1
    <3> QED BY <2>1, <3>1, <3>2 DEF RowsBefore
  <2>4. CommentsBefore(0, now)' /\ RowsBefore(i, now)'
    BY <2>1, <2>3 DEF CommentsBefore, RowsBefore
  <2> QED BY <2>1, <2>2, <2>4 DEF RequestLatest
<1> QED BY <1>1, <1>2 DEF LatestOK

LEMMA SubmitTells ==
  ASSUME TablesOK, Submit
  PROVE  LatestOK'
<1> DEFINE i == Len(request) + 1
<1>1. /\ Len(request) \in Nat /\ now \in Nat /\ Len(request') = i /\ request'[i] = NewRow
      /\ UNCHANGED <<now, comment>> /\ \A k \in 1..Len(request) : request'[k] = request[k]
  BY SubmitKeepsTables, TypesOfTables
<1>2. Happened(i, "submitted") /\ "submitted" \in Whats
  BY DEF Submit, Whats
<1>3. TellsOf(NewRow, "submitted", now)
  <2>1. Null < now
    BY <1>1 DEF Null
  <2> QED BY <2>1 DEF TellsOf, NewRow
<1>4. i \in Nat /\ i \in 1..Len(request') /\ Len(request') >= Len(request)
  BY <1>1
<1>5. \A k \in 1..Len(request') : k # i => k \in 1..Len(request) /\ request'[k] = request[k]
  BY <1>1
<1> HIDE DEF i
<1> QED BY <1>1, <1>2, <1>3, <1>4, <1>5, RequestHappens

LEMMA ChangeTells ==
  ASSUME TablesOK, NEW i \in 1..Len(request), Revise(i) \/ Merge(i) \/ Reject(i)
  PROVE  LatestOK'
<1>1. /\ Len(request) \in Nat /\ now \in Nat /\ request[i] \in Rows /\ i \in Nat /\ i # 0
      /\ RowOK(request[i], now)
  BY TypesOfTables DEF TablesOK
<1>2. /\ request[i].open /\ Len(request') = Len(request) /\ UNCHANGED <<now, comment>>
      /\ \A k \in 1..Len(request) : k # i => request'[k] = request[k]
  BY ChangesAreGood, ChangeKeepsTables
<1>3. RowsBefore(0, now) => RowBefore(request[i], now)
  BY <1>1 DEF RowsBefore
<1>4. ASSUME NEW row, NEW what \in Whats, request' = [request EXCEPT ![i] = row],
             Happened(i, what), RowBefore(request[i], now) => TellsOf(row, what, now)
      PROVE  LatestOK'
  <2>1. request'[i] = row
    BY <1>4, TypesOfTables
  <2>2. i \in 1..Len(request') /\ Len(request') >= Len(request) /\ Len(request') \in Nat
    BY <1>1, <1>2
  <2> QED BY <1>1, <1>2, <1>3, <1>4, <2>1, <2>2, RequestHappens
<1>5. CASE Revise(i)
  <2>1. RowBefore(request[i], now) => TellsOf(RevisedRow(request[i]), "updated", now)
    BY <1>1, <1>2 DEF RowBefore, RevisedRow, TellsOf, Rows
  <2>2. /\ request' = [request EXCEPT ![i] = RevisedRow(request[i])]
        /\ Happened(i, "updated") /\ "updated" \in Whats
    BY <1>5 DEF Revise, Whats
  <2> QED BY <1>4, <2>1, <2>2
<1>6. CASE Merge(i)
  <2>1. RowBefore(request[i], now) => TellsOf(ClosedRow(request[i], TRUE), "merged", now)
    BY <1>1, <1>2 DEF RowBefore, ClosedRow, TellsOf, Rows
  <2>2. /\ request' = [request EXCEPT ![i] = ClosedRow(request[i], TRUE)]
        /\ Happened(i, "merged") /\ "merged" \in Whats
    BY <1>6 DEF Merge, Whats
  <2> QED BY <1>4, <2>1, <2>2
<1>7. CASE Reject(i)
  <2>1. RowBefore(request[i], now) => TellsOf(ClosedRow(request[i], FALSE), "rejected", now)
    BY <1>1, <1>2 DEF RowBefore, ClosedRow, TellsOf, Rows
  <2>2. /\ request' = [request EXCEPT ![i] = ClosedRow(request[i], FALSE)]
        /\ Happened(i, "rejected") /\ "rejected" \in Whats
    BY <1>7 DEF Reject, Whats
  <2> QED BY <1>4, <2>1, <2>2
<1>8. Revise(i) \/ Merge(i) \/ Reject(i)
  OBVIOUS
<1> QED BY <1>5, <1>6, <1>7, <1>8

LEMMA CommentTells ==
  ASSUME TablesOK, NEW i \in 1..Len(request), Comment(i)
  PROVE  LatestOK'
<1>1. PICK n \in Nat : n = Len(comment) + 1
  BY TypesOfTables
<1>2. /\ Len(comment) \in Nat /\ now \in Nat /\ Len(comment') = n /\ UNCHANGED <<now, request>>
      /\ comment'[n] = [patch_request_id |-> i, posted_at |-> now]
      /\ \A c \in 1..Len(comment) : comment'[c] = comment[c]
  BY <1>1, CommentKeepsTables, TypesOfTables DEF Grown
<1>3. Happened(i, "commented on") /\ "commented on" \in Whats
  BY DEF Comment, Whats
<1>4. i \in Nat
  BY TypesOfTables
<1>5. latest' \in [id : Nat, what : Whats, alone : BOOLEAN]
  BY <1>3, <1>4, HappenedIsTyped
<1>6. ASSUME latest'.alone
      PROVE  CommentLatest(now)'
  <2>1. /\ RowsBefore(0, now) /\ CommentsBefore(0, now)
        /\ latest'.id = i /\ latest'.what = "commented on"
    BY <1>3, <1>6, AloneIsLast
  <2>2. RowsBefore(0, now)'
    BY <1>2, <2>1 DEF RowsBefore
  <2>3. \A c \in 1..Len(comment') : c # n => comment'[c].posted_at < now
    <3> SUFFICES ASSUME NEW c \in 1..Len(comment'), c # n PROVE comment'[c].posted_at < now
      OBVIOUS
    <3>1. c \in 1..Len(comment) /\ c # 0
      BY <1>1, <1>2
    <3> QED BY <1>2, <2>1, <3>1 DEF CommentsBefore
  <2>4. \A c \in 1..Len(comment') : c # Len(comment') => comment'[c].posted_at < now'
    BY <1>2, <2>3
  <2>5. CommentsBefore(Len(comment), now)'
    BY <2>4 DEF CommentsBefore
  <2>6. Len(comment') > 0
    BY <1>1, <1>2
  <2>7. comment'[Len(comment')].patch_request_id = i /\ comment'[Len(comment')].posted_at = now'
    BY <1>2
  <2> QED BY <2>1, <2>2, <2>5, <2>6, <2>7 DEF CommentLatest
<1> QED BY <1>2, <1>5, <1>6 DEF LatestOK

LEMMA NextKeepsLatest ==
  ASSUME TablesOK, LatestOK, [Next]_vars
  PROVE  LatestOK'
<1>1. CASE UNCHANGED <<request, comment, latest>>
  BY <1>1 DEF LatestOK, RequestLatest, CommentLatest, RowsBefore, CommentsBefore
<1>2. CASE Reads \/ UNCHANGED vars \/ Tick
  BY <1>1, <1>2, ReadsReadOnly DEF vars, Tick, tables
<1>3. DOMAIN request = 1..Len(request)
  BY TypesOfTables
<1> QED BY <1>2, <1>3, SubmitTells, ChangeTells, CommentTells DEF Next, Reads

LEMMA LatestIsKept == Spec => []LatestOK
<1>1. Init => LatestOK
  BY DEF Init, LatestOK, Whats
<1>2. TablesOK /\ LatestOK /\ [Next]_vars => LatestOK'
  BY NextKeepsLatest
<1> QED BY <1>1, <1>2, TablesAreKept, PTL DEF Spec

(* The feed begins with what happened last, whatever happened before, and  *)
(* says what it was (generate_activity_feed and get_what_happened).        *)
THEOREM FeedIsRight == Spec => []FeedTellsLatest
<1>1. TablesOK /\ LatestOK => FeedTellsLatest
  BY FeedFollowsLatest
<1> QED BY <1>1, TablesAreKept, LatestIsKept, PTL

-----------------------------------------------------------------------------
(* The list of requests.                                                   *)

LEMMA QueryTypes ==
  ASSUME NEW q \in Queries
  PROVE  /\ q.sort \in {"created_at", "updated_at"} /\ q.order \in {"asc", "desc"}
         /\ q.filter \in {"none", "open", "merged"} /\ Limit(q) \in Nat
<1>1. q \in [sort : {"created_at", "updated_at"}, order : {"asc", "desc"},
             filter : {"none", "open", "merged"}, limit : Int]
  BY ActivityAssumption
<1>2. Limit(q) \in Nat
  BY <1>1 DEF Limit
<1> QED BY <1>1, <1>2

LEMMA KeysAreNumbers ==
  ASSUME TablesOK, NEW q \in Queries, NEW i \in 1..Len(request)
  PROVE  request[i][q.sort] \in Int
<1>1. request[i] \in Rows /\ q.sort \in {"created_at", "updated_at"}
  BY QueryTypes, TypesOfTables
<1>2. request[i].created_at \in Int /\ request[i].updated_at \in Int
  BY <1>1 DEF Rows
<1> QED BY <1>1, <1>2

LEMMA SelectedAreRows ==
  ASSUME TablesOK, NEW q
  PROVE  /\ Selected(q) \in SUBSET (1..Len(request)) /\ Len(request) \in Nat
         /\ IsFiniteSet(Selected(q)) /\ Cardinality(Selected(q)) \in Nat
<1>1. Selected(q) \in SUBSET (1..Len(request)) /\ Len(request) \in Nat
  BY TypesOfTables DEF Selected
<1> QED BY <1>1, PartsAreFinite

(* Rows come in one order, whatever their keys.                            *)
LEMMA BeforeIsAnOrder ==
  ASSUME TablesOK, NEW q \in Queries,
         NEW i \in Selected(q), NEW j \in Selected(q), NEW k \in Selected(q)
  PROVE  /\ ~Before(q, i, i)
         /\ i # j => Before(q, i, j) \/ Before(q, j, i)
         /\ Before(q, i, j) /\ Before(q, j, k) => Before(q, i, k)
<1>1. i \in 1..Len(request) /\ j \in 1..Len(request) /\ k \in 1..Len(request)
  BY SelectedAreRows
<1> DEFINE x == request[i][q.sort]
           y == request[j][q.sort]
           z == request[k][q.sort]
<1>2. x \in Int /\ y \in Int /\ z \in Int
  BY <1>1, KeysAreNumbers
<1>3. i \in Int /\ j \in Int /\ k \in Int
  BY <1>1
<1>4. /\ Before(q, i, i) <=> IF x = x THEN i > i ELSE (x < x) = (q.order = "asc")
      /\ Before(q, i, j) <=> IF x = y THEN i > j ELSE (x < y) = (q.order = "asc")
      /\ Before(q, j, i) <=> IF y = x THEN j > i ELSE (y < x) = (q.order = "asc")
      /\ Before(q, j, k) <=> IF y = z THEN j > k ELSE (y < z) = (q.order = "asc")
      /\ Before(q, i, k) <=> IF x = z THEN i > k ELSE (x < z) = (q.order = "asc")
  BY DEF Before
<1> HIDE DEF x, y, z
<1>5. CASE q.order = "asc"
  BY <1>2, <1>3, <1>4, <1>5
<1>6. CASE q.order # "asc"
  BY <1>2, <1>3, <1>4, <1>6
<1> QED BY <1>5, <1>6

Ahead(q, i) == {j \in Selected(q) : Before(q, j, i)}

LEMMA PlacesAreCounts ==
  ASSUME TablesOK, NEW q, NEW i
  PROVE  /\ IsFiniteSet(Ahead(q, i)) /\ Place(q, i) = Cardinality(Ahead(q, i))
         /\ Place(q, i) \in Nat
<1>1. Ahead(q, i) \in SUBSET Selected(q)
  BY DEF Ahead
<1>2. IsFiniteSet(Ahead(q, i)) /\ Cardinality(Ahead(q, i)) \in Nat
  BY <1>1, SelectedAreRows, FS_Subset, FS_CardinalityType
<1>3. Place(q, i) = Cardinality(Ahead(q, i))
  BY DEF Place, Ahead
<1> QED BY <1>2, <1>3

LEMMA PlacesFollowTheOrder ==
  ASSUME TablesOK, NEW q \in Queries, NEW i \in Selected(q), NEW k \in Selected(q),
         Before(q, i, k)
  PROVE  Place(q, i) < Place(q, k)
<1>1. Ahead(q, i) \in SUBSET Ahead(q, k)
  BY BeforeIsAnOrder DEF Ahead
<1>2. i \in Ahead(q, k) /\ i \notin Ahead(q, i)
  BY BeforeIsAnOrder DEF Ahead
<1>3. /\ Cardinality(Ahead(q, i)) <= Cardinality(Ahead(q, k))
      /\ Cardinality(Ahead(q, i)) # Cardinality(Ahead(q, k))
  BY <1>1, <1>2, PlacesAreCounts, FS_Subset
<1> QED BY <1>3, PlacesAreCounts

LEMMA PlacesDiffer ==
  ASSUME TablesOK, NEW q \in Queries, NEW i \in Selected(q), NEW k \in Selected(q), i # k
  PROVE  Place(q, i) # Place(q, k)
<1>1. Before(q, i, k) \/ Before(q, k, i)
  BY BeforeIsAnOrder
<1>2. Place(q, i) < Place(q, k) \/ Place(q, k) < Place(q, i)
  BY <1>1, PlacesFollowTheOrder
<1> QED BY <1>2, PlacesAreCounts

LEMMA PlacesAreBounded ==
  ASSUME TablesOK, NEW q \in Queries, NEW i \in Selected(q)
  PROVE  Place(q, i) < Cardinality(Selected(q))
<1>1. Ahead(q, i) \in SUBSET Selected(q) /\ i \notin Ahead(q, i)
  BY BeforeIsAnOrder DEF Ahead
<1>2. /\ Cardinality(Ahead(q, i)) <= Cardinality(Selected(q))
      /\ Cardinality(Ahead(q, i)) # Cardinality(Selected(q))
  BY <1>1, SelectedAreRows, FS_Subset
<1> QED BY <1>2, PlacesAreCounts, SelectedAreRows

(* What a page shows: the rows whose places it covers.                     *)
LEMMA PagesCoverTheirPlaces ==
  ASSUME TablesOK, NEW q \in Queries, NEW from \in Nat, NEW i \in Selected(q),
         i \notin Page(q, from)
  PROVE  /\ Place(q, i) < from + Limit(q) => Place(q, i) < from
         /\ ~More(q, from) => Place(q, i) < from
<1>1. Place(q, i) \in Nat /\ Limit(q) \in Nat
  BY PlacesAreCounts, QueryTypes
<1>2. Place(q, i) \notin from..(from + Limit(q) - 1)
  BY DEF Page
<1>3. Place(q, i) < from + Limit(q) => Place(q, i) < from
  BY <1>1, <1>2
<1>4. ~More(q, from) => Cardinality(Selected(q)) <= from + Limit(q)
  BY <1>1, SelectedAreRows DEF More
<1>5. Place(q, i) < Cardinality(Selected(q)) /\ Cardinality(Selected(q)) \in Nat
  BY PlacesAreBounded, SelectedAreRows
<1> QED BY <1>1, <1>3, <1>4, <1>5

(* How a row is kept or changed decides what is selected and how it is     *)
(* sorted.                                                                 *)
LEMMA RowsDecide ==
  ASSUME TablesOK, TablesOK', NEW q,
         NEW j \in 1..Len(request), NEW k \in 1..Len(request),
         Len(request') >= Len(request), request'[j] = request[j], request'[k] = request[k]
  PROVE  /\ j \in Selected(q)' <=> j \in Selected(q)
         /\ Before(q, j, k)' <=> Before(q, j, k)
<1>1. j \in DOMAIN request /\ j \in DOMAIN request'
  <2>1. Len(request) \in Nat /\ Len(request') \in Nat /\ DOMAIN request' = 1..Len(request')
    BY TypesOfTables DEF TablesOK
  <2> QED BY <2>1, TypesOfTables
<1> QED BY <1>1 DEF Selected, Before

LEMMA AheadIsFinite ==
  ASSUME TablesOK', NEW q, NEW k
  PROVE  /\ Ahead(q, k)' \in SUBSET (1..Len(request')) /\ IsFiniteSet(Ahead(q, k)')
         /\ Place(q, k)' = Cardinality(Ahead(q, k)') /\ Cardinality(Ahead(q, k)') \in Nat
<1>1. Len(request') \in Nat /\ DOMAIN request' = 1..Len(request')
  BY DEF TablesOK
<1>2. Ahead(q, k)' \in SUBSET (1..Len(request'))
  BY <1>1 DEF Ahead, Selected
<1>3. IsFiniteSet(Ahead(q, k)') /\ Cardinality(Ahead(q, k)') \in Nat
  BY <1>1, <1>2, PartsAreFinite
<1>4. Place(q, k)' = Cardinality(Ahead(q, k)')
  BY DEF Place, Ahead
<1> QED BY <1>2, <1>3, <1>4

(* The changed row stays before those it was before, in some orders.       *)
LEMMA ChangedRowStaysAhead ==
  ASSUME TablesOK, NEW q \in Queries, ~RowsMayMoveAway(q),
         NEW i \in 1..Len(request), Revise(i) \/ Merge(i) \/ Reject(i),
         NEW k \in 1..Len(request), k # i, i \in Ahead(q, k)
  PROVE  i \in Ahead(q, k)'
<1>1. /\ request[i] \in Rows /\ RowOK(request[i], now) /\ now \in Nat
      /\ request \in Seq(Rows) /\ DOMAIN request = 1..Len(request)
  BY TypesOfTables DEF TablesOK
<1>2. /\ request[i].open /\ ~request[i].merged
      /\ request[i].created_at \in Int /\ request[i].updated_at \in Int
  BY <1>1, ChangesAreGood DEF RowOK, Rows
<1>3. i \in Selected(q) /\ Before(q, i, k)
  BY DEF Ahead
<1>4. q.filter = "none"
  BY <1>2, <1>3, QueryTypes DEF Selected, RowsMayMoveAway
<1>5. q.sort = "created_at" \/ (q.sort = "updated_at" /\ q.order # "asc")
  BY QueryTypes DEF RowsMayMoveAway
<1>6. /\ DOMAIN request' = DOMAIN request /\ request'[k] = request[k]
      /\ request'[i].created_at = request[i].created_at
      /\ request'[i].updated_at \in Int /\ request'[i].updated_at >= request[i].updated_at
  <2>1. CASE Revise(i)
    <3>1. request' = [request EXCEPT ![i] = RevisedRow(request[i])]
      BY <2>1 DEF Revise
    <3>2. /\ RevisedRow(request[i]).created_at = request[i].created_at
          /\ RevisedRow(request[i]).updated_at = now
      BY <1>1 DEF RevisedRow, Rows
    <3> QED BY <1>1, <1>2, <3>1, <3>2 DEF RowOK
  <2>2. CASE Merge(i) \/ Reject(i)
    <3>1. PICK merged \in BOOLEAN :
            request' = [request EXCEPT ![i] = ClosedRow(request[i], merged)]
      BY <2>2 DEF Merge, Reject
    <3>2. /\ ClosedRow(request[i], merged).created_at = request[i].created_at
          /\ ClosedRow(request[i], merged).updated_at = request[i].updated_at
      BY <1>1 DEF ClosedRow, Rows
    <3> QED BY <1>1, <1>2, <3>1, <3>2
  <2>3. Revise(i) \/ Merge(i) \/ Reject(i)
    OBVIOUS
  <2> QED BY <2>1, <2>2, <2>3
<1>7. i \in Selected(q)'
  BY <1>1, <1>4, <1>6 DEF Selected
<1>8. Before(q, i, k)'
  <2> DEFINE x == request[i][q.sort]
             next == request'[i][q.sort]
             y == request[k][q.sort]
  <2>1. x \in Int /\ y \in Int
    BY KeysAreNumbers
  <2>2. CASE q.sort = "created_at"
    BY <1>3, <1>6, <2>2 DEF Before
  <2>3. CASE q.sort = "updated_at" /\ q.order # "asc"
    <3>1. next \in Int /\ next >= x /\ request'[k][q.sort] = y
      BY <1>6, <2>3
    <3>2. IF x = y THEN i > k ELSE (x < y) = (q.order = "asc")
      BY <1>3 DEF Before
    <3>3. Before(q, i, k)' <=> IF next = y THEN i > k ELSE (next < y) = (q.order = "asc")
      BY <3>1 DEF Before
    <3> HIDE DEF x, next, y
    <3>4. ~(next < y)
      BY <2>1, <2>3, <3>1, <3>2
    <3>5. next = y => x = y
      BY <2>1, <2>3, <3>1, <3>2
    <3> QED BY <2>3, <3>2, <3>3, <3>4, <3>5
  <2> QED BY <1>5, <2>2, <2>3
<1> QED BY <1>7, <1>8 DEF Ahead

(* A change of one row moves each other row by one place at most.          *)
LEMMA PlacesMoveByOne ==
  ASSUME TablesOK, NEW q \in Queries,
         NEW i \in 1..Len(request), Revise(i) \/ Merge(i) \/ Reject(i),
         NEW k \in Selected(q), k # i
  PROVE  /\ k \in Selected(q)' /\ Place(q, k)' \in Nat /\ Place(q, k)' >= Place(q, k) - 1
         /\ ~RowsMayMoveAway(q) => Place(q, k)' >= Place(q, k)
<1>1. /\ TablesOK' /\ Len(request') = Len(request)
      /\ \A j \in 1..Len(request) : j # i => request'[j] = request[j]
  BY ChangesAreGood, ChangeKeepsTables
<1>2. Len(request) \in Nat /\ k \in 1..Len(request) /\ Selected(q) \subseteq 1..Len(request)
  BY SelectedAreRows
<1>3. \A j \in 1..Len(request) : j # i => /\ j \in Selected(q)' <=> j \in Selected(q)
                                          /\ Before(q, j, k)' <=> Before(q, j, k)
  BY <1>1, <1>2, RowsDecide
<1>4. Ahead(q, k) \ {i} \in SUBSET (Ahead(q, k)')
  BY <1>2, <1>3 DEF Ahead
<1>5. /\ IsFiniteSet(Ahead(q, k)) /\ Place(q, k) = Cardinality(Ahead(q, k))
      /\ Cardinality(Ahead(q, k)) \in Nat
  BY PlacesAreCounts
<1>6. /\ IsFiniteSet(Ahead(q, k)') /\ Place(q, k)' = Cardinality(Ahead(q, k)')
      /\ Cardinality(Ahead(q, k)') \in Nat
  BY <1>1, AheadIsFinite
<1>7. Place(q, k)' >= Place(q, k) - 1
  <2>1. /\ Cardinality(Ahead(q, k) \ {i}) >= Cardinality(Ahead(q, k)) - 1
        /\ Cardinality(Ahead(q, k) \ {i}) \in Nat
    BY <1>5, FS_RemoveElement, FS_CardinalityType, SMTT(20)
  <2>2. Cardinality(Ahead(q, k) \ {i}) <= Cardinality(Ahead(q, k)')
    BY <1>4, <1>6, FS_Subset
  <2> QED BY <1>5, <1>6, <2>1, <2>2
<1>8. ASSUME ~RowsMayMoveAway(q)
      PROVE  Place(q, k)' >= Place(q, k)
  <2>1. i \in Ahead(q, k) => i \in Ahead(q, k)'
    BY <1>2, <1>8, ChangedRowStaysAhead
  <2>2. Ahead(q, k) \in SUBSET (Ahead(q, k)')
    BY <1>4, <2>1
  <2> QED BY <1>5, <1>6, <2>2, FS_Subset
<1> QED BY <1>2, <1>3, <1>6, <1>7, <1>8

(* A client that pages: the rows it wants, has not seen, and which are on  *)
(* the pages that it has had by now, are those it will miss.               *)
Missed(q, from, seen, wanted) == {k \in wanted \ seen : Place(q, k) < from}
Allowed(q, changes) == IF RowsMayMoveAway(q) THEN changes ELSE 0

PagingOK(q, from, seen, wanted, changes) ==
  /\ wanted \subseteq Selected(q)
  /\ Cardinality(Missed(q, from, seen, wanted)) <= Allowed(q, changes)
DoneOK(q, seen, wanted, changes) ==
  Cardinality(wanted \ seen) <= Allowed(q, changes)

Listing(pc, q, from, seen, wanted, changes) ==
  [pc |-> pc, query |-> q, from |-> from, seen |-> seen, wanted |-> wanted,
   changes |-> changes]

ListOK ==
  /\ Len(request) <= MaxRows + 1
  /\ \/ lister = NotListing
     \/ \E q \in Queries, from \in Nat, seen \in SUBSET Nat, wanted \in SUBSET Nat,
           changes \in Nat :
             /\ lister = Listing("paging", q, from, seen, wanted, changes)
             /\ PagingOK(q, from, seen, wanted, changes)
     \/ \E q \in Queries, from \in Nat, seen \in SUBSET Nat, wanted \in SUBSET Nat,
           changes \in Nat :
             /\ lister = Listing("done", q, from, seen, wanted, changes)
             /\ DoneOK(q, seen, wanted, changes)

LEMMA MissedIsFinite ==
  ASSUME TablesOK, NEW q, NEW from, NEW seen, NEW wanted, wanted \subseteq Selected(q)
  PROVE  /\ Missed(q, from, seen, wanted) \in SUBSET (1..Len(request))
         /\ IsFiniteSet(Missed(q, from, seen, wanted))
         /\ Cardinality(Missed(q, from, seen, wanted)) \in Nat
<1>1. Missed(q, from, seen, wanted) \in SUBSET (1..Len(request)) /\ Len(request) \in Nat
  BY SelectedAreRows DEF Missed
<1> QED BY <1>1, PartsAreFinite

LEMMA AllowedIsNatural ==
  ASSUME NEW q, NEW changes \in Nat
  PROVE  Allowed(q, changes) \in Nat
BY DEF Allowed

(* At most one more row is missed for a change, and none in some orders.   *)
LEMMA ChangeMissesOne ==
  ASSUME TablesOK, NEW q \in Queries, NEW from \in Nat, NEW seen, NEW wanted,
         wanted \subseteq Selected(q),
         NEW i \in 1..Len(request), Revise(i) \/ Merge(i) \/ Reject(i)
  PROVE  /\ wanted \ {i} \subseteq Selected(q)'
         /\ Cardinality(Missed(q, from, seen, wanted \ {i})')
              <= Cardinality(Missed(q, from, seen, wanted))
                 + (IF RowsMayMoveAway(q) THEN 1 ELSE 0)
<1> DEFINE old == Missed(q, from, seen, wanted)
<1>1. PICK new : new = Missed(q, from, seen, wanted \ {i})'
  OBVIOUS
<1>2. \A k \in wanted \ {i} :
        /\ k \in Selected(q)' /\ Place(q, k)' \in Nat /\ Place(q, k) \in Nat
        /\ Place(q, k)' >= Place(q, k) - 1
        /\ ~RowsMayMoveAway(q) => Place(q, k)' >= Place(q, k)
  BY PlacesMoveByOne, PlacesAreCounts
<1>3. IsFiniteSet(old) /\ Cardinality(old) \in Nat
  BY MissedIsFinite
<1>4. \A k \in new : k \in (wanted \ {i}) \ seen /\ Place(q, k)' < from
  BY <1>1 DEF Missed
<1>5. \A k \in new \ old : Place(q, k) = from
  <2> SUFFICES ASSUME NEW k \in new \ old PROVE Place(q, k) = from
    OBVIOUS
  <2>1. k \in (wanted \ {i}) \ seen /\ Place(q, k)' < from
    BY <1>4
  <2>2. ~(Place(q, k) < from)
    BY <2>1 DEF Missed
  <2> QED BY <1>2, <2>1, <2>2
<1>6. ASSUME new \ old # {}
      PROVE  RowsMayMoveAway(q) /\ Cardinality(new) <= Cardinality(old) + 1
  <2>1. PICK k \in new \ old : TRUE
    BY <1>6
  <2>2. k \in wanted \ {i} /\ Place(q, k) = from /\ Place(q, k)' < from
    BY <1>4, <1>5
  <2>3. RowsMayMoveAway(q)
    BY <1>2, <2>2
  <2>4. ASSUME NEW j \in new \ old
        PROVE  j = k
    <3>1. j \in Selected(q) /\ k \in Selected(q) /\ Place(q, j) = Place(q, k)
      BY <1>4, <1>5, <2>2, <2>4
    <3> QED BY <3>1, PlacesDiffer
  <2>5. new \in SUBSET (old \cup {k})
    BY <2>4
  <2>6. /\ IsFiniteSet(old \cup {k}) /\ Cardinality(old \cup {k}) \in Nat
        /\ Cardinality(old \cup {k}) <= Cardinality(old) + 1
    <3> HIDE DEF old
    <3>1. /\ IsFiniteSet(old \cup {k})
          /\ Cardinality(old \cup {k}) = IF k \in old THEN Cardinality(old)
                                                      ELSE Cardinality(old) + 1
      BY <1>3, FS_AddElement
    <3> QED BY <1>3, <3>1
  <2>7. Cardinality(new) <= Cardinality(old \cup {k}) /\ Cardinality(new) \in Nat
    BY <2>5, <2>6, FS_Subset, FS_CardinalityType
  <2> QED BY <1>3, <2>3, <2>6, <2>7
<1>7. ASSUME new \ old = {}
      PROVE  Cardinality(new) <= Cardinality(old) /\ Cardinality(new) \in Nat
  <2>1. new \in SUBSET old
    BY <1>7
  <2> QED BY <1>3, <2>1, FS_Subset, FS_CardinalityType
<1>8. Cardinality(new) <= Cardinality(old) + (IF RowsMayMoveAway(q) THEN 1 ELSE 0)
  BY <1>3, <1>6, <1>7
<1>9. wanted \ {i} \subseteq Selected(q)'
  BY <1>2
<1> QED BY <1>1, <1>8, <1>9

(* A client can miss no more than the requests that did not change.        *)
LEMMA MissedAreRows ==
  ASSUME TablesOK', NEW q, NEW from, NEW seen, NEW wanted, NEW i \in 1..Len(request'),
         wanted \ {i} \subseteq Selected(q)'
  PROVE  Cardinality(Missed(q, from, seen, wanted \ {i})') <= Len(request') - 1
<1>1. Len(request') \in Nat /\ DOMAIN request' = 1..Len(request')
  BY DEF TablesOK
<1>2. Missed(q, from, seen, wanted \ {i})' \in SUBSET ((1..Len(request')) \ {i})
  BY <1>1 DEF Missed, Selected
<1>3. /\ IsFiniteSet((1..Len(request')) \ {i})
      /\ Cardinality((1..Len(request')) \ {i}) = Len(request') - 1
  <2> DEFINE all == 1..Len(request')
  <2>1. IsFiniteSet(all) /\ Cardinality(all) = Len(request') /\ i \in all
    BY <1>1, FS_Interval, SMTT(20)
  <2> HIDE DEF all
  <2>2. IsFiniteSet(all \ {i}) /\ Cardinality(all \ {i}) = Cardinality(all) - 1
    BY <2>1, FS_RemoveElement
  <2> QED BY <2>1, <2>2 DEF all
<1>4. \A S : S \in SUBSET ((1..Len(request')) \ {i}) =>
        Cardinality(S) <= Cardinality((1..Len(request')) \ {i})
  BY <1>3, FS_Subset
<1>5. Cardinality(Missed(q, from, seen, wanted \ {i})')
        <= Cardinality((1..Len(request')) \ {i})
  BY <1>2, <1>4
<1> QED BY <1>3, <1>5

LEMMA ListingFields ==
  ASSUME NEW pc, NEW q, NEW from, NEW seen, NEW wanted, NEW changes,
         lister = Listing(pc, q, from, seen, wanted, changes)
  PROVE  /\ lister.pc = pc /\ lister.query = q /\ lister.from = from /\ lister.seen = seen
         /\ lister.wanted = wanted /\ lister.changes = changes
BY DEF Listing

(* A listing that is not under way stays as it is.                         *)
LEMMA StillListing ==
  ASSUME ListOK, lister' = lister, lister.pc # "paging", Len(request') <= MaxRows + 1
  PROVE  ListOK'
<1>1. CASE lister = NotListing
  BY <1>1 DEF ListOK, NotListing
<1>2. ASSUME NEW q \in Queries, NEW from \in Nat, NEW seen \in SUBSET Nat,
             NEW wanted \in SUBSET Nat, NEW changes \in Nat,
             lister = Listing("done", q, from, seen, wanted, changes),
             DoneOK(q, seen, wanted, changes)
      PROVE  ListOK'
  <2>1. DoneOK(q, seen, wanted, changes)'
    BY <1>2 DEF DoneOK, Allowed, RowsMayMoveAway
  <2>2. lister' = Listing("done", q, from, seen, wanted, changes)
    BY <1>2
  <2> QED BY <2>1, <2>2 DEF ListOK, Listing
<1>3. ASSUME NEW q, NEW from, NEW seen, NEW wanted, NEW changes,
             lister = Listing("paging", q, from, seen, wanted, changes)
      PROVE  FALSE
  BY <1>3 DEF Listing
<1> QED BY <1>1, <1>2, <1>3 DEF ListOK

LEMMA ListingGoesOn ==
  ASSUME NEW q \in Queries, NEW from \in Nat, NEW seen \in SUBSET Nat,
         NEW wanted \in SUBSET Nat, NEW changes \in Nat,
         lister' = Listing("paging", q, from, seen, wanted, changes),
         PagingOK(q, from, seen, wanted, changes)', Len(request') <= MaxRows + 1
  PROVE  ListOK'
<1>1. /\ Len(request') <= MaxRows + 1
      /\ \E qq \in Queries, f \in Nat, s \in SUBSET Nat, w \in SUBSET Nat, n \in Nat :
           /\ lister' = Listing("paging", qq, f, s, w, n)
           /\ PagingOK(qq, f, s, w, n)'
  OBVIOUS
<1> QED BY <1>1 DEF ListOK, Listing

LEMMA PagingIsIt ==
  ASSUME ListOK, lister.pc = "paging"
  PROVE  \E q \in Queries, from \in Nat, seen \in SUBSET Nat, wanted \in SUBSET Nat,
            changes \in Nat :
              /\ lister = Listing("paging", q, from, seen, wanted, changes)
              /\ PagingOK(q, from, seen, wanted, changes)
<1>1. lister # NotListing
  BY DEF NotListing
<1>2. \A q, from, seen, wanted, changes :
        lister # Listing("done", q, from, seen, wanted, changes)
  BY DEF Listing
<1> QED BY <1>1, <1>2 DEF ListOK

(* New rows only move others to later places.                              *)
LEMMA SubmitMissesNone ==
  ASSUME TablesOK, NEW q \in Queries, NEW from \in Nat, NEW seen \in SUBSET Nat,
         NEW wanted \in SUBSET Nat, NEW changes \in Nat,
         PagingOK(q, from, seen, wanted, changes), Submit
  PROVE  PagingOK(q, from, seen, wanted, changes)'
<1>1. /\ TablesOK' /\ Len(request') = Len(request) + 1
      /\ \A j \in 1..Len(request) : request'[j] = request[j]
  BY SubmitKeepsTables
<1>2. Len(request) \in Nat /\ Selected(q) \subseteq 1..Len(request)
  BY SelectedAreRows
<1>3. Len(request') >= Len(request)
  BY <1>1, <1>2
<1>4. \A j, k \in 1..Len(request) : /\ j \in Selected(q)' <=> j \in Selected(q)
                                    /\ Before(q, j, k)' <=> Before(q, j, k)
  BY <1>1, <1>3, RowsDecide
<1>5. ASSUME NEW k \in Selected(q)
      PROVE  /\ k \in Selected(q)' /\ Place(q, k)' >= Place(q, k)
             /\ Place(q, k)' \in Nat /\ Place(q, k) \in Nat
  <2>1. Ahead(q, k) \in SUBSET (Ahead(q, k)')
    BY <1>2, <1>4 DEF Ahead
  <2>2. /\ IsFiniteSet(Ahead(q, k)') /\ Place(q, k)' = Cardinality(Ahead(q, k)')
        /\ Cardinality(Ahead(q, k)') \in Nat
    BY <1>1, AheadIsFinite
  <2>3. /\ Place(q, k) = Cardinality(Ahead(q, k)) /\ Place(q, k) \in Nat
    BY PlacesAreCounts
  <2>4. Cardinality(Ahead(q, k)) <= Cardinality(Ahead(q, k)')
    BY <2>1, <2>2, FS_Subset
  <2>5. k \in Selected(q)'
    BY <1>2, <1>4
  <2> QED BY <2>2, <2>3, <2>4, <2>5
<1>6. wanted \subseteq Selected(q)
  BY DEF PagingOK
<1>7. wanted \subseteq Selected(q)'
  BY <1>5, <1>6
<1>8. Missed(q, from, seen, wanted)' \in SUBSET Missed(q, from, seen, wanted)
  <2> SUFFICES ASSUME NEW k \in wanted \ seen, Place(q, k)' < from
               PROVE  Place(q, k) < from
    BY DEF Missed
  <2> QED BY <1>5, <1>6
<1>9. /\ Cardinality(Missed(q, from, seen, wanted)')
           <= Cardinality(Missed(q, from, seen, wanted))
      /\ Cardinality(Missed(q, from, seen, wanted)') \in Nat
  BY <1>6, <1>8, MissedIsFinite, FS_Subset, FS_CardinalityType
<1>10. Cardinality(Missed(q, from, seen, wanted)) <= Allowed(q, changes)
  BY DEF PagingOK
<1>11. Cardinality(Missed(q, from, seen, wanted)') <= Allowed(q, changes)
  <2>1. Cardinality(Missed(q, from, seen, wanted)) \in Nat
    BY <1>6, MissedIsFinite
  <2>2. Allowed(q, changes) \in Nat
    BY AllowedIsNatural
  <2> QED BY <1>9, <1>10, <2>1, <2>2
<1> QED BY <1>7, <1>11 DEF PagingOK, Allowed, RowsMayMoveAway

LEMMA SubmitKeepsList ==
  ASSUME TablesOK, ListOK, Submit
  PROVE  ListOK'
<1>1. lister' = lister /\ Len(request') <= MaxRows + 1
  <2>1. Len(request') = Len(request) + 1 /\ Len(request) \in Nat /\ Len(comment) \in Nat
    BY SubmitKeepsTables, TypesOfTables
  <2>2. Len(request) + Len(comment) < MaxRows /\ MaxRows \in Nat /\ lister' = lister
    BY ActivityAssumption DEF Submit, RoomForRows
  <2> QED BY <2>1, <2>2
<1>2. CASE lister.pc # "paging"
  BY <1>1, <1>2, StillListing
<1>3. CASE lister.pc = "paging"
  <2>1. PICK q \in Queries, from \in Nat, seen \in SUBSET Nat, wanted \in SUBSET Nat,
             changes \in Nat :
               /\ lister = Listing("paging", q, from, seen, wanted, changes)
               /\ PagingOK(q, from, seen, wanted, changes)
    BY <1>3, PagingIsIt
  <2>2. PagingOK(q, from, seen, wanted, changes)'
    BY <2>1, SubmitMissesNone
  <2> QED BY <1>1, <2>1, <2>2, ListingGoesOn
<1> QED BY <1>2, <1>3

LEMMA ChangeKeepsList ==
  ASSUME TablesOK, ListOK, NEW i \in 1..Len(request), Revise(i) \/ Merge(i) \/ Reject(i)
  PROVE  ListOK'
<1>1. Noted(i)
  BY DEF Revise, Merge, Reject
<1>2. /\ TablesOK' /\ Len(request') = Len(request) /\ Len(request) \in Nat
      /\ i \in 1..Len(request')
  BY ChangesAreGood, ChangeKeepsTables, TypesOfTables
<1>3. Len(request') <= MaxRows + 1 /\ MaxRows \in Nat
  BY <1>2, ActivityAssumption DEF ListOK
<1>4. CASE lister.pc # "paging"
  BY <1>1, <1>3, <1>4, StillListing DEF Noted
<1>5. CASE lister.pc = "paging"
  <2>1. PICK q \in Queries, from \in Nat, seen \in SUBSET Nat, wanted \in SUBSET Nat,
             changes \in Nat :
               /\ lister = Listing("paging", q, from, seen, wanted, changes)
               /\ PagingOK(q, from, seen, wanted, changes)
    BY <1>5, PagingIsIt
  <2>2. PICK next \in Nat : next = IF changes < MaxRows THEN changes + 1 ELSE changes
    BY <1>3
  <2>3. lister' = Listing("paging", q, from, seen, wanted \ {i}, next)
    <3>1. lister.wanted = wanted /\ lister.changes = changes
      BY <2>1, ListingFields
    <3>2. lister' = [lister EXCEPT !.wanted = wanted \ {i}, !.changes = next]
      BY <1>1, <1>5, <2>2, <3>1 DEF Noted
    <3> QED BY <2>1, <3>2 DEF Listing
  <2>4. wanted \subseteq Selected(q)
    BY <2>1 DEF PagingOK
  <2>5. /\ wanted \ {i} \subseteq Selected(q)'
        /\ Cardinality(Missed(q, from, seen, wanted \ {i})')
             <= Cardinality(Missed(q, from, seen, wanted))
                + (IF RowsMayMoveAway(q) THEN 1 ELSE 0)
    BY <2>4, ChangeMissesOne
  <2>6. Cardinality(Missed(q, from, seen, wanted \ {i})') <= Len(request') - 1
    BY <1>2, <2>5, MissedAreRows
  <2>7. /\ Cardinality(Missed(q, from, seen, wanted)) <= Allowed(q, changes)
        /\ Cardinality(Missed(q, from, seen, wanted)) \in Nat
    BY <2>1, <2>4, MissedIsFinite DEF PagingOK
  <2>8. Cardinality(Missed(q, from, seen, wanted \ {i})') \in Nat
    <3>1. Missed(q, from, seen, wanted \ {i})' \in SUBSET (1..Len(request'))
      <4>1. DOMAIN request' = 1..Len(request')
        BY <1>2 DEF TablesOK
      <4>2. Selected(q)' \subseteq 1..Len(request')
        BY <4>1 DEF Selected
      <4> QED BY <2>5, <4>2 DEF Missed
    <3> QED BY <1>2, <3>1, PartsAreFinite
  <2>9. Cardinality(Missed(q, from, seen, wanted \ {i})') <= Allowed(q, next)
    BY <1>2, <1>3, <2>2, <2>5, <2>6, <2>7, <2>8 DEF Allowed
  <2>10. PagingOK(q, from, seen, wanted \ {i}, next)'
    BY <2>5, <2>9 DEF PagingOK, Allowed, RowsMayMoveAway
  <2>11. wanted \ {i} \in SUBSET Nat
    OBVIOUS
  <2> QED BY <1>3, <2>3, <2>10, <2>11, ListingGoesOn
<1> QED BY <1>4, <1>5

LEMMA StartKeepsList ==
  ASSUME TablesOK, ListOK, NEW q \in Queries, StartList(q)
  PROVE  ListOK'
<1>1. request' = request /\ Len(request') <= MaxRows + 1
  BY DEF StartList, tables, ListOK
<1>2. PICK wanted \in SUBSET Nat : wanted = Selected(q)
  BY SelectedAreRows
<1>3. lister' = Listing("paging", q, 0, {}, wanted, 0)
  BY <1>2 DEF StartList, NotListing, Listing
<1>4. wanted \subseteq Selected(q)'
  BY <1>1, <1>2 DEF Selected
<1>5. Missed(q, 0, {}, wanted)' = {}
  <2> SUFFICES ASSUME NEW k \in wanted, Place(q, k)' < 0 PROVE FALSE
    BY DEF Missed
  <2>1. Place(q, k)' = Place(q, k)
    BY <1>1 DEF Place, Selected, Before
  <2> QED BY <2>1, PlacesAreCounts
<1>6. PagingOK(q, 0, {}, wanted, 0)'
  BY <1>4, <1>5, FS_EmptySet DEF PagingOK, Allowed, RowsMayMoveAway
<1>7. 0 \in Nat /\ {} \in SUBSET Nat
  OBVIOUS
<1> QED BY <1>1, <1>3, <1>6, <1>7, ListingGoesOn

LEMMA GetPageKeepsList ==
  ASSUME TablesOK, ListOK, GetPage
  PROVE  ListOK'
<1>1. request' = request /\ Len(request') <= MaxRows + 1 /\ lister.pc = "paging"
  BY DEF GetPage, tables, ListOK
<1>2. PICK q \in Queries, from \in Nat, seen \in SUBSET Nat, wanted \in SUBSET Nat,
           changes \in Nat :
             /\ lister = Listing("paging", q, from, seen, wanted, changes)
             /\ PagingOK(q, from, seen, wanted, changes)
  BY <1>1, PagingIsIt
<1>3. PICK now_seen \in SUBSET Nat : now_seen = seen \cup Page(q, from)
  <2>1. Page(q, from) \subseteq Selected(q)
    BY DEF Page
  <2>2. Page(q, from) \subseteq Nat
    BY <2>1, SelectedAreRows
  <2> QED BY <2>2
<1>4. PICK next \in Nat : next = from + Limit(q)
  BY QueryTypes
<1>5. lister' = IF More(q, from)
                THEN Listing("paging", q, next, now_seen, wanted, changes)
                ELSE Listing("done", q, from, now_seen, wanted, changes)
  <2>1. lister.query = q /\ lister.from = from /\ lister.seen = seen
    BY <1>2, ListingFields
  <2> DEFINE got == [lister EXCEPT !.seen = @ \cup Page(q, from)]
  <2>2. got = Listing("paging", q, from, now_seen, wanted, changes)
    BY <1>2, <1>3, <2>1 DEF Listing
  <2>3. lister' = IF More(q, from) THEN [got EXCEPT !.from = NextFrom(q, from)]
                                   ELSE [got EXCEPT !.pc = "done"]
    BY <2>1 DEF GetPage
  <2> HIDE DEF got
  <2>4. [got EXCEPT !.from = NextFrom(q, from)]
          = Listing("paging", q, next, now_seen, wanted, changes)
    BY <1>4, <2>2 DEF Listing, NextFrom
  <2>5. [got EXCEPT !.pc = "done"] = Listing("done", q, from, now_seen, wanted, changes)
    BY <2>2 DEF Listing
  <2> QED BY <2>3, <2>4, <2>5
<1> DEFINE missed == Missed(q, from, seen, wanted)
<1>6. /\ wanted \subseteq Selected(q) /\ IsFiniteSet(missed) /\ Cardinality(missed) \in Nat
      /\ Cardinality(missed) <= Allowed(q, changes) /\ Allowed(q, changes) \in Nat
  BY <1>2, MissedIsFinite, AllowedIsNatural DEF PagingOK
<1>7. ASSUME NEW left \in SUBSET missed
      PROVE  Cardinality(left) <= Allowed(q, changes)
  <2> HIDE DEF missed
  <2>1. Cardinality(left) <= Cardinality(missed) /\ Cardinality(left) \in Nat
    BY <1>6, FS_Subset, FS_CardinalityType
  <2> QED BY <1>6, <2>1
<1>8. CASE More(q, from)
  <2>1. wanted \subseteq Selected(q)'
    BY <1>1, <1>6 DEF Selected
  <2>2. Missed(q, next, now_seen, wanted) \in SUBSET missed
    <3> SUFFICES ASSUME NEW k \in wanted \ now_seen, Place(q, k) < next
                 PROVE  k \notin seen /\ Place(q, k) < from
      BY DEF Missed
    <3>1. k \in Selected(q) /\ k \notin Page(q, from)
      BY <1>3, <1>6
    <3>2. Place(q, k) < from + Limit(q)
      BY <1>4
    <3>3. Place(q, k) < from
      BY <3>1, <3>2, PagesCoverTheirPlaces
    <3> QED BY <1>3, <3>3
  <2>3. Missed(q, next, now_seen, wanted)' = Missed(q, next, now_seen, wanted)
    BY <1>1 DEF Missed, Place, Selected, Before
  <2>4. PagingOK(q, next, now_seen, wanted, changes)'
    BY <1>7, <2>1, <2>2, <2>3 DEF PagingOK, Allowed, RowsMayMoveAway
  <2>5. lister' = Listing("paging", q, next, now_seen, wanted, changes)
    BY <1>5, <1>8
  <2> QED BY <1>1, <2>4, <2>5, ListingGoesOn
<1>9. CASE ~More(q, from)
  <2>1. wanted \ now_seen \in SUBSET missed
    <3> SUFFICES ASSUME NEW k \in wanted \ now_seen
                 PROVE  k \notin seen /\ Place(q, k) < from
      BY DEF Missed
    <3>1. k \in Selected(q) /\ k \notin Page(q, from)
      BY <1>3, <1>6
    <3> QED BY <1>3, <1>9, <3>1, PagesCoverTheirPlaces
  <2>2. DoneOK(q, now_seen, wanted, changes)'
    BY <1>7, <2>1 DEF DoneOK, Allowed, RowsMayMoveAway
  <2>3. lister' = Listing("done", q, from, now_seen, wanted, changes)
    BY <1>5, <1>9
  <2> QED BY <1>1, <2>2, <2>3 DEF ListOK, Listing
<1> QED BY <1>8, <1>9

LEMMA NextKeepsList ==
  ASSUME TablesOK, ListOK, [Next]_vars
  PROVE  ListOK'
<1>1. CASE UNCHANGED <<request, lister>>
  <2>1. lister' = lister /\ Len(request') <= MaxRows + 1
    BY <1>1 DEF ListOK
  <2>2. CASE lister.pc # "paging"
    BY <2>1, <2>2, StillListing
  <2>3. CASE lister.pc = "paging"
    <3>1. PICK q \in Queries, from \in Nat, seen \in SUBSET Nat, wanted \in SUBSET Nat,
               changes \in Nat :
                 /\ lister = Listing("paging", q, from, seen, wanted, changes)
                 /\ PagingOK(q, from, seen, wanted, changes)
      BY <2>3, PagingIsIt
    <3>2. PagingOK(q, from, seen, wanted, changes)'
      BY <1>1, <3>1 DEF PagingOK, Missed, Allowed, RowsMayMoveAway, Place, Selected, Before
    <3> QED BY <2>1, <3>1, <3>2, ListingGoesOn
  <2> QED BY <2>2, <2>3
<1>2. CASE EndList
  BY <1>2 DEF EndList, ListOK, tables, NotListing, NoQuery
<1>3. CASE UNCHANGED vars \/ Tick \/ HistoryRows \/ HistoryComments \/ HistoryEnd
  BY <1>1, <1>3 DEF vars, Tick, HistoryRows, HistoryComments, HistoryEnd, tables
<1>4. ASSUME NEW i \in 1..Len(request), Revise(i) \/ Merge(i) \/ Reject(i) \/ Comment(i)
      PROVE  ListOK'
  <2>1. CASE Comment(i)
    BY <1>1, <2>1 DEF Comment
  <2> QED BY <1>4, <2>1, ChangeKeepsList
<1>5. DOMAIN request = 1..Len(request)
  BY TypesOfTables
<1> QED BY <1>2, <1>3, <1>4, <1>5, SubmitKeepsList, StartKeepsList, GetPageKeepsList DEF Next

LEMMA ListIsKept == Spec => []ListOK
<1>1. Init => ListOK
  <2> SUFFICES ASSUME Init PROVE ListOK
    OBVIOUS
  <2>1. Len(request) = 1 /\ lister = NotListing
    BY DEF Init
  <2> QED BY <2>1, ActivityAssumption DEF ListOK
<1>2. TablesOK /\ ListOK /\ [Next]_vars => ListOK'
  BY NextKeepsList
<1> QED BY <1>1, <1>2, TablesAreKept, PTL DEF Spec

(* A client that pages through /patches/ to the end, however long the      *)
(* table, however small the pages and whatever is submitted, revised,      *)
(* merged or rejected meanwhile, misses no more of the requests that       *)
(* stayed as they were than others changed, and none at all in the orders  *)
(* in which changed rows only move forward (PatchRequestList.get).         *)
THEOREM PagesMissFew == Spec => []PagesMissLittle
<1>1. ListOK => PagesMissLittle
  <2> SUFFICES ASSUME ListOK, lister.pc = "done"
               PROVE  Cardinality(lister.wanted \ lister.seen)
                        <= IF RowsMayMoveAway(lister.query) THEN lister.changes ELSE 0
    BY DEF PagesMissLittle
  <2>1. lister # NotListing
    BY DEF NotListing
  <2>2. \A q, from, seen, wanted, changes :
          lister # Listing("paging", q, from, seen, wanted, changes)
    BY DEF Listing
  <2>3. PICK q \in Queries, from \in Nat, seen \in SUBSET Nat, wanted \in SUBSET Nat,
             changes \in Nat :
               /\ lister = Listing("done", q, from, seen, wanted, changes)
               /\ DoneOK(q, seen, wanted, changes)
    BY <2>1, <2>2 DEF ListOK
  <2>4. /\ lister.query = q /\ lister.seen = seen /\ lister.wanted = wanted
        /\ lister.changes = changes
    BY <2>3, ListingFields
  <2> QED BY <2>3, <2>4 DEF DoneOK, Allowed
<1> QED BY <1>1, ListIsKept, PTL

(* The columns hold times, and what the readers keep has its types.        *)
THEOREM ActivityIsTyped == Spec => []TypeOK
<1>1. TablesOK /\ HistoryOK /\ LatestOK /\ ListOK => TypeOK
  <2> SUFFICES ASSUME TablesOK, HistoryOK, LatestOK, ListOK PROVE TypeOK
    OBVIOUS
  <2>1. lister \in Listings
    BY DEF ListOK, Listing, Listings, NotListing
  <2>2. history.pc \in {"idle", "comments"} /\ history.told \subseteq Tellings
    BY DEF HistoryOK, Answerings
  <2> QED BY <2>1, <2>2 DEF TablesOK, LatestOK, TypeOK
<1> QED BY <1>1, TablesAreKept, HistoryIsKept, LatestIsKept, ListIsKept, PTL
=============================================================================
