--------------------------- MODULE DeliveryProofs ---------------------------
(***************************************************************************)
(* Proofs about Delivery, for any number of workers, any representations   *)
(* asked for, and any times that calls take.                               *)
(***************************************************************************)
EXTENDS Delivery, TLAPS

(* Of itself StaleHasACause is not inductive: a worker that answers or dies *)
(* could take an unsent purge with it.  Only a merge has purges to send.   *)
OnlyMergesPurge ==
  \A w \in Workers :
    IF At(w, "purge") THEN worker[w].sent < Len(PurgePosts)
                      ELSE worker[w].sent = Len(PurgePosts)

Inv == TypeOK /\ OnlyMergesPurge /\ StaleHasACause

-----------------------------------------------------------------------------
(* The POSTs.                                                              *)
LEMMA Posts ==
  /\ Len(PurgePosts) = 5
  /\ \A k \in 1..5 : PurgePosts[k] \subseteq Reps
  /\ \A rep \in Reps \ {"identifier-map"} : \E k \in 1..5 : rep \in PurgePosts[k]
<1>1. Len(PurgePosts) = 5
  BY DEF PurgePosts
<1>2. /\ PurgePosts[1] = {"history"} /\ PurgePosts[2] = {"history?full"}
      /\ PurgePosts[3] = {"dataset", "dataset.ttl", "dataset.csv"}
      /\ PurgePosts[4] = {"dataset?inline-context"} /\ PurgePosts[5] = {"graphs"}
  BY DEF PurgePosts
<1>3. 1..5 = {1, 2, 3, 4, 5}
  OBVIOUS
<1>4. \A k \in 1..5 : PurgePosts[k] \subseteq Reps
  BY <1>2, <1>3 DEF Reps, DatasetReps, HistoryReps, Translated
<1>5. ASSUME NEW rep \in Reps, rep # "identifier-map"
      PROVE  \E k \in 1..5 : rep \in PurgePosts[k]
  <2>1. rep \in PurgePosts[1] \/ rep \in PurgePosts[2] \/ rep \in PurgePosts[3]
        \/ rep \in PurgePosts[4] \/ rep \in PurgePosts[5]
    BY <1>2, <1>5 DEF Reps, DatasetReps, HistoryReps, Translated
  <2>. QED BY <2>1, <1>3
<1>. QED BY <1>1, <1>4, <1>5

(* What is unsent when everything, nothing, or one more POST has been sent. *)
LEMMA UnsentOf ==
  ASSUME NEW job \in Jobs
  PROVE  /\ \A rep : rep \in Unsent(job) <=> \E k \in (job.sent + 1)..5 : rep \in PurgePosts[k]
         /\ job.sent = 5 => Unsent(job) = {}
         /\ job.sent = 0 => Reps \ {"identifier-map"} \subseteq Unsent(job)
<1>1. job.sent \in 0..5
  BY Posts DEF Jobs
<1>2. \A rep : rep \in Unsent(job) <=> \E k \in (job.sent + 1)..5 : rep \in PurgePosts[k]
  BY Posts DEF Unsent
<1>3. job.sent = 5 => (job.sent + 1)..5 = {}
  BY <1>1
<1>4. job.sent = 0 => (job.sent + 1)..5 = 1..5
  BY <1>1
<1>. QED BY <1>2, <1>3, <1>4, Posts

LEMMA IdleType == Idle \in Jobs /\ Idle.pc = "idle" /\ Idle.sent = 5
BY Posts DEF Idle, Jobs, Points

(* The waits are natural numbers, whatever exclusive or does to n.         *)
LEMMA WaitType ==
  ASSUME NEW n \in Nat
  PROVE  Wait(n) \in Nat
<1>1. XorTwo(n) \in Nat
  <2>1. CASE (n \div 2) % 2 = 1
    <3>1. n >= 2
      BY <2>1
    <3>. QED BY <3>1, <2>1 DEF XorTwo
  <2>2. CASE (n \div 2) % 2 # 1
    BY <2>2 DEF XorTwo
  <2>. QED BY <2>1, <2>2
<1>. QED BY <1>1, DeliveryAssumption DEF Wait

LEMMA LaterType ==
  ASSUME NEW job \in Jobs, NEW t \in Nat
  PROVE  /\ Later(job, t) \in Jobs
         /\ Later(job, t).pc = job.pc /\ Later(job, t).rep = job.rep
         /\ Later(job, t).version = job.version /\ Later(job, t).n = job.n
         /\ Later(job, t).sent = job.sent
         /\ Later(job, t).elapsed = IF job.elapsed + t > WorkerTimeout THEN WorkerTimeout + 1
                                    ELSE job.elapsed + t
<1>. DEFINE e == IF job.elapsed + t > WorkerTimeout THEN WorkerTimeout + 1
                 ELSE job.elapsed + t
<1>1. e \in Nat
  BY DeliveryAssumption DEF Jobs
<1>2. Later(job, t) = [job EXCEPT !.elapsed = e]
  BY DEF Later
<1>. HIDE DEF e
<1>3. /\ [job EXCEPT !.elapsed = e] \in Jobs
      /\ [job EXCEPT !.elapsed = e].pc = job.pc /\ [job EXCEPT !.elapsed = e].rep = job.rep
      /\ [job EXCEPT !.elapsed = e].version = job.version
      /\ [job EXCEPT !.elapsed = e].n = job.n /\ [job EXCEPT !.elapsed = e].sent = job.sent
      /\ [job EXCEPT !.elapsed = e].elapsed = e
  BY <1>1 DEF Jobs
<1>. QED BY <1>2, <1>3 DEF e

(* A step that leaves the proxy and the dataset alone, and replaces a job  *)
(* that has no purge to send by another such job, preserves the invariant. *)
LEMMA Harmless ==
  ASSUME Inv, NEW w \in Workers, NEW job \in Jobs,
         worker[w].pc # "purge", job.pc # "purge", job.sent = 5,
         Becomes(w, job), UNCHANGED <<version, cache>>
  PROVE  Inv'
<1>. USE DEF Inv
<1>1. worker' = [worker EXCEPT ![w] = job] /\ worker \in [Workers -> Jobs]
  BY DEF Becomes, TypeOK
<1>2. TypeOK'
  BY <1>1 DEF TypeOK
<1>3. OnlyMergesPurge'
  BY <1>1, Posts DEF OnlyMergesPurge, At
<1>4. worker[w].sent = 5
  BY Posts DEF OnlyMergesPurge, At
<1>5. ASSUME NEW rep \in Reps \ {"identifier-map"}, Stale(rep)'
      PROVE  cache[rep]'.late \/ cache[rep]'.missed \/ \E v \in Workers : rep \in Unsent(worker'[v])
  <2>1. Stale(rep)
    BY <1>5 DEF Stale
  <2>2. CASE cache[rep].late \/ cache[rep].missed
    BY <2>2
  <2>3. ASSUME NEW v \in Workers, rep \in Unsent(worker[v])
        PROVE  rep \in Unsent(worker'[v])
    <3>1. v # w
      BY <2>3, <1>1, <1>4, UnsentOf
    <3>. QED BY <2>3, <3>1, <1>1
  <2>. QED BY <2>1, <2>2, <2>3 DEF StaleHasACause
<1>. QED BY <1>2, <1>3, <1>5 DEF StaleHasACause

-----------------------------------------------------------------------------
LEMMA Initially == Init => Inv
<1>. SUFFICES ASSUME Init PROVE Inv
  OBVIOUS
<1>1. TypeOK
  BY IdleType DEF Init, TypeOK
<1>2. OnlyMergesPurge
  BY IdleType, Posts DEF Init, OnlyMergesPurge, At
<1>3. StaleHasACause
  BY DEF Init, StaleHasACause, Stale
<1>. QED BY <1>1, <1>2, <1>3 DEF Inv

LEMMA GetInv ==
  ASSUME Inv, NEW w \in Workers, NEW rep \in Served, Get(w, rep)
  PROVE  Inv'
<1>1. /\ worker[w].pc = "idle" /\ version \in Nat /\ rep \in Reps
      /\ UNCHANGED <<version, cache>>
  BY DeliveryAssumption DEF Inv, TypeOK, Get, At
<1>. DEFINE job == [Idle EXCEPT !.rep = rep, !.version = version]
<1>2. job \in Jobs /\ job.sent = 5
  BY <1>1, IdleType, Posts DEF Idle, Jobs
<1>3. CASE Becomes(w, [job EXCEPT !.pc = "respond"])
  <2>1. [job EXCEPT !.pc = "respond"] \in Jobs /\ [job EXCEPT !.pc = "respond"].sent = 5
    BY <1>2 DEF Jobs, Points
  <2>. QED BY <1>1, <1>2, <1>3, <2>1, Harmless DEF Jobs
<1>4. CASE Becomes(w, [job EXCEPT !.pc = "wake"])
  <2>1. [job EXCEPT !.pc = "wake"] \in Jobs /\ [job EXCEPT !.pc = "wake"].sent = 5
    BY <1>2 DEF Jobs, Points
  <2>. QED BY <1>1, <1>2, <1>4, <2>1, Harmless DEF Jobs
<1>. QED BY <1>3, <1>4 DEF Get

(* The steps of a translation: the job moves on, later.                    *)
LEMMA MovesOn ==
  ASSUME Inv, NEW w \in Workers, NEW point \in Points \ {"purge"}, NEW n \in Nat, NEW t \in Nat,
         worker[w].pc # "purge", UNCHANGED <<version, cache>>,
         Becomes(w, Later([worker[w] EXCEPT !.pc = point, !.n = n], t))
  PROVE  Inv'
<1>1. worker[w] \in Jobs /\ worker[w].sent = 5
  BY Posts DEF Inv, TypeOK, OnlyMergesPurge, At
<1>. DEFINE job == [worker[w] EXCEPT !.pc = point, !.n = n]
<1>2. job \in Jobs /\ job.pc = point /\ job.sent = 5
  BY <1>1 DEF Jobs
<1>. HIDE DEF job
<1>3. Later(job, t) \in Jobs /\ Later(job, t).pc = point /\ Later(job, t).sent = 5
  BY <1>2, LaterType
<1>. QED BY <1>3, Harmless DEF job

LEMMA TranslationInv ==
  ASSUME Inv, NEW w \in Workers, Wake(w) \/ PutData(w) \/ Poll(w)
  PROVE  Inv'
<1>1. worker[w] \in Jobs /\ worker[w].n \in Nat /\ worker[w].pc # "purge"
      /\ UNCHANGED <<version, cache>> /\ CallTimes \subseteq Nat
  BY DeliveryAssumption DEF Inv, TypeOK, Jobs, Wake, PutData, Poll, At
<1>2. ASSUME NEW point \in {"put", "poll", "respond"}
      PROVE  [worker[w] EXCEPT !.pc = point]
               = [worker[w] EXCEPT !.pc = point, !.n = worker[w].n]
  BY <1>1 DEF Jobs
<1>3. ASSUME NEW t \in CallTimes, NEW point \in {"put", "poll", "respond"},
             Spends(w, t, [worker[w] EXCEPT !.pc = point])
      PROVE  Inv'
  <2>1. t \in Nat /\ point \in Points \ {"purge"}
    BY <1>1 DEF Points
  <2>2. Becomes(w, Later([worker[w] EXCEPT !.pc = point, !.n = worker[w].n], t))
    BY <1>2, <1>3 DEF Spends
  <2>. QED BY <1>1, <2>1, <2>2, MovesOn
<1>4. CASE Wake(w)
  BY <1>3, <1>4 DEF Wake
<1>5. CASE PutData(w)
  BY <1>3, <1>5 DEF PutData, Answering
<1>6. CASE Poll(w)
  <2>1. ASSUME NEW t \in CallTimes, Becomes(w, Again(worker[w], t))
        PROVE  Inv'
    <3>. DEFINE waits == t + Wait(worker[w].n)
                waited == Later([worker[w] EXCEPT !.n = @ + 1], waits)
    <3>1. waits \in Nat /\ worker[w].n + 1 \in Nat
      BY <1>1, WaitType
    <3>2. [worker[w] EXCEPT !.n = @ + 1] \in Jobs
      BY <1>1, <3>1 DEF Jobs
    <3>3. waited \in Jobs /\ waited.pc = worker[w].pc /\ waited.sent = worker[w].sent
          /\ worker[w].sent = 5
      BY <1>1, <3>1, <3>2, LaterType, Posts DEF Jobs, Inv, OnlyMergesPurge, At
    <3>4. Answering(waited) \in Jobs /\ Answering(waited).pc = "respond"
          /\ Answering(waited).sent = 5
      BY <3>3 DEF Answering, Jobs, Points
    <3>5. Again(worker[w], t) \in {waited, Answering(waited)}
      BY DEF Again
    <3>. HIDE DEF waited
    <3>6. CASE Again(worker[w], t) = waited
      BY <1>1, <2>1, <3>3, <3>6, Harmless
    <3>7. CASE Again(worker[w], t) = Answering(waited)
      BY <1>1, <2>1, <3>4, <3>7, Harmless
    <3>. QED BY <3>5, <3>6, <3>7
  <2>. QED BY <1>3, <1>6, <2>1 DEF Poll, Answering
<1>. QED BY <1>4, <1>5, <1>6

LEMMA RespondInv ==
  ASSUME Inv, NEW w \in Workers, Respond(w)
  PROVE  Inv'
<1>. USE DEF Inv
<1>. DEFINE j == worker[w]
            entry == [version |-> j.version, late |-> j.version # version, missed |-> FALSE]
<1>1. /\ j \in Jobs /\ j.pc = "respond" /\ j.sent = 5 /\ version' = version
      /\ worker' = [worker EXCEPT ![w] = Idle] /\ worker \in [Workers -> Jobs]
      /\ cache' = [cache EXCEPT ![j.rep] = entry] /\ cache \in [Reps -> Entries \cup {Miss}]
  BY Posts DEF TypeOK, Respond, Becomes, OnlyMergesPurge, At
<1>2. entry \in Entries
  BY <1>1 DEF Entries, Jobs
<1>. HIDE DEF j, entry
<1>3. TypeOK'
  BY <1>1, <1>2, IdleType DEF TypeOK
<1>4. OnlyMergesPurge'
  BY <1>1, IdleType, Posts DEF OnlyMergesPurge, At
<1>5. ASSUME NEW rep \in Reps \ {"identifier-map"}, Stale(rep)'
      PROVE  cache'[rep].late \/ cache'[rep].missed \/ \E v \in Workers : rep \in Unsent(worker'[v])
  <2>1. CASE rep = j.rep
    <3>1. cache'[rep] = entry
      BY <1>1, <2>1
    <3>2. entry.version < version
      BY <1>1, <1>5, <3>1 DEF Stale
    <3>3. j.version \in Nat /\ version \in Nat
      BY <1>1 DEF Jobs, TypeOK
    <3>4. entry.version = j.version /\ entry.late = (j.version # version)
      BY DEF entry
    <3>5. j.version # version
      BY <3>2, <3>3, <3>4
    <3>. QED BY <3>1, <3>4, <3>5
  <2>2. CASE rep # j.rep
    <3>1. cache'[rep] = cache[rep] /\ Stale(rep)
      BY <1>1, <1>5, <2>2 DEF Stale
    <3>2. ASSUME NEW v \in Workers, rep \in Unsent(worker[v])
          PROVE  rep \in Unsent(worker'[v])
      <4>1. v # w
        BY <3>2, <1>1, UnsentOf DEF j
      <4>. QED BY <3>2, <4>1, <1>1
    <3>. QED BY <3>1, <3>2 DEF StaleHasACause
  <2>. QED BY <2>1, <2>2
<1>. QED BY <1>3, <1>4, <1>5 DEF StaleHasACause

LEMMA MergeInv ==
  ASSUME Inv, NEW w \in Workers, Merge(w)
  PROVE  Inv'
<1>. USE DEF Inv
<1>. DEFINE job == [Idle EXCEPT !.pc = "purge", !.sent = 0]
<1>1. job \in Jobs /\ job.pc = "purge" /\ job.sent = 0
  <2>1. 0 \in 0..Len(PurgePosts) /\ "purge" \in Points
    BY Posts DEF Points
  <2>2. Idle \in Jobs
    BY IdleType
  <2>. QED BY <2>1, <2>2 DEF Jobs
<1>2. /\ worker \in [Workers -> Jobs] /\ worker' = [worker EXCEPT ![w] = job]
      /\ version \in Nat /\ version' = version + 1 /\ cache' = cache
  BY DEF TypeOK, Merge, Becomes
<1>. HIDE DEF job
<1>3. TypeOK'
  BY <1>1, <1>2 DEF TypeOK
<1>4. OnlyMergesPurge'
  BY <1>1, <1>2, Posts DEF OnlyMergesPurge, At
<1>5. \A rep \in Reps \ {"identifier-map"} : rep \in Unsent(worker'[w])
  BY <1>1, <1>2, UnsentOf
<1>. QED BY <1>3, <1>4, <1>5 DEF StaleHasACause

(* A response that is marked as missed has its cause.                      *)
LEMMA MissingOf ==
  ASSUME Inv, NEW keys
  PROVE  /\ Missing(keys) \in [Reps -> Entries \cup {Miss}]
         /\ \A rep \in Reps : rep \notin keys => Missing(keys)[rep] = cache[rep]
         /\ \A rep \in Reps : rep \in keys /\ cache[rep] # Miss => Missing(keys)[rep].missed
         /\ \A rep \in Reps : cache[rep] = Miss => Missing(keys)[rep] = Miss
         /\ \A rep \in Reps : cache[rep] # Miss
              => /\ Missing(keys)[rep].late = cache[rep].late
                 /\ Missing(keys)[rep].version = cache[rep].version
                 /\ cache[rep].missed => Missing(keys)[rep].missed
<1>1. ASSUME NEW rep \in Reps, cache[rep] # Miss
      PROVE  /\ cache[rep] \in Entries
             /\ [cache[rep] EXCEPT !.missed = TRUE] \in Entries
             /\ [cache[rep] EXCEPT !.missed = TRUE].missed
             /\ [cache[rep] EXCEPT !.missed = TRUE].late = cache[rep].late
             /\ [cache[rep] EXCEPT !.missed = TRUE].version = cache[rep].version
  <2>1. cache[rep] \in Entries
    BY <1>1 DEF Inv, TypeOK
  <2>. QED BY <2>1 DEF Entries
<1>2. ASSUME NEW rep \in Reps
      PROVE  cache[rep] \in Entries \cup {Miss}
  BY DEF Inv, TypeOK
<1>3. \A rep \in Reps : Missing(keys)[rep] = IF rep \in keys /\ cache[rep] # Miss
                         THEN [cache[rep] EXCEPT !.missed = TRUE] ELSE cache[rep]
  BY DEF Missing
<1>4. ASSUME NEW rep \in Reps PROVE Missing(keys)[rep] \in Entries \cup {Miss}
  BY <1>1, <1>2, <1>3
<1>5. Missing(keys) \in [Reps -> Entries \cup {Miss}]
  BY <1>4 DEF Missing
<1>. QED BY <1>1, <1>3, <1>5

LEMMA PurgeInv ==
  ASSUME Inv, NEW w \in Workers, Purge(w)
  PROVE  Inv'
<1>. USE DEF Inv
<1>. DEFINE next == worker[w].sent + 1
            keys == PurgePosts[next]
<1>1. /\ worker \in [Workers -> Jobs] /\ worker[w] \in Jobs /\ version' = version
      /\ cache \in [Reps -> Entries \cup {Miss}] /\ worker[w].pc = "purge" /\ next \in 1..5
  BY Posts DEF TypeOK, Purge, OnlyMergesPurge, At, Jobs
<1>2. PICK job \in Jobs :
        /\ worker' = [worker EXCEPT ![w] = job]
        /\ IF next = 5 THEN job.pc = "idle" /\ job.sent = 5 ELSE job.pc = "purge" /\ job.sent = next
  <2>1. CASE next = 5
    BY <1>1, <2>1, IdleType, Posts DEF Purge, Becomes
  <2>2. CASE next # 5
    <3>1. PICK t \in CallTimes : Spends(w, t, [worker[w] EXCEPT !.sent = next])
      BY <2>2, Posts DEF Purge
    <3>2. /\ [worker[w] EXCEPT !.sent = next] \in Jobs /\ t \in Nat
          /\ [worker[w] EXCEPT !.sent = next].pc = "purge"
          /\ [worker[w] EXCEPT !.sent = next].sent = next
      BY <1>1, Posts, DeliveryAssumption DEF Jobs
    <3>. DEFINE sending == [worker[w] EXCEPT !.sent = next]
    <3>. HIDE DEF next, sending
    <3>3. Later(sending, t) \in Jobs /\ Later(sending, t).pc = "purge"
          /\ Later(sending, t).sent = next
      BY <3>2, LaterType DEF sending
    <3>4. worker' = [worker EXCEPT ![w] = Later(sending, t)]
      BY <3>1 DEF Spends, Becomes, sending
    <3>. QED BY <2>2, <3>3, <3>4
  <2>. QED BY <2>1, <2>2
<1>3. cache' \in {Without(keys), Missing(keys)}
  BY DEF Purge
<1>. HIDE DEF next, keys
<1>4. TypeOK'
  <2>1. Without(keys) \in [Reps -> Entries \cup {Miss}]
    BY <1>1 DEF Without
  <2>. QED BY <1>1, <1>2, <1>3, <2>1, MissingOf DEF TypeOK
<1>5. OnlyMergesPurge'
  BY <1>1, <1>2, Posts DEF OnlyMergesPurge, At
<1>6. ASSUME NEW rep \in Reps \ {"identifier-map"}, Stale(rep)'
      PROVE  cache'[rep].late \/ cache'[rep].missed \/ \E v \in Workers : rep \in Unsent(worker'[v])
  <2>1. CASE rep \in keys
    <3>1. cache' = Missing(keys) /\ cache[rep] # Miss
      BY <1>3, <1>6, <2>1, MissingOf DEF Stale, Without
    <3>. QED BY <2>1, <3>1, MissingOf
  <2>2. CASE rep \notin keys
    <3>1. cache'[rep] = cache[rep]
      BY <1>3, <2>2, MissingOf DEF Without
    <3>2. Stale(rep)
      BY <1>1, <1>6, <3>1 DEF Stale
    <3>3. ASSUME NEW v \in Workers, rep \in Unsent(worker[v])
          PROVE  rep \in Unsent(worker'[v])
      <4>1. CASE v # w
        BY <3>3, <4>1, <1>2
      <4>2. CASE v = w
        <5>1. PICK k \in (worker[w].sent + 1)..5 : rep \in PurgePosts[k]
          BY <1>1, <3>3, <4>2, UnsentOf
        <5>2. k # next
          BY <2>2, <5>1 DEF keys
        <5>3. next # 5 /\ k \in (next + 1)..5
          BY <1>1, <5>1, <5>2, SMTT(20) DEF next, Jobs
        <5>4. worker'[v] = job /\ job.sent = next
          BY <1>1, <1>2, <4>2, <5>3
        <5>. QED BY <5>1, <5>3, <5>4, UnsentOf
      <4>. QED BY <4>1, <4>2
    <3>. QED BY <3>1, <3>2, <3>3 DEF StaleHasACause
  <2>. QED BY <2>1, <2>2
<1>. QED BY <1>4, <1>5, <1>6 DEF StaleHasACause

LEMMA DieInv ==
  ASSUME Inv, NEW w \in Workers, Die(w)
  PROVE  Inv'
<1>. USE DEF Inv
<1>. DEFINE keys == Unsent(worker[w])
<1>1. /\ worker' = [worker EXCEPT ![w] = Idle] /\ worker \in [Workers -> Jobs]
      /\ version' = version /\ cache' = Missing(keys)
  BY DEF TypeOK, Die, Becomes
<1>. HIDE DEF keys
<1>2. TypeOK'
  BY <1>1, IdleType, MissingOf DEF TypeOK
<1>3. OnlyMergesPurge'
  BY <1>1, IdleType, Posts DEF OnlyMergesPurge, At
<1>4. ASSUME NEW rep \in Reps \ {"identifier-map"}, Stale(rep)'
      PROVE  cache'[rep].late \/ cache'[rep].missed \/ \E v \in Workers : rep \in Unsent(worker'[v])
  <2>1. cache[rep] # Miss
    BY <1>1, <1>4, MissingOf DEF Stale
  <2>2. CASE rep \in keys
    BY <1>1, <2>1, <2>2, MissingOf
  <2>3. CASE rep \notin keys
    <3>1. cache'[rep] = cache[rep]
      BY <1>1, <2>3, MissingOf
    <3>2. Stale(rep)
      BY <1>1, <1>4, <3>1 DEF Stale
    <3>3. ASSUME NEW v \in Workers, rep \in Unsent(worker[v])
          PROVE  rep \in Unsent(worker'[v])
      <4>1. v # w
        BY <2>3, <3>3 DEF keys
      <4>. QED BY <1>1, <3>3, <4>1
    <3>. QED BY <3>1, <3>2, <3>3 DEF StaleHasACause
  <2>. QED BY <2>2, <2>3
<1>. QED BY <1>2, <1>3, <1>4 DEF StaleHasACause

LEMMA ExpireInv ==
  ASSUME Inv, NEW rep \in Reps, Expire(rep)
  PROVE  Inv'
<1>1. /\ cache' = [cache EXCEPT ![rep] = Miss] /\ cache \in [Reps -> Entries \cup {Miss}]
      /\ version' = version /\ worker' = worker
  BY DEF Inv, TypeOK, Expire
<1>2. TypeOK' /\ OnlyMergesPurge'
  BY <1>1 DEF Inv, TypeOK, OnlyMergesPurge, At
<1>3. ASSUME NEW r \in Reps, Stale(r)'
      PROVE  cache'[r] = cache[r] /\ Stale(r)
  BY <1>1, <1>3 DEF Stale
<1>4. StaleHasACause'
  BY <1>1, <1>3 DEF Inv, StaleHasACause
<1>. QED BY <1>2, <1>4 DEF Inv

LEMMA Invariance == Inv /\ [Next]_vars => Inv'
<1>. SUFFICES ASSUME Inv, [Next]_vars PROVE Inv'
  OBVIOUS
<1>1. CASE UNCHANGED vars
  <2>1. version' = version /\ cache' = cache /\ worker' = worker
    BY <1>1 DEF vars
  <2>. QED BY <2>1 DEF Inv, TypeOK, OnlyMergesPurge, At, StaleHasACause, Stale
<1>2. ASSUME NEW w \in Workers, NEW rep \in Served, Get(w, rep) PROVE Inv'
  BY <1>2, GetInv
<1>3. ASSUME NEW w \in Workers, Merge(w) PROVE Inv'
  BY <1>3, MergeInv
<1>4. ASSUME NEW w \in Workers, Step(w) PROVE Inv'
  BY <1>4, TranslationInv, RespondInv, PurgeInv DEF Step
<1>5. ASSUME NEW w \in Workers, Die(w) PROVE Inv'
  BY <1>5, DieInv
<1>6. ASSUME NEW rep \in Reps, Expire(rep) PROVE Inv'
  BY <1>6, ExpireInv
<1>. QED BY <1>1, <1>2, <1>3, <1>4, <1>5, <1>6 DEF Next

-----------------------------------------------------------------------------
(* Entries, local variables and seconds have their types, in every         *)
(* behaviour of the workers and of the proxy (resources.py, cache.py).     *)
THEOREM TypeCorrectness == Spec => []TypeOK
<1>1. Inv => TypeOK
  BY DEF Inv
<1>. QED BY <1>1, Initially, Invariance, PTL DEF Spec

(* A stale response has one of the causes that StaleHasACause lists: the   *)
(* five POSTs cover everything that a merge changes but the identifier map *)
(* (PatchMerge.post, resources.py:613-618).                                *)
THEOREM StalenessExplained == Spec => []StaleHasACause
<1>1. Inv => StaleHasACause
  BY DEF Inv
<1>. QED BY <1>1, Initially, Invariance, PTL DEF Spec

-----------------------------------------------------------------------------
(* The seconds that the polls before poll n have waited, for n = 0 to 9.   *)
WaitedBefore == <<0, 2, 5, 5, 6, 12, 19, 23, 28, 38>>

(* A worker that polls, and is not overdue, has spent at least that.       *)
PollsTakeTime ==
  \A w \in Workers :
    /\ worker[w].pc \in {"wake", "put"} => worker[w].n = 0
    /\ At(w, "poll") => /\ worker[w].n \in 0..9
                        /\ InTime(w) => worker[w].elapsed >= WaitedBefore[worker[w].n + 1]

(* Each wait is what the next poll has waited longer than this one.        *)
LEMMA WaitsAddUp ==
  ASSUME MaximumBackoff >= 11, NEW n \in 0..8
  PROVE  /\ WaitedBefore[n + 1] \in Nat
         /\ WaitedBefore[n + 2] = WaitedBefore[n + 1] + Wait(n)
<1>1. /\ WaitedBefore[1] = 0 /\ WaitedBefore[2] = 2 /\ WaitedBefore[3] = 5
      /\ WaitedBefore[4] = 5 /\ WaitedBefore[5] = 6 /\ WaitedBefore[6] = 12
      /\ WaitedBefore[7] = 19 /\ WaitedBefore[8] = 23 /\ WaitedBefore[9] = 28
      /\ WaitedBefore[10] = 38
  BY DEF WaitedBefore
<1>2. XorTwo(n) \in 0..10 /\ Wait(n) = XorTwo(n)
  BY DeliveryAssumption DEF XorTwo, Wait
<1>3. n = 0 => XorTwo(n) = 2
  BY DEF XorTwo
<1>4. n = 1 => XorTwo(n) = 3
  BY DEF XorTwo
<1>5. n = 2 => XorTwo(n) = 0
  BY DEF XorTwo
<1>6. n = 3 => XorTwo(n) = 1
  BY DEF XorTwo
<1>7. n = 4 => XorTwo(n) = 6
  BY DEF XorTwo
<1>8. n = 5 => XorTwo(n) = 7
  BY DEF XorTwo
<1>9. n = 6 => XorTwo(n) = 4
  BY DEF XorTwo
<1>10. n = 7 => XorTwo(n) = 5
  BY DEF XorTwo
<1>11. n = 8 => XorTwo(n) = 10
  BY DEF XorTwo
<1>12. n \in {0, 1, 2, 3, 4, 5, 6, 7, 8}
  OBVIOUS
<1>. HIDE DEF WaitedBefore
<1>. QED BY <1>1, <1>2, <1>3, <1>4, <1>5, <1>6, <1>7, <1>8, <1>9, <1>10, <1>11, <1>12

(* What a worker's next job must be for PollsTakeTime to be preserved.     *)
TakesTime(job) ==
  /\ job.pc \in {"wake", "put"} => job.n = 0
  /\ job.pc = "poll" => /\ job.n \in 0..9
                        /\ job.elapsed <= WorkerTimeout
                             => job.elapsed >= WaitedBefore[job.n + 1]

LEMMA OneWorkerMoves ==
  ASSUME Inv, PollsTakeTime, NEW w \in Workers, NEW job, TakesTime(job), Becomes(w, job)
  PROVE  PollsTakeTime'
<1>1. worker \in [Workers -> Jobs] /\ worker' = [worker EXCEPT ![w] = job]
  BY DEF Inv, TypeOK, Becomes
<1>. QED BY <1>1 DEF PollsTakeTime, TakesTime, At, InTime

LEMMA PollTakesTime ==
  ASSUME MaximumBackoff >= 11, MaximumPolls = 10,
         Inv, PollsTakeTime, NEW w \in Workers, Poll(w)
  PROVE  PollsTakeTime'
<1>1. /\ worker[w] \in Jobs /\ worker[w].n \in 0..9 /\ worker[w].pc = "poll"
      /\ worker[w].elapsed \in Nat /\ CallTimes \subseteq Nat
      /\ worker[w].elapsed <= WorkerTimeout
           => worker[w].elapsed >= WaitedBefore[worker[w].n + 1]
  BY DeliveryAssumption DEF Inv, TypeOK, PollsTakeTime, Poll, At, InTime, Jobs
<1>2. ASSUME NEW t \in CallTimes, Spends(w, t, Answering(worker[w]))
      PROVE  PollsTakeTime'
  <2>1. Answering(worker[w]) \in Jobs /\ Answering(worker[w]).pc = "respond" /\ t \in Nat
    BY <1>1 DEF Answering, Jobs, Points
  <2>2. Later(Answering(worker[w]), t).pc = "respond"
    BY <2>1, LaterType
  <2>. QED BY <1>2, <2>2, OneWorkerMoves DEF Spends, TakesTime
<1>3. ASSUME NEW t \in CallTimes, Becomes(w, Again(worker[w], t))
      PROVE  PollsTakeTime'
  <2>. DEFINE n == worker[w].n
              waits == t + Wait(n)
              moved == [worker[w] EXCEPT !.n = @ + 1]
              waited == Later(moved, waits)
  <2>1. moved \in Jobs /\ moved.n = n + 1 /\ moved.elapsed = worker[w].elapsed
        /\ moved.pc = "poll"
    BY <1>1, SMTT(20) DEF Jobs
  <2>2. t \in Nat /\ Wait(n) \in Nat /\ waits \in Nat
    BY <1>1, WaitType
  <2>. HIDE DEF moved
  <2>3. waited \in Jobs /\ waited.n = n + 1 /\ waited.pc = "poll"
        /\ waited.elapsed = IF worker[w].elapsed + waits > WorkerTimeout THEN WorkerTimeout + 1
                            ELSE worker[w].elapsed + waits
    <3>. HIDE DEF waits
    <3>1. Later(moved, waits) \in Jobs /\ Later(moved, waits).n = moved.n
          /\ Later(moved, waits).pc = moved.pc
          /\ Later(moved, waits).elapsed
               = IF moved.elapsed + waits > WorkerTimeout THEN WorkerTimeout + 1
                 ELSE moved.elapsed + waits
      BY <2>1, <2>2, LaterType
    <3>. QED BY <2>1, <3>1
  <2>. HIDE DEF waited
  <2>4. Again(worker[w], t) = IF n + 1 < 10 THEN waited ELSE Answering(waited)
    BY <2>3 DEF Again, waited, moved
  <2>5. CASE n + 1 < 10
    <3>1. n \in 0..8
      BY <1>1, <2>5
    <3>2. WaitedBefore[n + 2] = WaitedBefore[n + 1] + Wait(n) /\ WaitedBefore[n + 1] \in Nat
      BY <3>1, WaitsAddUp
    <3>. HIDE DEF n
    <3>3. n + 1 \in 0..9 /\ n + 1 + 1 = n + 2
      BY <3>1
    <3>4. waited.elapsed <= WorkerTimeout => waited.elapsed >= WaitedBefore[n + 2]
      BY <1>1, <2>2, <2>3, <3>2, DeliveryAssumption DEF n
    <3>5. TakesTime(waited)
      BY <2>3, <3>3, <3>4 DEF TakesTime
    <3>. QED BY <1>3, <2>4, <2>5, <3>5, OneWorkerMoves
  <2>6. CASE ~(n + 1 < 10)
    <3>1. Answering(waited).pc = "respond"
      BY <2>3 DEF Answering, Jobs
    <3>. QED BY <1>3, <2>4, <2>6, <3>1, OneWorkerMoves DEF TakesTime
  <2>. QED BY <2>5, <2>6
<1>. QED BY <1>2, <1>3 DEF Poll

LEMMA OthersTakeTime ==
  ASSUME Inv, PollsTakeTime, NEW w \in Workers,
         \/ \E rep \in Served : Get(w, rep)
         \/ Wake(w) \/ PutData(w) \/ Respond(w) \/ Merge(w) \/ Purge(w) \/ Die(w)
  PROVE  PollsTakeTime'
<1>1. worker[w] \in Jobs /\ CallTimes \subseteq Nat
  BY DeliveryAssumption DEF Inv, TypeOK
<1>2. Idle.n = 0 /\ Idle.pc = "idle" /\ Idle \in Jobs /\ TakesTime(Idle)
  BY IdleType DEF Idle, TakesTime
<1>3. ASSUME NEW rep \in Served, Get(w, rep)
      PROVE  PollsTakeTime'
  <2>1. PICK point \in {"respond", "wake"} :
          Becomes(w, [[Idle EXCEPT !.rep = rep, !.version = version] EXCEPT !.pc = point])
    BY <1>3 DEF Get
  <2>. DEFINE job == [[Idle EXCEPT !.rep = rep, !.version = version] EXCEPT !.pc = point]
  <2>2. job.n = 0 /\ job.pc = point
    BY DEF Idle
  <2>. HIDE DEF job
  <2>3. TakesTime(job)
    BY <2>2 DEF TakesTime
  <2>. QED BY <2>1, <2>3, OneWorkerMoves DEF job
<1>4. ASSUME NEW t \in CallTimes, NEW point \in {"put", "poll", "respond"},
             worker[w].n = 0, Spends(w, t, [worker[w] EXCEPT !.pc = point])
      PROVE  PollsTakeTime'
  <2>. DEFINE job == [worker[w] EXCEPT !.pc = point]
  <2>1. job \in Jobs /\ job.n = 0 /\ job.pc = point /\ t \in Nat
    BY <1>1, <1>4 DEF Jobs, Points
  <2>. HIDE DEF job
  <2>2. Later(job, t) \in Jobs /\ Later(job, t).n = 0 /\ Later(job, t).pc = point
    BY <2>1, LaterType
  <2>3. Later(job, t).elapsed \in Nat /\ WaitedBefore[0 + 1] = 0
    BY <2>2 DEF Jobs, WaitedBefore
  <2>4. TakesTime(Later(job, t))
    BY <2>2, <2>3 DEF TakesTime
  <2>. QED BY <1>4, <2>4, OneWorkerMoves DEF Spends, job
<1>5. CASE Wake(w)
  <2>1. worker[w].n = 0
    BY <1>5 DEF Wake, At, PollsTakeTime
  <2>. QED BY <1>4, <1>5, <2>1 DEF Wake
<1>6. CASE PutData(w)
  <2>1. worker[w].n = 0
    BY <1>6 DEF PutData, At, PollsTakeTime
  <2>. QED BY <1>4, <1>6, <2>1 DEF PutData, Answering
<1>7. CASE Respond(w)
  BY <1>2, <1>7, OneWorkerMoves DEF Respond
<1>8. CASE Merge(w)
  <2>1. [Idle EXCEPT !.pc = "purge", !.sent = 0].pc = "purge"
    BY <1>2 DEF Jobs
  <2>. QED BY <1>8, <2>1, OneWorkerMoves DEF Merge, TakesTime
<1>9. CASE Purge(w)
  <2>. DEFINE next == worker[w].sent + 1
              sending == [worker[w] EXCEPT !.sent = next]
  <2>1. CASE next = Len(PurgePosts)
    BY <1>2, <1>9, <2>1, OneWorkerMoves DEF Purge
  <2>2. CASE next # Len(PurgePosts)
    <3>1. PICK t \in CallTimes : Spends(w, t, sending)
      BY <1>9, <2>2 DEF Purge
    <3>2. sending \in Jobs /\ sending.pc = "purge" /\ t \in Nat
      <4>1. next \in 0..Len(PurgePosts) /\ worker[w].pc = "purge"
        BY <1>1, <1>9, Posts DEF Inv, OnlyMergesPurge, At, Purge, Jobs
      <4>. QED BY <1>1, <4>1 DEF Jobs
    <3>. HIDE DEF sending
    <3>3. Later(sending, t).pc = "purge"
      BY <3>2, LaterType
    <3>. QED BY <3>1, <3>3, OneWorkerMoves DEF Spends, TakesTime
  <2>. QED BY <2>1, <2>2
<1>10. CASE Die(w)
  BY <1>2, <1>10, OneWorkerMoves DEF Die
<1>. QED BY <1>3, <1>5, <1>6, <1>7, <1>8, <1>9, <1>10

(* With ten polls and the waits of exclusive or, a worker that has at most *)
(* 37 seconds (Dockerfile:25 leaves gunicorn's 30) is overdue before its   *)
(* last poll, however quick the calls are (wait_for_translation,           *)
(* translate.py:33-44).                                                    *)
THEOREM LastPollTooLate ==
  ASSUME MaximumPolls = 10, MaximumBackoff >= 11, WorkerTimeout < 38
  PROVE  Spec => []LastPollIsOverdue
<1>1. Init => PollsTakeTime
  <2>1. Idle.pc = "idle"
    BY IdleType
  <2>. QED BY <2>1 DEF Init, PollsTakeTime, At
<1>2. Inv /\ PollsTakeTime /\ [Next]_vars => PollsTakeTime'
  <2>. SUFFICES ASSUME Inv, PollsTakeTime, [Next]_vars PROVE PollsTakeTime'
    OBVIOUS
  <2>1. CASE worker' = worker
    BY <2>1 DEF PollsTakeTime, At, InTime
  <2>2. CASE \E w \in Workers : Poll(w)
    BY <2>2, PollTakesTime
  <2>3. CASE \E w \in Workers :
               \/ \E rep \in Served : Get(w, rep)
               \/ Wake(w) \/ PutData(w) \/ Respond(w) \/ Merge(w) \/ Purge(w) \/ Die(w)
    BY <2>3, OthersTakeTime
  <2>. QED BY <2>1, <2>2, <2>3 DEF Next, Step, Expire, vars
<1>3. Inv /\ PollsTakeTime => LastPollIsOverdue
  <2>. SUFFICES ASSUME Inv, PollsTakeTime, NEW w \in Workers, At(w, "poll"), InTime(w),
                       ~(worker[w].n < MaximumPolls - 1)
                PROVE  FALSE
    BY DEF LastPollIsOverdue
  <2>1. worker[w].n = 9 /\ worker[w].elapsed >= WaitedBefore[worker[w].n + 1]
    BY DEF PollsTakeTime
  <2>2. WaitedBefore[9 + 1] = 38
    BY DEF WaitedBefore
  <2>3. worker[w].elapsed \in Nat /\ worker[w].elapsed <= WorkerTimeout
    BY DEF Inv, TypeOK, Jobs, InTime
  <2>. QED BY <2>1, <2>2, <2>3, DeliveryAssumption
<1>. QED BY <1>1, <1>2, <1>3, Initially, Invariance, PTL DEF Spec
=============================================================================
