------------------------------ MODULE Delivery ------------------------------
(***************************************************************************)
(* What readers are sent: the GETs of the dataset, the history and the     *)
(* identifier map (resources.py), their translation to Turtle or CSV by an *)
(* external service (translate.py), what the proxy keeps of them and what  *)
(* a merge makes it drop (cache.py).                                       *)
(*                                                                         *)
(* A worker serves one request at a time.  A GET reads the tables, may     *)
(* spend long on its translation, and answers; the proxy keeps the answer. *)
(* A merge commits (Patching has how) and then tells the proxy with five   *)
(* POSTs, one after the other.  A worker may die at any point; gunicorn    *)
(* kills one that spends more than WorkerTimeout seconds on a request.     *)
(*                                                                         *)
(* A response is the version of the dataset it was made from; the 500 of a *)
(* failed translation is kept like one that succeeded.  Conditional        *)
(* requests, which answer 304 with nothing to keep, are left out.          *)
(***************************************************************************)
EXTENDS Integers, FiniteSets, Sequences

CONSTANTS
  Workers,
  Served,          \* the representations that clients ask for
  Miss,            \* the proxy has no response
  NoRep,
  MaximumPolls,
  MaximumBackoff,
  WorkerTimeout,   \* gunicorn's --timeout, in seconds
  CallTimes,       \* seconds that a call to another service may take
  MaxTranslations, \* at one time
  MaxVersions

VARIABLES
  version,         \* number of the newest version of the dataset
  cache,           \* what the proxy has for each representation
  worker

vars == <<version, cache, worker>>

(* The keys of the five POSTs.  Suffixed and short paths go with their     *)
(* path, for every rule whose endpoint starts with the name is purged.     *)
PurgePostsWithoutParams ==
  << {"history"}, {"dataset", "dataset.ttl", "dataset.csv"}, {"graphs"} >>
PurgePosts ==
  << {"history"}, {"history?full"},
     {"dataset", "dataset.ttl", "dataset.csv"},
     {"dataset?inline-context"},
     {"graphs"} >>

Translated == {"dataset.ttl", "dataset.csv"}
DatasetReps == Translated \cup {"dataset", "dataset?inline-context"}
HistoryReps == {"history", "history?full"}
Reps == DatasetReps \cup HistoryReps \cup {"graphs", "identifier-map"}

ASSUME DeliveryAssumption ==
  /\ Served \subseteq Reps /\ NoRep \notin Reps
  /\ MaximumPolls \in Nat \ {0} /\ MaximumBackoff \in Nat /\ WorkerTimeout \in Nat
  /\ CallTimes \subseteq Nat /\ MaxTranslations \in Nat /\ MaxVersions \in Nat

(* Besides its version, an entry has two marks that only the properties    *)
(* read: it came late, after a merge that it does not show; a purge meant  *)
(* for it was lost.                                                        *)
Entries == [version : Nat, late : BOOLEAN, missed : BOOLEAN]
Without(keys) == [rep \in Reps |-> IF rep \in keys THEN Miss ELSE cache[rep]]
Missing(keys) ==
  [rep \in Reps |-> IF rep \in keys /\ cache[rep] # Miss
                    THEN [cache[rep] EXCEPT !.missed = TRUE] ELSE cache[rep]]
Stale(rep) == cache[rep] # Miss /\ cache[rep].version < version

-----------------------------------------------------------------------------
(* A job counts the POSTs it has sent; only a merge has any to send.       *)
Points == {"idle", "wake", "put", "poll", "respond", "purge"}
Idle == [pc |-> "idle", rep |-> NoRep, version |-> 0, n |-> 0, elapsed |-> 0, sent |-> Len(PurgePosts)]
Jobs == [pc : Points, rep : Reps \cup {NoRep}, version : Nat, n : Nat, elapsed : Nat, sent : 0..Len(PurgePosts)]

At(w, point) == worker[w].pc = point
Becomes(w, job) == worker' = [worker EXCEPT ![w] = job]
Translating == {w \in Workers : worker[w].pc \in {"wake", "put", "poll"}}

Unsent(job) == UNION {PurgePosts[k] : k \in (job.sent + 1)..Len(PurgePosts)}

(* gunicorn has no reason to kill the worker yet.                          *)
InTime(w) == worker[w].elapsed <= WorkerTimeout

-----------------------------------------------------------------------------
(* GET: what the proxy has is not asked for again.                         *)
Get(w, rep) ==
  /\ At(w, "idle") /\ cache[rep] = Miss
  /\ LET job == [Idle EXCEPT !.rep = rep, !.version = version]
     IN \/ rep \notin Translated /\ Becomes(w, [job EXCEPT !.pc = "respond"])
        \/ /\ rep \in Translated /\ Cardinality(Translating) < MaxTranslations
           /\ Becomes(w, [job EXCEPT !.pc = "wake"])
  /\ UNCHANGED <<version, cache>>

(* How long the request has taken; it does not matter by how much it is    *)
(* overdue.                                                                *)
Later(job, t) ==
  [job EXCEPT !.elapsed = IF @ + t > WorkerTimeout THEN WorkerTimeout + 1 ELSE @ + t]
Spends(w, t, job) == Becomes(w, Later(job, t))
Answering(job) == [job EXCEPT !.pc = "respond"]

(* jsonld_to(): wake the service up, whatever comes of it, and hand it the *)
(* data.                                                                   *)
Wake(w) ==
  /\ At(w, "wake")
  /\ \E t \in CallTimes : Spends(w, t, [worker[w] EXCEPT !.pc = "put"])
  /\ UNCHANGED <<version, cache>>

PutData(w) ==
  /\ At(w, "put")
  /\ \E t \in CallTimes :
       \/ Spends(w, t, [worker[w] EXCEPT !.pc = "poll"])
       \/ Spends(w, t, Answering(worker[w]))
  /\ UNCHANGED <<version, cache>>

(* 2 ^ n of Python: exclusive or, which turns the second bit over.         *)
XorTwoFlooring(n) == n - 2
XorTwo(n) == IF (n \div 2) % 2 = 1 THEN n - 2 ELSE n + 2

(* Seconds until the next poll; the random part of one is left out.        *)
WaitNone(n) == 0
Wait(n) == IF XorTwo(n) < MaximumBackoff THEN XorTwo(n) ELSE MaximumBackoff

(* What a poll without a result, after t seconds, leads to.                *)
AgainFromTheStart(job, t) ==
  Later([job EXCEPT !.pc = "wake", !.n = 0], t + Wait(job.n))
Again(job, t) ==
  LET waited == Later([job EXCEPT !.n = @ + 1], t + Wait(job.n))
  IN IF waited.n < MaximumPolls THEN waited ELSE Answering(waited)

(* wait_for_translation(): ACCEPTED or no answer; any other answer, with   *)
(* the translation or without.                                             *)
Poll(w) ==
  /\ At(w, "poll")
  /\ \E t \in CallTimes :
       \/ Becomes(w, Again(worker[w], t))
       \/ Spends(w, t, Answering(worker[w]))
  /\ UNCHANGED <<version, cache>>

(* The response, with its lifetime, reaches the proxy; a failure has one   *)
(* too.                                                                    *)
Respond(w) ==
  /\ At(w, "respond")
  /\ LET j == worker[w]
     IN cache' = [cache EXCEPT ![j.rep] = [version |-> j.version,
                                           late |-> j.version # version,
                                           missed |-> FALSE]]
  /\ Becomes(w, Idle)
  /\ UNCHANGED version

-----------------------------------------------------------------------------
(* POST /patches/<id>/merge : the commit, and then the purges.             *)
Merge(w) ==
  /\ At(w, "idle") /\ version < MaxVersions
  /\ version' = version + 1
  /\ Becomes(w, [Idle EXCEPT !.pc = "purge", !.sent = 0])
  /\ UNCHANGED cache

(* One POST of the purger.  One that fails is logged and forgotten.        *)
Purge(w) ==
  /\ At(w, "purge")
  /\ LET next == worker[w].sent + 1
     IN /\ cache' \in {Without(PurgePosts[next]), Missing(PurgePosts[next])}
        /\ IF next = Len(PurgePosts) THEN Becomes(w, Idle)
           ELSE \E t \in CallTimes : Spends(w, t, [worker[w] EXCEPT !.sent = next])
  /\ UNCHANGED version

(* The worker dies, for being overdue or of anything else.                 *)
Die(w) ==
  /\ ~At(w, "idle")
  /\ cache' = Missing(Unsent(worker[w]))
  /\ Becomes(w, Idle)
  /\ UNCHANGED version

(* The lifetime of a response is over, or the proxy needs the room.        *)
Expire(rep) ==
  /\ cache[rep] # Miss
  /\ cache' = [cache EXCEPT ![rep] = Miss]
  /\ UNCHANGED <<version, worker>>

Init ==
  /\ version = 1
  /\ cache = [rep \in Reps |-> Miss]
  /\ worker = [w \in Workers |-> Idle]

Step(w) == Wake(w) \/ PutData(w) \/ Poll(w) \/ Respond(w) \/ Purge(w)

Next ==
  \/ \E w \in Workers :
       \/ \E rep \in Served : Get(w, rep)
       \/ Merge(w)
       \/ Step(w)
       \/ Die(w)
  \/ \E rep \in Reps : Expire(rep)

Spec == Init /\ [][Next]_vars

(* A worker that serves a request goes on with it: each call it makes to   *)
(* another service returns or raises (httpx has timeouts of its own).      *)
(* Nothing is assumed of clients, of what the services answer, of the      *)
(* proxy, or of gunicorn.                                                  *)
FairSpec == Spec /\ \A w \in Workers : WF_vars(Step(w))

-----------------------------------------------------------------------------
(* Properties.                                                             *)

(* Entries, local variables and seconds have their types.                  *)
TypeOK ==
  /\ version \in Nat
  /\ cache \in [Reps -> Entries \cup {Miss}]
  /\ worker \in [Workers -> Jobs]

(* A response, other than the identifier map, that a merge has made stale  *)
(* stays with the proxy for no other reason than these: it was read before *)
(* the merge and arrived after it, a purge for it was lost or its worker   *)
(* died before sending it, or a purge for it is still to come              *)
(* (PatchMerge.post, resources.py:613-618).                                *)
StaleHasACause ==
  \A rep \in Reps \ {"identifier-map"} :
    Stale(rep) => \/ cache[rep].late
                  \/ cache[rep].missed
                  \/ \E w \in Workers : rep \in Unsent(worker[w])

(* A worker is overdue before it makes its last poll, even if every call   *)
(* returns at once: the waits, of 2 3 0 1 6 7 4 5 10 11 seconds, add up to *)
(* more than gunicorn allows.  So a client is not told that a translation  *)
(* timed out (translate.py:43): its worker is killed first.                *)
LastPollIsOverdue ==
  \A w \in Workers : At(w, "poll") /\ InTime(w) => worker[w].n < MaximumPolls - 1

(* No worker is lost to a request for good, whatever the translation       *)
(* service and the proxy answer or do not: the two workers are all that    *)
(* the server has.                                                         *)
WorkersComeFree == \A w \in Workers : []<>(At(w, "idle"))
=============================================================================
