----------------------------- MODULE TaskState -----------------------------
(***************************************************************************)
(* The task collection of one user under rsstag/task_state.py: workers that *)
(* sample and claim documents under a lease, renew, release, complete or    *)
(* fail them, and crash; clients (the web handlers, read_state.py, and the  *)
(* workers that chain successors) that enqueue, pause, resume and remove    *)
(* tasks; a clock.  Every query of the module names one user, so the        *)
(* documents of different users do not interact except through the workers' *)
(* sampling, which may pick any subset here.                                *)
(*                                                                          *)
(* A step is one MongoDB operation on one document: update_many applies     *)
(* document by document, so pause and resume are one step per document.     *)
(***************************************************************************)
EXTENDS TaskDoc, FiniteSets

CONSTANTS
  Ids,          \* ObjectIds; none is used for two documents
  Keys,         \* the identity (type, or type and provider) of a task
  KeyOf,        \* KeyOf[i]: the key of the document that gets _id i
  MarkKeys,     \* TASK_MARK, TASK_MARK_TELEGRAM: many documents per key
  MergeKeys,    \* TASK_TOPIC_MERGE, whose handler refreshes its claim
  Workers, Clients,
  SampleSize,   \* sample_size of claim
  Lease,        \* lease_seconds of claim
  TypeLease,    \* TASK_LEASE_SECONDS of the type, used by renew
  StaleAge,     \* STALE_TASK_MAX_AGE_SECONDS
  MaxNow        \* bound on the clock

NoTask == "no task"
NoKey == "no key"

ASSUME IdsAssumption ==
  /\ KeyOf \in [Ids -> Keys]
  /\ MarkKeys \subseteq Keys /\ MergeKeys \subseteq Keys
ASSUME NamesAssumption == NoTask \notin Ids /\ NoKey \notin Keys
ASSUME TimesAssumption ==
  Lease \in Nat /\ TypeLease \in Nat /\ StaleAge \in Nat /\ MaxNow \in Nat

VARIABLES
  now,          \* time.time()
  tasks,        \* db.tasks: _id -> document
  used,         \* the _ids that have been inserted so far
  pc,           \* where each worker is
  asOf,         \* the `now` that a claim in progress read at its start
  sampled,      \* the candidates the claim in progress has yet to try
  mine,         \* the document a worker claimed and is working on
  seen,         \* `attempts` in the worker's copy of that document
  until,        \* history: the end of the lease the worker obtained
  claims,       \* history: the claims on a document that nobody has revoked
  enq           \* the key a client is about to write in enqueue

workerVars == <<pc, asOf, sampled, mine, seen, until>>
vars == <<now, tasks, used, pc, asOf, sampled, mine, seen, until, claims, enq>>

TypeOK ==
  /\ now \in Nat
  /\ tasks \in [Ids -> TaskDocs]
  /\ used \in SUBSET Ids
  /\ pc \in [Workers -> {"idle", "claiming", "handling"}]
  /\ asOf \in [Workers -> Nat]
  /\ sampled \in [Workers -> SUBSET Ids]
  /\ mine \in [Workers -> Ids \cup {NoTask}]
  /\ seen \in [Workers -> Nat]
  /\ until \in [Workers -> Nat]
  /\ claims \in [Ids -> SUBSET Workers]
  /\ enq \in [Clients -> Keys \cup {NoKey}]

\* A database that an older version of the program has used may hold documents
\* without a status: idle, frozen, or with the timestamp of a lock.
LegacyDocs ==
  {[Absent EXCEPT !.status = "unset", !.processing = p] : p \in {Idle, Frozen, 1}}

Init ==
  /\ now = 1
  /\ tasks \in [Ids -> LegacyDocs \cup {Absent}]
  /\ used = {i \in Ids : tasks[i] # Absent}
  /\ pc = [w \in Workers |-> "idle"]
  /\ asOf = [w \in Workers |-> 0]
  /\ sampled = [w \in Workers |-> {}]
  /\ mine = [w \in Workers |-> NoTask]
  /\ seen = [w \in Workers |-> 0]
  /\ until = [w \in Workers |-> 0]
  /\ claims = [i \in Ids |-> {}]
  /\ enq = [c \in Clients |-> NoKey]

Present(i) == tasks[i].status # "absent"

\* An update of document i: one that changes its status takes it away from
\* whoever is working on it.
Revoke(i, d) ==
  /\ tasks' = [tasks EXCEPT ![i] = d]
  /\ claims' = [claims EXCEPT ![i] = IF d.status = tasks[i].status THEN @ ELSE {}]

\* The worker's loop starts over: it forgets the task.
Forget(w) ==
  /\ pc' = [pc EXCEPT ![w] = "idle"]
  /\ asOf' = [asOf EXCEPT ![w] = 0]
  /\ sampled' = [sampled EXCEPT ![w] = {}]
  /\ mine' = [mine EXCEPT ![w] = NoTask]
  /\ seen' = [seen EXCEPT ![w] = 0]
  /\ until' = [until EXCEPT ![w] = 0]

\* The last update a worker makes to the document it holds.
LeaveWith(w, d) ==
  /\ pc[w] = "handling"
  /\ tasks' = [tasks EXCEPT ![mine[w]] = d]
  /\ claims' = [claims EXCEPT ![mine[w]] =
                   IF d.status = tasks[mine[w]].status THEN @ \ {w} ELSE {}]
  /\ Forget(w)
  /\ UNCHANGED <<now, used, enq>>
-----------------------------------------------------------------------------
(* Workers *)

\* claim: read the time, then $sample candidates ($sample returns as many as
\* match, up to its size).
Sample(w) ==
  LET match == {i \in Ids : Claimable(tasks[i], now)}
  IN  /\ pc[w] = "idle"
      /\ \E S \in SUBSET match :
           /\ S # {}
           /\ S = match \/ Cardinality(S) = SampleSize
           /\ Cardinality(S) <= SampleSize
           /\ sampled' = [sampled EXCEPT ![w] = S]
      /\ asOf' = [asOf EXCEPT ![w] = now]
      /\ pc' = [pc EXCEPT ![w] = "claiming"]
      /\ UNCHANGED <<now, tasks, used, mine, seen, until, claims, enq>>

\* mutant: update by _id alone, trusting the sample
ClaimWinsUnchecked(w, i) ==
  /\ tasks' = [tasks EXCEPT ![i] = Claimed(@, asOf[w], Lease)]
  /\ pc' = [pc EXCEPT ![w] = "handling"]
  /\ mine' = [mine EXCEPT ![w] = i]
  /\ seen' = [seen EXCEPT ![w] = tasks[i].attempts]
  /\ until' = [until EXCEPT ![w] = asOf[w] + Lease]
  /\ sampled' = [sampled EXCEPT ![w] = {}]
  /\ asOf' = [asOf EXCEPT ![w] = 0]
  /\ claims' = [claims EXCEPT ![i] = @ \cup {w}]

\* claim: find_one_and_update on one candidate succeeds.
ClaimWins(w, i) ==
  /\ Claimable(tasks[i], asOf[w])
  /\ tasks' = [tasks EXCEPT ![i] = Claimed(@, asOf[w], Lease)]
  /\ pc' = [pc EXCEPT ![w] = "handling"]
  /\ mine' = [mine EXCEPT ![w] = i]
  /\ seen' = [seen EXCEPT ![w] = tasks[i].attempts]
  /\ until' = [until EXCEPT ![w] = asOf[w] + Lease]
  /\ sampled' = [sampled EXCEPT ![w] = {}]
  /\ asOf' = [asOf EXCEPT ![w] = 0]
  /\ claims' = [claims EXCEPT ![i] = @ \cup {w}]

\* claim: the candidate has changed since the sample; try the next one.
ClaimLoses(w, i) ==
  /\ ~ Claimable(tasks[i], asOf[w])
  /\ sampled' = [sampled EXCEPT ![w] = @ \ {i}]
  /\ pc' = [pc EXCEPT ![w] = IF sampled[w] = {i} THEN "idle" ELSE @]
  /\ asOf' = [asOf EXCEPT ![w] = IF sampled[w] = {i} THEN 0 ELSE @]
  /\ UNCHANGED <<tasks, mine, seen, until, claims>>

TryClaim(w) ==
  /\ pc[w] = "claiming"
  /\ \E i \in sampled[w] : ClaimWins(w, i) \/ ClaimLoses(w, i)
  /\ UNCHANGED <<now, used, enq>>

\* renew.  A worker whose own lease has run out takes the document from a
\* later claimant by renewing, so that counts as a revocation.
Renew(w) ==
  /\ pc[w] = "handling"
  /\ tasks' = [tasks EXCEPT ![mine[w]] = Renewed(@, now, TypeLease)]
  /\ IF tasks[mine[w]].status = "running" /\ w \in claims[mine[w]]
        /\ until[w] >= now
     THEN /\ until' = [until EXCEPT ![w] = now + TypeLease]
          /\ UNCHANGED claims
     ELSE /\ claims' = [claims EXCEPT ![mine[w]] = {}]
          /\ UNCHANGED until
  /\ UNCHANGED <<now, used, pc, asOf, sampled, mine, seen, enq>>

\* _refresh_claim, at every level of a running topic merge: the lease is not
\* touched, and neither the status nor the claim is looked at.
RefreshClaim(w) ==
  /\ pc[w] = "handling"
  /\ KeyOf[mine[w]] \in MergeKeys
  /\ Revoke(mine[w], Refreshed(tasks[mine[w]], now))
  /\ UNCHANGED <<now, used, enq, workerVars>>

\* release: get_task gives the claim back before the handler runs (item tasks,
\* batch tasks, anthologies), and the worker goes on.
ReleaseEarly(w) ==
  /\ pc[w] = "handling"
  /\ Revoke(mine[w], Released(tasks[mine[w]]))
  /\ UNCHANGED <<now, used, enq, workerVars>>

\* release: nothing to do, or the owner is missing; the worker goes idle.
Release(w) == LeaveWith(w, Released(tasks[mine[w]]))

\* complete: delete_one by _id.
Complete(w) == LeaveWith(w, Absent)

\* fail, through release_failed_task.
Fail(w) == LeaveWith(w, Failed(tasks[mine[w]], seen[w], now))

\* finish_task on a task that keeps going: only the budget is cleared.
KeepGoing(w) == LeaveWith(w, BudgetCleared(tasks[mine[w]]))

\* mark_task_failed: by get_task, which then goes idle, or by a handler, which
\* goes on to report its result.
MarkFailed(w) ==
  \/ LeaveWith(w, MarkedFailed(tasks[mine[w]]))
  \/ /\ pc[w] = "handling"
     /\ Revoke(mine[w], MarkedFailed(tasks[mine[w]]))
     /\ UNCHANGED <<now, used, enq, workerVars>>

\* The process dies (killed, or SIGTERM: SystemExit only deletes the heartbeat).
Crash(w) ==
  /\ pc[w] # "idle"
  /\ Forget(w)
  /\ claims' = [i \in Ids |-> claims[i] \ {w}]
  /\ UNCHANGED <<now, tasks, used, enq>>

\* release_stale_tasks, on one document.
ReleaseStale(i) ==
  /\ Revoke(i, StaleReleased(tasks[i], now - StaleAge))
  /\ UNCHANGED <<now, used, enq, workerVars>>
-----------------------------------------------------------------------------
(* Clients *)

Matching(k) == {i \in Ids : Present(i) /\ KeyOf[i] = k}

\* enqueue: find_one(key) and the early return for a live running task.
EnqueueRead(c, k) ==
  /\ enq[c] = NoKey
  /\ k \notin MarkKeys
  /\ \/ Matching(k) = {}
     \/ \E i \in Matching(k) : ~ LiveRunning(tasks[i], now)
  /\ enq' = [enq EXCEPT ![c] = k]
  /\ UNCHANGED <<now, tasks, used, claims, workerVars>>

\* enqueue: update_one(key, ..., upsert=True).
EnqueueWrite(c) ==
  /\ enq[c] # NoKey
  /\ enq' = [enq EXCEPT ![c] = NoKey]
  /\ \/ \E i \in Matching(enq[c]) : Revoke(i, Enqueued) /\ UNCHANGED used
     \/ /\ Matching(enq[c]) = {}
        /\ \E i \in Ids \ used :
             /\ KeyOf[i] = enq[c]
             /\ Revoke(i, Enqueued)
             /\ used' = used \cup {i}
  /\ UNCHANGED <<now, workerVars>>

\* add_task on a mark type: insert_many, no key.
AddMark(i) ==
  /\ i \notin used
  /\ KeyOf[i] \in MarkKeys
  /\ Revoke(i, Enqueued)
  /\ used' = used \cup {i}
  /\ UNCHANGED <<now, enq, workerVars>>

\* pause / resume, on one of the documents that match.
Pause(i) ==
  /\ Revoke(i, Paused(tasks[i]))
  /\ UNCHANGED <<now, used, enq, workerVars>>

Resume(i) ==
  /\ Revoke(i, Resumed(tasks[i]))
  /\ UNCHANGED <<now, used, enq, workerVars>>

\* remove_task, from the tasks page.
RemoveTask(i) ==
  /\ Present(i)
  /\ Revoke(i, Absent)
  /\ UNCHANGED <<now, used, enq, workerVars>>

Tick ==
  /\ now < MaxNow
  /\ now' = now + 1
  /\ UNCHANGED <<tasks, used, claims, enq, workerVars>>
-----------------------------------------------------------------------------
\* What a worker does to get a task and to the one it got.  The successors that
\* add_next_tasks enqueues in finish_task and get_task are other tasks than the
\* worker's own, and are written by enqueue like anybody's: a ClientStep.
OwnTaskStep(w) ==
  \/ Sample(w) \/ TryClaim(w) \/ Renew(w) \/ RefreshClaim(w)
  \/ ReleaseEarly(w) \/ Release(w) \/ Complete(w) \/ Fail(w) \/ MarkFailed(w)
  \/ KeepGoing(w) \/ Crash(w)

ClientStep ==
  \/ \E c \in Clients : EnqueueWrite(c) \/ \E k \in Keys : EnqueueRead(c, k)
  \/ \E i \in Ids : AddMark(i) \/ Pause(i) \/ Resume(i) \/ RemoveTask(i)

Next ==
  \/ \E w \in Workers : OwnTaskStep(w)
  \/ \E i \in Ids : ReleaseStale(i)
  \/ ClientStep
  \/ Tick

Spec == Init /\ [][Next]_vars
-----------------------------------------------------------------------------
(* Properties *)

\* `status` and the legacy `processing` field, which eleven updates in three
\* files write, agree: readers of either one (claim and pause use status,
\* release_stale_tasks and the status page use processing) see the same task.
\* The one exception is a topic merge that was paused, re-enqueued, given back or
\* declared dead while it ran: the run goes on and refreshes `processing`, and
\* the document of a task that waits or is parked looks busy.  It is never the
\* other way round: a running task never looks idle or frozen.
DualWriteAgrees ==
  \A i \in Ids :
    Agrees(tasks[i]) \/ (KeyOf[i] \in MergeKeys /\ LooksBusy(tasks[i]))

\* A running task always carries a lease that ends, at a time bounded by the
\* present: whatever its worker does or suffers, claim finds it again.  (A
\* running document without lease_until would match no branch of
\* claimable_filter, ever.)
RunningExpires ==
  \A i \in Ids : tasks[i].status = "running" =>
    /\ tasks[i].lease # NoLease
    /\ \/ tasks[i].lease <= now + Lease
       \/ tasks[i].lease <= now + TypeLease

\* The retry budget: a task that may still run has failures left, and so has
\* every copy of it that a worker holds.
BudgetLeft ==
  /\ \A i \in Ids : HasBudget(tasks[i])
  /\ \A w \in Workers : seen[w] < MaxAttempts

\* Two workers whose claims on a task nobody has revoked (by a release, a
\* failure, a pause or resume, an enqueue, a removal, or a renewal after the
\* worker's own lease ran out) are never inside their leases at the same time.
LeaseExclusion ==
  \A i \in Ids : \A w1, w2 \in claims[i] :
    (until[w1] >= now /\ until[w2] >= now) => w1 = w2

\* The claims implement leases: the abstract lock's holders are the claims that
\* nobody has revoked.
LL == INSTANCE LeaseLock WITH Tasks <- Ids, holders <- claims

ImplementsLeases == LL!Spec

\* No operation on a worker's own task brings one back that was paused or is
\* dead meanwhile: not a claim whose sample was taken before the pause, not the
\* late renew, _refresh_claim, release, fail or clearing of the budget of the run
\* that was going on, nor its crash.  complete deletes the task,
\* mark_task_failed declares it dead, and that is all.  (resume and enqueue do
\* bring it back, whoever calls them: an enqueue of the same key by a user, or by
\* the worker that has finished its predecessor in the chain.)
LateUpdatesNeverUnpark ==
  [][(\E w \in Workers : OwnTaskStep(w)) =>
       \A i \in Ids : Parked(tasks[i]) => Parked(tasks'[i]) \/ tasks'[i] = Absent]_vars

\* A worker that comes away with a task took it when it was claimable at that
\* very moment, however long ago it sampled: it never takes a task out of a
\* running lease, before its backoff, or after a pause.
ClaimsOnlyClaimable ==
  [][\A w \in Workers : \A i \in Ids :
       (mine[w] # i /\ mine'[w] = i) => Claimable(tasks[i], now)]_vars

\* resume's docstring: "Running tasks are deliberately untouched to prevent
\* double-runs": two workers are not inside leases on the same task.
NoDoubleRun ==
  \A w1, w2 \in Workers :
    (/\ w1 # w2
     /\ pc[w1] = "handling" /\ pc[w2] = "handling"
     /\ mine[w1] = mine[w2]
     /\ until[w1] >= now /\ until[w2] >= now) => FALSE

\* The system of that sentence: workers that claim and finish, and a user who
\* pauses and resumes.
PauseResumeNext ==
  \/ \E w \in Workers : Sample(w) \/ TryClaim(w) \/ Complete(w) \/ Fail(w)
  \/ \E i \in Ids : Pause(i) \/ Resume(i)
  \/ Tick

PauseResumeSpec == Init /\ [][PauseResumeNext]_vars
=============================================================================
