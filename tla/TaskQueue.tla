----------------------------- MODULE TaskQueue -----------------------------
(***************************************************************************)
(* One user's processing chain: worker processes (the loop of              *)
(* rsstag/workers/dispatcher.py) that take tasks with get_task, run a       *)
(* handler and finish or fail them, over the task documents of TaskDoc and  *)
(* the items (posts, bi-grams, tags) that the tasks are about.              *)
(*                                                                          *)
(* Three classes of task are told apart, as get_task and finish_task do:    *)
(*  - whole tasks (download, letters, clustering, ...): the worker keeps    *)
(*    the claim while the handler runs, and finish_task completes them;     *)
(*  - counted item tasks (tags, NER, grouping, ...): a batch of items is    *)
(*    locked, the claim goes back before the handler runs, and the task is  *)
(*    completed by a later get_task that finds no item left.  The handler   *)
(*    marks the items done (tags), or finish_task does (NER, grouping);     *)
(*  - rank tasks (bi-gram and tag ranking): the same, but get_task does not *)
(*    count what is left when it finds no item to lock.                     *)
(*                                                                          *)
(* Time is abstract: `Now` stands still and a lease, a backoff or an item   *)
(* lock runs out in a step of its own.  A claim is one step: TaskState has  *)
(* its sampling and its compare-and-set.                                    *)
(***************************************************************************)
EXTENDS TaskDoc, FiniteSets

CONSTANTS
  Workers,
  WholeTypes, CountedTypes, RankTypes,
  LateTypes,      \* counted types whose items finish_task marks done
  After,          \* _tasks_after: type -> the set of its successors
  Brings,         \* the items that a whole task's handler can store
  Items,          \* every post, bi-gram or tag that ever exists
  TypeOf,         \* the item task that an item is work for
  BatchSize,      \* _posts_bath_size and its like
  FirstTasks,     \* tasks in the queue at the start, not `manual`
  Scenes          \* the bounds; each behaviour keeps to those of one scene

Types == WholeTypes \cup CountedTypes \cup RankTypes
ItemTypes == CountedTypes \cup RankTypes
NoType == "no type"
User == "user"

\* The tasks from which the chain leads to t.
Upstream(t) ==
  {p \in Types : \A S \in SUBSET Types :
     (\A q \in Types : After[q] \cap (S \cup {t}) # {} => q \in S) => p \in S}

\* The chain has no circle, and the posts of a download are work for what follows it.
ASSUME ChainAssumption ==
  /\ After \in [Types -> SUBSET Types]
  /\ \A t \in Types : t \notin Upstream(t)
  /\ \A d \in WholeTypes : \A i \in Brings[d] : d \in Upstream(TypeOf[i])
  /\ WholeTypes \cap ItemTypes = {} /\ CountedTypes \cap RankTypes = {}
  /\ TypeOf \in [Items -> ItemTypes]
  /\ Brings \in [WholeTypes -> SUBSET Items]
  /\ NoType \notin Types /\ User \notin Workers
  /\ FirstTasks \subseteq Types
  /\ LateTypes \subseteq CountedTypes
ASSUME BoundsAssumption == BatchSize \in Nat \ {0}

\* The workers that run; the items that a download may bring; may a handler
\* outlive its lease or its item locks; how many crashes, failing handlers or
\* missing owners; how many enqueues that fail; how many tasks the user adds.
ASSUME ScenesAssumption ==
  Scenes \subseteq [crew: SUBSET Workers, items: SUBSET Items, slow: BOOLEAN,
                   faults: Nat, errors: Nat, adds: Nat]

Now == 1

VARIABLES
  scene,      \* one of Scenes, for good
  tasks,      \* db.tasks, by type: at most one document per type
  manual,     \* the `manual` field of the document
  item,       \* "none" (not there yet), "todo", "done"
  lock,       \* the item's `processing`: "free", "held", "stale" (over age)
  counted,    \* how often the item was added to the counters of its tags
  pc, job,    \* where each worker is, and the type of its task
  same,       \* is the document the worker knows by _id still there?
  seen,       \* `attempts` in the worker's copy
  byHand,     \* `manual` in the worker's copy
  batch,      \* task["data"]
  chain,      \* the successors that are yet to be enqueued
  writing,    \* the task that a worker or the user is about to write in enqueue
  faults, errors, adds

workerVars == <<pc, job, same, seen, byHand, batch, chain, writing>>
copyVars == <<job, same, seen, byHand>>
bounds == <<scene, faults, errors, adds>>
itemVars == <<item, lock, counted>>
vars == <<scene, tasks, manual, item, lock, counted, pc, job, same, seen, byHand,
          batch, chain, writing, faults, errors, adds>>

\* get_task: claimed, found, locked, empty, final; the handler: handling,
\* counting; finish_task: finishing, chaining.
Places == {"idle", "claimed", "found", "locked", "empty", "final", "handling",
           "counting", "finishing", "chaining"}

TypeOK ==
  /\ scene \in Scenes
  /\ tasks \in [Types -> TaskDocs]
  /\ manual \in [Types -> BOOLEAN]
  /\ item \in [Items -> {"none", "todo", "done"}]
  /\ lock \in [Items -> {"free", "held", "stale"}]
  /\ counted \in [Items -> Nat]
  /\ pc \in [Workers -> Places]
  /\ job \in [Workers -> Types \cup {NoType}]
  /\ same \in [Workers -> BOOLEAN]
  /\ seen \in [Workers -> Nat]
  /\ byHand \in [Workers -> BOOLEAN]
  /\ batch \in [Workers -> SUBSET Items]
  /\ chain \in [Workers -> SUBSET Types]
  /\ writing \in [Workers \cup {User} -> Types \cup {NoType}]
  /\ faults \in 0..scene.faults
  /\ errors \in 0..scene.errors
  /\ adds \in 0..scene.adds

Init ==
  /\ scene \in Scenes
  /\ tasks = [t \in Types |-> IF t \in FirstTasks THEN Enqueued ELSE Absent]
  /\ manual = [t \in Types |-> FALSE]
  /\ item = [i \in Items |-> "none"]
  /\ lock = [i \in Items |-> "free"]
  /\ counted = [i \in Items |-> 0]
  /\ pc = [w \in Workers |-> "idle"]
  /\ job = [w \in Workers |-> NoType]
  /\ same = [w \in Workers |-> FALSE]
  /\ seen = [w \in Workers |-> 0]
  /\ byHand = [w \in Workers |-> FALSE]
  /\ batch = [w \in Workers |-> {}]
  /\ chain = [w \in Workers |-> {}]
  /\ writing = [w \in Workers \cup {User} |-> NoType]
  /\ faults = 0
  /\ errors = 0
  /\ adds = 0
-----------------------------------------------------------------------------
Present(t) == tasks[t].status # "absent"
Todo(t) == {i \in Items : TypeOf[i] = t /\ item[i] = "todo"}

\* mutant: a lock never goes stale
LockableFree(t) == {i \in Todo(t) : lock[i] = "free"}

\* mutant: the query does not look at `processing`
LockableAny(t) == Todo(t)

\* claimable_item_processing(): idle, or locked for too long.
Lockable(t) == {i \in Todo(t) : lock[i] \in {"free", "stale"}}

\* An update by _id of the document the worker claimed; nothing if it is gone.
Update(w, d) == tasks' = IF same[w] THEN [tasks EXCEPT ![job[w]] = d] ELSE tasks

Go(w, place) == pc' = [pc EXCEPT ![w] = place]

\* The worker's loop starts over; G is the set of workers whose document has
\* just been deleted.
Restart(w, G) ==
  /\ Go(w, "idle")
  /\ job' = [job EXCEPT ![w] = NoType]
  /\ same' = [v \in Workers |-> IF v \in G \cup {w} THEN FALSE ELSE same[v]]
  /\ seen' = [seen EXCEPT ![w] = 0]
  /\ byHand' = [byHand EXCEPT ![w] = FALSE]
  /\ batch' = [batch EXCEPT ![w] = {}]
  /\ chain' = [chain EXCEPT ![w] = {}]
  /\ writing' = [writing EXCEPT ![w] = NoType]

LeaveWith(w, d) ==
  /\ Update(w, d)
  /\ Restart(w, {})
  /\ UNCHANGED <<manual, itemVars, adds>>

\* complete(): delete_one by _id.
Complete(w) ==
  /\ Update(w, Absent)
  /\ Restart(w, {v \in Workers : same[w] /\ job[v] = job[w]})
  /\ UNCHANGED <<manual, itemVars, bounds>>

Fault ==
  faults < scene.faults /\ faults' = faults + 1 /\ UNCHANGED <<scene, errors>>
Error ==
  errors < scene.errors /\ errors' = errors + 1 /\ UNCHANGED <<scene, faults>>

\* enqueue(key, {"manual": ...}) by a worker or the user: find_one; a live
\* running task is left alone.
EnqueueRead(a, t) ==
  writing' = [writing EXCEPT ![a] = IF LiveRunning(tasks[t], Now) THEN @ ELSE t]

\* The upsert.
EnqueueWrite(a, by) ==
  /\ writing[a] # NoType
  /\ tasks' = [tasks EXCEPT ![writing[a]] = Enqueued]
  /\ manual' = [manual EXCEPT ![writing[a]] = by]
  /\ writing' = [writing EXCEPT ![a] = NoType]
-----------------------------------------------------------------------------
(* get_task *)

Claim(w, t) ==
  /\ w \in scene.crew
  /\ pc[w] = "idle"
  /\ Claimable(tasks[t], Now)
  /\ tasks' = [tasks EXCEPT ![t] = Claimed(@, Now, 1)]
  /\ job' = [job EXCEPT ![w] = t]
  /\ seen' = [seen EXCEPT ![w] = tasks[t].attempts]
  /\ byHand' = [byHand EXCEPT ![w] = manual[t]]
  /\ Go(w, "claimed")
  /\ same' = [same EXCEPT ![w] = TRUE]
  /\ UNCHANGED <<manual, itemVars, batch, writing, chain, bounds>>

\* The owner's user document is missing: the claim goes back.
OwnerMissing(w) ==
  /\ pc[w] = "claimed"
  /\ Fault
  /\ LeaveWith(w, Released(tasks[job[w]]))

\* The task's scope is invalid: mark_task_failed.
BadScope(w) ==
  /\ pc[w] = "claimed"
  /\ Fault
  /\ LeaveWith(w, MarkedFailed(tasks[job[w]]))

\* A whole task: its data is the document itself.
StartWhole(w) ==
  /\ pc[w] = "claimed"
  /\ job[w] \in WholeTypes
  /\ Go(w, "handling")
  /\ UNCHANGED <<tasks, manual, itemVars, copyVars, batch, writing, chain,
                 bounds>>

\* find(...).limit(n)
FindItems(w) ==
  /\ pc[w] = "claimed"
  /\ job[w] \in ItemTypes
  /\ IF Lockable(job[w]) = {}
     THEN Go(w, "empty") /\ UNCHANGED batch
     ELSE /\ Go(w, "found")
          /\ \E S \in SUBSET Lockable(job[w]) :
               /\ S = Lockable(job[w]) \/ Cardinality(S) = BatchSize
               /\ Cardinality(S) \in 1..BatchSize
               /\ batch' = [batch EXCEPT ![w] = S]
  /\ UNCHANGED <<tasks, manual, itemVars, copyVars, writing, chain, bounds>>

\* mutant: the update is forgotten
LockItemsNot(w) ==
  /\ pc[w] = "found"
  /\ Go(w, "locked")
  /\ UNCHANGED <<tasks, manual, itemVars, copyVars, batch, writing, chain, bounds>>

\* update_many({"_id": {"$in": ids}}, {"$set": {"processing": time.time()}})
LockItems(w) ==
  /\ pc[w] = "found"
  /\ lock' = [i \in Items |-> IF i \in batch[w] THEN "held" ELSE lock[i]]
  /\ Go(w, "locked")
  /\ UNCHANGED <<tasks, manual, item, counted, copyVars, batch, writing, chain,
                 bounds>>

\* The claim goes back before the handler runs.
ReleaseEarly(w) ==
  /\ pc[w] = "locked"
  /\ Update(w, Released(tasks[job[w]]))
  /\ Go(w, "handling")
  /\ UNCHANGED <<manual, itemVars, copyVars, batch, writing, chain, bounds>>

\* mutant: a counted type is finished like a rank type
NothingFoundUncounted(w) ==
  /\ pc[w] = "empty"
  /\ Go(w, "final")
  /\ chain' = [chain EXCEPT ![w] = IF byHand[w] THEN {} ELSE After[job[w]]]
  /\ UNCHANGED <<tasks, manual, itemVars, copyVars, batch, writing, bounds>>

\* No item to lock.  A counted type is finished only when none is left at all.
NothingFound(w) ==
  /\ pc[w] = "empty"
  /\ IF job[w] \in RankTypes \/ Todo(job[w]) = {}
     THEN /\ Go(w, "final")
          /\ chain' = [chain EXCEPT ![w] = IF byHand[w] THEN {} ELSE After[job[w]]]
          /\ UNCHANGED <<tasks, manual, itemVars, copyVars, batch, writing,
                         bounds>>
     ELSE /\ LeaveWith(w, Released(tasks[job[w]]))
          /\ UNCHANGED <<scene, faults, errors>>

\* _can_finalize_completed_task: add_next_tasks, one enqueue after another.
ChainRead(w) ==
  /\ pc[w] \in {"final", "chaining"}
  /\ writing[w] = NoType
  /\ \E t \in chain[w] :
       /\ EnqueueRead(w, t)
       /\ chain' = [chain EXCEPT ![w] = @ \ {t}]
  /\ UNCHANGED <<tasks, manual, itemVars, pc, copyVars, batch, bounds>>

ChainWrite(w) ==
  /\ EnqueueWrite(w, FALSE)
  /\ UNCHANGED <<itemVars, pc, copyVars, batch, chain, bounds>>

FinalComplete(w) ==
  /\ pc[w] = "final"
  /\ chain[w] = {} /\ writing[w] = NoType
  /\ Complete(w)

\* An enqueue failed: the task is not finalised.  A counted type gives the claim
\* back; a rank type does not.
FinalFails(w) ==
  /\ pc[w] = "final"
  /\ writing[w] # NoType
  /\ Error
  /\ LeaveWith(w, IF job[w] \in RankTypes THEN tasks[job[w]]
                                          ELSE Released(tasks[job[w]]))
-----------------------------------------------------------------------------
(* The handler *)

\* A whole task's handler succeeds: what it stores, if anything, is work for
\* later tasks.
HandleWhole(w) ==
  /\ pc[w] = "handling"
  /\ job[w] \in WholeTypes
  /\ \E S \in SUBSET {i \in Brings[job[w]] \cap scene.items : item[i] = "none"} :
       item' = [i \in Items |-> IF i \in S THEN "todo" ELSE item[i]]
  /\ Go(w, "finishing")
  /\ UNCHANGED <<tasks, manual, lock, counted, copyVars, batch, writing, chain,
                 bounds>>

\* make_tags, first write: the posts get their tags.
HandleTags(w) ==
  /\ pc[w] = "handling"
  /\ job[w] \in CountedTypes \ LateTypes
  /\ item' = [i \in Items |-> IF i \in batch[w] THEN "done" ELSE item[i]]
  /\ Go(w, "counting")
  /\ UNCHANGED <<tasks, manual, lock, counted, copyVars, batch, writing, chain,
                 bounds>>

\* make_tags, second and third write: $inc of the counters of the tags and
\* bi-grams, whose temperature is reset: that is work for the rank tasks.
CountTags(w) ==
  /\ pc[w] = "counting"
  /\ counted' = [i \in Items |-> counted[i] + (IF i \in batch[w] THEN 1 ELSE 0)]
  /\ item' = [i \in Items |-> IF TypeOf[i] \in RankTypes THEN "todo" ELSE item[i]]
  /\ lock' = [i \in Items |-> IF TypeOf[i] \in RankTypes THEN "free" ELSE lock[i]]
  /\ Go(w, "finishing")
  /\ UNCHANGED <<tasks, manual, copyVars, batch, writing, chain, bounds>>

\* NER, grouping: what the handler stores is not work for another task.
HandleLate(w) ==
  /\ pc[w] = "handling"
  /\ job[w] \in LateTypes
  /\ Go(w, "finishing")
  /\ UNCHANGED <<tasks, manual, itemVars, copyVars, batch, writing, chain,
                 bounds>>

\* make_bi_grams_rank / make_tags_rank: the temperatures are set.
HandleRank(w) ==
  /\ pc[w] = "handling"
  /\ job[w] \in RankTypes
  /\ item' = [i \in Items |-> IF i \in batch[w] THEN "done" ELSE item[i]]
  /\ Go(w, "finishing")
  /\ UNCHANGED <<tasks, manual, lock, counted, copyVars, batch, writing, chain,
                 bounds>>

\* The handler returns false or raises, at whatever point, or finish_task does.
HandleFails(w) ==
  /\ pc[w] \in {"handling", "counting", "finishing"}
  /\ Fault
  /\ LeaveWith(w, Failed(tasks[job[w]], seen[w], Now))
-----------------------------------------------------------------------------
(* finish_task *)

\* An item task: the items are unlocked, and the failure budget is cleared.
FinishItems(w) ==
  /\ pc[w] = "finishing"
  /\ job[w] \in ItemTypes
  /\ item' = [i \in Items |->
       IF i \in batch[w] /\ job[w] \in LateTypes THEN "done" ELSE item[i]]
  /\ lock' = [i \in Items |-> IF i \in batch[w] THEN "free" ELSE lock[i]]
  /\ Update(w, BudgetCleared(tasks[job[w]]))
  /\ Restart(w, {})
  /\ UNCHANGED <<manual, counted, bounds>>

\* A whole task: the successors first, then the deletion.
FinishWhole(w) ==
  /\ pc[w] = "finishing"
  /\ job[w] \in WholeTypes
  /\ Go(w, "chaining")
  /\ chain' = [chain EXCEPT ![w] = IF byHand[w] THEN {} ELSE After[job[w]]]
  /\ UNCHANGED <<tasks, manual, itemVars, copyVars, batch, writing, bounds>>

\* An enqueue failed; finish_task does not look at the result.
ChainFails(w) ==
  /\ pc[w] = "chaining"
  /\ writing[w] # NoType
  /\ Error
  /\ chain' = [chain EXCEPT ![w] = {}]
  /\ writing' = [writing EXCEPT ![w] = NoType]
  /\ UNCHANGED <<tasks, manual, itemVars, pc, copyVars, batch, adds>>

ChainComplete(w) ==
  /\ pc[w] = "chaining"
  /\ chain[w] = {} /\ writing[w] = NoType
  /\ Complete(w)

\* The process dies; nothing is given back.
Crash(w) ==
  /\ pc[w] # "idle"
  /\ Fault
  /\ Restart(w, {})
  /\ UNCHANGED <<tasks, manual, itemVars, adds>>
-----------------------------------------------------------------------------
(* The user, and time *)

\* add_task from the tasks page; its tasks are `manual`.
AddTask(t) ==
  /\ adds < scene.adds
  /\ adds' = adds + 1
  /\ writing[User] = NoType
  /\ EnqueueRead(User, t)
  /\ UNCHANGED <<tasks, manual, itemVars, pc, copyVars, batch, chain, scene,
                 faults, errors>>

AddWrite ==
  /\ EnqueueWrite(User, TRUE)
  /\ UNCHANGED <<itemVars, pc, copyVars, batch, chain, bounds>>

\* Is worker w at work under the claim on its task?  get_task takes far less
\* time than a lease; the handler of a whole task may or may not.
UnderClaim(w) ==
  \/ pc[w] \in {"claimed", "found", "locked", "empty", "final"}
  \/ job[w] \in WholeTypes /\ ~ scene.slow

LeaseEnds(t) ==
  /\ LiveRunning(tasks[t], Now)
  /\ \A w \in Workers : (job[w] = t /\ same[w]) => ~ UnderClaim(w)
  /\ tasks' = [tasks EXCEPT ![t].lease = 0]
  /\ UNCHANGED <<manual, itemVars, workerVars, bounds>>

\* A backoff is half a minute at least.
BackoffEnds(t) ==
  /\ tasks[t].backoff > Now
  /\ \A w \in Workers : (job[w] = t /\ same[w]) => ~ UnderClaim(w)
  /\ tasks' = [tasks EXCEPT ![t].backoff = 0]
  /\ UNCHANGED <<manual, itemVars, workerVars, bounds>>

LockAges(i) ==
  /\ lock[i] = "held"
  /\ scene.slow \/ \A w \in Workers : i \notin batch[w]
  /\ lock' = [lock EXCEPT ![i] = "stale"]
  /\ UNCHANGED <<tasks, manual, item, counted, workerVars, bounds>>
-----------------------------------------------------------------------------
Work(w) ==
  \/ StartWhole(w) \/ FindItems(w) \/ LockItems(w) \/ ReleaseEarly(w)
  \/ NothingFound(w) \/ ChainRead(w) \/ ChainWrite(w) \/ FinalComplete(w)
  \/ HandleWhole(w) \/ HandleTags(w) \/ CountTags(w) \/ HandleLate(w)
  \/ HandleRank(w) \/ FinishItems(w) \/ FinishWhole(w) \/ ChainComplete(w)

Trouble(w) ==
  \/ OwnerMissing(w) \/ BadScope(w) \/ FinalFails(w) \/ HandleFails(w)
  \/ ChainFails(w) \/ Crash(w)

Next ==
  \/ \E w \in Workers : Work(w) \/ Trouble(w) \/ \E t \in Types : Claim(w, t)
  \/ \E t \in Types : AddTask(t) \/ LeaseEnds(t) \/ BackoffEnds(t)
  \/ AddWrite
  \/ \E i \in Items : LockAges(i)

Spec == Init /\ [][Next]_vars

\* The processes run, time passes, and the random sample of claim picks every
\* task sooner or later; nothing makes a handler fail.
Fairness ==
  /\ \A w \in Workers : WF_vars(Work(w))
  /\ \A t \in Types : SF_vars(\E w \in Workers : Claim(w, t))
  /\ \A t \in Types : WF_vars(LeaseEnds(t)) /\ WF_vars(BackoffEnds(t))
  /\ \A i \in Items : WF_vars(LockAges(i))

FairSpec == Spec /\ Fairness
-----------------------------------------------------------------------------
(* Properties *)

\* The tasks that there may be when nobody adds one.
Reached(t) == FirstTasks \cap (Upstream(t) \cup {t}) # {}

\* No task follows two others, as in _tasks_after, and one download starts it all.
OneChain ==
  /\ \A p, q \in Types :
       Reached(p) /\ Reached(q) /\ After[p] \cap After[q] # {} => p = q
  /\ \A t \in FirstTasks : FirstTasks \cap Upstream(t) = {}

\* What the properties below need of a scene (see README.md): one worker, which may fail,
\* crash and be slow; or any number of workers on one chain, if none of them does.
Orderly(s) ==
  \/ \A w1, w2 \in s.crew : w1 = w2
  \/ OneChain /\ ~ s.slow /\ s.faults = 0 /\ s.errors = 0 /\ s.adds = 0

\* The task that will find an item is there, or one that leads to it.
Awaited(t) == Present(t) \/ \E p \in Upstream(t) : Present(p) /\ ~ manual[p]

\* However get_task, the handlers and finish_task are cut short, no post is left
\* waiting for a task that is gone: finish_task chains first, "so a crash
\* between the two never loses the chain" (an enqueue that fails does, and so
\* does a user who adds a task that was chained: it becomes `manual`).
NoOrphans ==
  adds + errors = 0 => \A t \in CountedTypes : Todo(t) # {} => Awaited(t)

\* enqueue's docstring: "duplicate work is possible. Corruption is not": the
\* counters of a post's tags count it once (but see README.md for an enqueue that
\* races a claim).
NoDoubleCount ==
  adds = 0 => \A i \in Items : counted[i] <= 1

\* Two workers never have the same post in a batch that is locked: the locks
\* taken by find and update_many exclude each other, although the two are not
\* one operation and the claim goes back before the batch is done.
ItemExclusion ==
  \A w1, w2 \in Workers : w1 # w2 =>
    \A i \in batch[w1] \cap batch[w2] : TypeOf[i] \in RankTypes \/ lock[i] # "held"

\* Every post of the chain gets done in the end, unless a task of the chain ends
\* in the dead letter state: stale locks, expired leases, backoffs and early
\* releases never leave the chain standing.
EveryItemDone ==
  <>[](\A i \in Items : (TypeOf[i] \in CountedTypes /\ item[i] = "todo") =>
         adds + errors > 0 \/ \E t \in Types : Parked(tasks[t]))

\* Every task comes to an end, deleted or in the dead letter state, whatever
\* enqueue fails and whatever the user adds meanwhile: no claim is kept for
\* ever, although get_task has ways out that do not give it back.
EveryTaskEnds == <>[](\A t \in Types : ~ Present(t) \/ Parked(tasks[t]))
=============================================================================
