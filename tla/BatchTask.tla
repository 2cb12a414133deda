------------------------------ MODULE BatchTask ------------------------------
(***************************************************************************)
(* The task that groups one user's posts through a provider's batch API      *)
(* (TASK_POST_GROUPING_BATCH): the posts that a claim takes, the batch that  *)
(* is submitted for some of them, the polls, the raw result, the groupings,  *)
(* and the `batch` field of the task document, which carries the work from   *)
(* one run of the handler to the next.  Each run ends in finish_task, or in  *)
(* a return of False, which the worker's loop counts as a failure.           *)
(*                                                                          *)
(* The claim is given back before the handler runs, so that another worker    *)
(* may have a copy of the same document.  Every write of `batch` replaces the *)
(* whole field by the worker's copy.  A prompt has a post's whole text: the   *)
(* chunks of a post are submitted and answered together.                      *)
(***************************************************************************)
EXTENDS TaskDoc, FiniteSets

CONSTANTS
  Workers, Posts,
  Batches,        \* the batches a provider is ever given
  Raws,           \* ids of documents of llm_batch_results
  PerBatch,       \* posts that post_grouping_batch_lines_limit leaves room for
  Scenes          \* the bounds; each behaviour keeps to those of one scene

None == "none"

\* A lock is the set of the posts that one update has locked: they have the same
\* time in `processing`.  Or there is no lock, or it is so old that it does not count.
Free == {}
Stale == {None}

\* The workers that run; the posts without any text; how many crashes and
\* exceptions; how many batches or answers the provider denies; how many times
\* the user resumes the task.
ASSUME ScenesAssumption ==
  Scenes \subseteq [crew: SUBSET Workers, blank: SUBSET Posts,
                   faults: Nat, denials: Nat, resumes: Nat]
ASSUME BatchAssumption ==
  PerBatch \in Nat \ {0} /\ None \notin Batches \cup Raws \cup Posts

Now == 1

VARIABLES
  scene,                        \* one of Scenes, for good
  task, batch,                  \* the task document and its `batch` field
  lock,                         \* a post's `processing`: see Free and Stale
  grouped,                      \* its `grouping` field
  saved,                        \* has it a document in post_grouping?
  rawOf,                        \* llm_batch_results: the batch, or None
  status, sent, answers,        \* the provider's batches
  pc, mine, data, seen,         \* a worker: its copies of `batch`, posts, attempts
  result,                       \* the batch whose raw result it has read
  unsaved,                      \* history: posts whose grouping could not be saved
  faults, denials, resumes

store == <<task, batch, lock, grouped, saved, rawOf>>
provider == <<status, sent, answers>>
local == <<data, seen, result>>
worker == <<pc, mine, data, seen, result>>
bounds == <<scene, unsaved, faults, denials, resumes>>
vars == <<scene, task, batch, lock, grouped, saved, rawOf, status, sent, answers,
          pc, mine, data, seen, result, unsaved, faults, denials, resumes>>

\* The `batch` field: `id` is batch_id, `raw` raw_result_id while it is not
\* raw_processed, `items` item_ids, `pending` pending_item_ids, `checked` whether
\* there is a last_check.
BatchStates ==
  [status: {"", "new", "submitted", "raw_pending", "done", "failed"},
   id: Batches \cup {None}, raw: Raws \cup {None}, items: SUBSET Posts,
   pending: SUBSET Posts, checked: BOOLEAN]

NoState == [status |-> "", id |-> None, raw |-> None, items |-> {},
            pending |-> {}, checked |-> FALSE]

\* get_task: claimed, locking, empty, releasing; the handler: handling ... settled;
\* then finish_task or release_failed_task.
Taking == {"claimed", "locking", "empty", "releasing"}
Handling == {"handling", "submitted", "fetching", "fetched", "denied", "clearing",
             "refused", "refusing", "saving", "marking", "settling", "dropping"}

TypeOK ==
  /\ scene \in Scenes
  /\ task \in TaskDocs
  /\ batch \in BatchStates
  /\ lock \in [Posts -> (SUBSET Posts) \cup {Stale}]
  /\ grouped \in [Posts -> BOOLEAN]
  /\ saved \in [Posts -> BOOLEAN]
  /\ rawOf \in [Raws -> Batches \cup {None}]
  /\ status \in [Batches -> {"unused", "running", "completed", "refused", "failed"}]
  /\ sent \in [Batches -> SUBSET Posts]
  /\ answers \in [Batches -> SUBSET Posts]
  /\ pc \in [Workers -> Taking \cup Handling \cup {"idle", "finishing", "failing"}]
  /\ mine \in [Workers -> BatchStates]
  /\ data \in [Workers -> SUBSET Posts]
  /\ seen \in [Workers -> Nat]
  /\ result \in [Workers -> Batches \cup {None}]
  /\ unsaved \subseteq Posts
  /\ faults \in Nat /\ denials \in Nat /\ resumes \in Nat

Init ==
  /\ scene \in Scenes
  /\ task = Enqueued
  /\ batch = NoState
  /\ lock = [p \in Posts |-> Free]
  /\ grouped = [p \in Posts |-> FALSE]
  /\ saved = [p \in Posts |-> FALSE]
  /\ rawOf = [r \in Raws |-> None]
  /\ status = [b \in Batches |-> "unused"]
  /\ sent = [b \in Batches |-> {}]
  /\ answers = [b \in Batches |-> {}]
  /\ pc = [w \in Workers |-> "idle"]
  /\ mine = [w \in Workers |-> NoState]
  /\ data = [w \in Workers |-> {}]
  /\ seen = [w \in Workers |-> 0]
  /\ result = [w \in Workers |-> None]
  /\ unsaved = {}
  /\ faults = 0 /\ denials = 0 /\ resumes = 0
-----------------------------------------------------------------------------
Go(w, place) == pc' = [pc EXCEPT ![w] = place]

\* The worker's loop starts over.
Rest(w) ==
  /\ Go(w, "idle")
  /\ mine' = [mine EXCEPT ![w] = NoState]
  /\ data' = [data EXCEPT ![w] = {}]
  /\ seen' = [seen EXCEPT ![w] = 0]
  /\ result' = [result EXCEPT ![w] = None]

Fault ==
  /\ faults < scene.faults /\ faults' = faults + 1
  /\ UNCHANGED <<scene, denials, resumes>>

Denial ==
  /\ denials < scene.denials /\ denials' = denials + 1
  /\ UNCHANGED <<scene, unsaved, faults, resumes>>

Unlocked(P) == [p \in Posts |-> IF p \in P THEN Free ELSE lock[p]]

\* update_task_batch_state: nothing if the document is gone.
StoreState(s) == batch' = IF task.status = "absent" THEN batch ELSE s
-----------------------------------------------------------------------------
(* get_task *)

Claim(w) ==
  /\ w \in scene.crew /\ pc[w] = "idle"
  /\ Claimable(task, Now)
  /\ task' = Claimed(task, Now, 1)
  /\ mine' = [mine EXCEPT ![w] = batch]
  /\ seen' = [seen EXCEPT ![w] = task.attempts]
  /\ Go(w, "claimed")
  /\ UNCHANGED <<batch, lock, grouped, saved, rawOf, provider, data, result, bounds>>

\* The posts that the batch state names, or else all that can be locked.
Find(w) ==
  /\ pc[w] = "claimed"
  /\ IF mine[w].items # {}
     THEN data' = [data EXCEPT ![w] = mine[w].items] /\ Go(w, "releasing")
     ELSE LET found == {p \in Posts : ~ grouped[p] /\ lock[p] \in {Free, Stale}}
          IN  /\ data' = [data EXCEPT ![w] = found]
              /\ Go(w, IF found = {} THEN "empty" ELSE "locking")
  /\ UNCHANGED <<store, provider, mine, seen, result,
                 bounds>>

LockPosts(w) ==
  /\ pc[w] = "locking"
  /\ lock' = [p \in Posts |-> IF p \in data[w] THEN data[w] ELSE lock[p]]
  /\ Go(w, "releasing")
  /\ UNCHANGED <<task, batch, grouped, saved, rawOf, provider, mine, local, bounds>>

\* The task is over when no post is left at all; it has no successor.
FoundNothing(w) ==
  /\ pc[w] = "empty"
  /\ task' = IF \A p \in Posts : grouped[p] THEN Absent ELSE Released(task)
  /\ Rest(w)
  /\ UNCHANGED <<batch, lock, grouped, saved, rawOf, provider, bounds>>

Release(w) ==
  /\ pc[w] = "releasing"
  /\ task' = Released(task)
  /\ Go(w, "handling")
  /\ UNCHANGED <<batch, lock, grouped, saved, rawOf, provider, mine, local, bounds>>
-----------------------------------------------------------------------------
(* make_post_grouping_batch: no batch is under way *)

NoBatch(w) == mine[w].raw = None /\ mine[w].id = None

\* None of the posts has any text: they are unlocked, and nothing is left to do.
NoRequests(w) ==
  /\ pc[w] = "handling" /\ NoBatch(w)
  /\ data[w] \subseteq scene.blank
  /\ lock' = Unlocked(data[w])
  /\ data' = [data EXCEPT ![w] = {}]
  /\ Go(w, "finishing")
  /\ UNCHANGED <<task, batch, grouped, saved, rawOf, provider, mine, seen, result,
                 bounds>>

NewBatch == CHOOSE b \in Batches : status[b] = "unused"

\* mutant: the posts for which there was no room are forgotten
SubmitSome(w) ==
  /\ pc[w] = "handling" /\ NoBatch(w)
  /\ \E S \in SUBSET (data[w] \ scene.blank) : LET b == NewBatch IN
       /\ b \in Batches /\ status[b] = "unused" /\ S # {} /\ Cardinality(S) <= PerBatch
       /\ lock' = Unlocked(data[w] \cap scene.blank)
       /\ status' = [status EXCEPT ![b] = "running"]
       /\ sent' = [sent EXCEPT ![b] = S]
       /\ mine' = [mine EXCEPT ![w] =
            [NoState EXCEPT !.status = "submitted", !.id = b, !.items = S]]
  /\ Go(w, "submitted")
  /\ UNCHANGED <<task, batch, grouped, saved, rawOf, answers, local, bounds>>

\* mutant: what is submitted stays pending
AllPending(w) ==
  /\ pc[w] = "handling" /\ NoBatch(w)
  /\ \E S \in SUBSET (data[w] \ scene.blank) : LET b == NewBatch IN
       /\ b \in Batches /\ status[b] = "unused" /\ Cardinality(S) = PerBatch
       /\ status' = [status EXCEPT ![b] = "running"]
       /\ sent' = [sent EXCEPT ![b] = S]
       /\ mine' = [mine EXCEPT ![w] =
            [NoState EXCEPT !.status = "submitted", !.id = b, !.items = S,
                            !.pending = data[w] \ scene.blank]]
  /\ Go(w, "submitted")
  /\ UNCHANGED <<task, batch, lock, grouped, saved, rawOf, answers, local, bounds>>

\* The posts come one after the other, in any order, until one has no room; those
\* without text that come before are unlocked, the others are pending.
Submit(w) ==
  /\ pc[w] = "handling" /\ NoBatch(w)
  /\ \E S \in SUBSET (data[w] \ scene.blank),
        skipped \in SUBSET (data[w] \cap scene.blank) :
       LET b == NewBatch
           rest == data[w] \ (S \cup skipped)
       IN  /\ b \in Batches /\ status[b] = "unused" /\ S # {}
           /\ Cardinality(S) <= PerBatch
           /\ rest = {} \/ (Cardinality(S) = PerBatch /\ rest \ scene.blank # {})
           /\ lock' = Unlocked(skipped)
           /\ status' = [status EXCEPT ![b] = "running"]
           /\ sent' = [sent EXCEPT ![b] = S]
           /\ mine' = [mine EXCEPT ![w] =
                [NoState EXCEPT !.status = "submitted", !.id = b, !.items = S,
                                !.pending = rest]]
  /\ Go(w, "submitted")
  /\ UNCHANGED <<task, batch, grouped, saved, rawOf, answers, local, bounds>>

\* The new state, or the one with the raw result, is stored; the handler returns
\* False.
SaveState(w) ==
  /\ pc[w] \in {"submitted", "fetched"}
  /\ StoreState(mine[w])
  /\ Go(w, "failing")
  /\ UNCHANGED <<task, lock, grouped, saved, rawOf, provider, mine, local, bounds>>
-----------------------------------------------------------------------------
(* make_post_grouping_batch: a batch is with the provider *)

Waits(w) == pc[w] = "handling" /\ mine[w].raw = None /\ mine[w].id # None

\* The last look is less than a minute old.
TooSoon(w) ==
  /\ Waits(w) /\ mine[w].checked
  /\ Go(w, "failing")
  /\ UNCHANGED <<store, provider, mine, local, bounds>>

Poll(w) ==
  /\ Waits(w)
  /\ mine' = [mine EXCEPT ![w].checked = TRUE]
  /\ StoreState(mine'[w])
  /\ Go(w, CASE status[mine[w].id] = "running" -> "failing"
             [] status[mine[w].id] = "failed"  -> "denied"
             [] OTHER                          -> "fetching")
  /\ UNCHANGED <<task, lock, grouped, saved, rawOf, provider, local, bounds>>

\* A new id.  One that no copy of the state has is as good: what is stored under it
\* is never found again.
Unnamed(r) == batch.raw # r /\ \A w \in Workers : mine[w].raw # r
NewRaw == CHOOSE r \in Raws : Unnamed(r)

\* store_batch_raw_results
Fetch(w) ==
  /\ pc[w] = "fetching"
  /\ LET r == NewRaw
     IN  /\ r \in Raws /\ Unnamed(r)
         /\ rawOf' = [rawOf EXCEPT ![r] = mine[w].id]
         /\ mine' = [mine EXCEPT ![w].status = "raw_pending", ![w].raw = r]
  /\ Go(w, "fetched")
  /\ UNCHANGED <<task, batch, lock, grouped, saved, provider, local, bounds>>

\* mutant: the batch's id stays
KeepId(s, st, next) ==
  [s EXCEPT !.status = st, !.raw = None, !.items = next, !.pending = {}]

\* The state without its batch: what was pending is what comes next.
Cleared(s, st, next) ==
  [s EXCEPT !.status = st, !.id = None, !.raw = None, !.items = next, !.pending = {}]

\* The batch failed, expired or was cancelled.
Denied(w) ==
  /\ pc[w] = "denied"
  /\ mine' = [mine EXCEPT ![w] = Cleared(@, "failed", @.pending)]
  /\ StoreState(mine'[w])
  /\ Go(w, "clearing")
  /\ UNCHANGED <<task, lock, grouped, saved, rawOf, provider, local, bounds>>

\* Its posts are unlocked.
ClearPosts(w) ==
  /\ pc[w] = "clearing"
  /\ lock' = Unlocked(data[w])
  /\ IF mine[w].items # {}
     THEN Go(w, "failing") /\ UNCHANGED data
     ELSE Go(w, "finishing") /\ data' = [data EXCEPT ![w] = {}]
  /\ UNCHANGED <<task, batch, grouped, saved, rawOf, provider, mine, seen, result,
                 bounds>>
-----------------------------------------------------------------------------
(* _process_post_grouping_raw *)

\* mutant: the raw result is taken out with the read
PopRaw(w) ==
  /\ pc[w] = "handling" /\ mine[w].raw # None
  /\ result' = [result EXCEPT ![w] = rawOf[mine[w].raw]]
  /\ rawOf' = [rawOf EXCEPT ![mine[w].raw] = None]
  /\ Go(w, IF rawOf[mine[w].raw] = None THEN "failing" ELSE "saving")
  /\ UNCHANGED <<task, batch, lock, grouped, saved, provider, mine, data, seen, bounds>>

LoadRaw(w) ==
  /\ pc[w] = "handling" /\ mine[w].raw # None
  /\ result' = [result EXCEPT ![w] = rawOf[mine[w].raw]]
  /\ Go(w, IF rawOf[mine[w].raw] = None THEN "failing"
           ELSE IF status[rawOf[mine[w].raw]] = "refused" THEN "refused" ELSE "saving")
  /\ UNCHANGED <<store, provider, mine, data, seen, bounds>>

\* Critical errors and no output: the posts are unlocked ...
UnlockRefused(w) ==
  /\ pc[w] = "refused"
  /\ lock' = Unlocked(data[w])
  /\ Go(w, "refusing")
  /\ UNCHANGED <<task, batch, grouped, saved, rawOf, provider, mine, local, bounds>>

\* ... and the state is cleared, of what is pending too; the raw document stays.
Refuse(w) ==
  /\ pc[w] = "refusing"
  /\ mine' = [mine EXCEPT ![w] = Cleared(@, "failed", {})]
  /\ StoreState(mine'[w])
  /\ data' = [data EXCEPT ![w] = {}]
  /\ Go(w, "finishing")
  /\ UNCHANGED <<task, lock, grouped, saved, rawOf, provider, seen, result, bounds>>

\* The posts of the task for which there is an answer.
Answered(w) == data[w] \cap answers[result[w]]

\* save_grouped_posts for each of them.  Its result is not looked at.
SaveGroupings(w) ==
  /\ pc[w] = "saving"
  /\ \E S \in SUBSET Answered(w) :
       /\ saved' = [p \in Posts |-> saved[p] \/ p \in S]
       /\ IF S = Answered(w)
          THEN UNCHANGED bounds
          ELSE Fault /\ unsaved' = unsaved \cup (Answered(w) \ S)
  /\ Go(w, "marking")
  /\ UNCHANGED <<task, batch, lock, grouped, rawOf, provider, mine, local>>

\* mutant: every post of the batch is marked
MarkAll(w) ==
  /\ pc[w] = "marking"
  /\ grouped' = [p \in Posts |-> grouped[p] \/ p \in data[w]]
  /\ lock' = Unlocked(data[w])
  /\ Go(w, "settling")
  /\ UNCHANGED <<task, batch, saved, rawOf, provider, mine, local, bounds>>

\* bulk_write: all are unlocked, those with an answer are grouped.
MarkPosts(w) ==
  /\ pc[w] = "marking"
  /\ grouped' = [p \in Posts |-> grouped[p] \/ p \in Answered(w)]
  /\ lock' = Unlocked(data[w])
  /\ Go(w, "settling")
  /\ UNCHANGED <<task, batch, saved, rawOf, provider, mine, local, bounds>>

\* What follows the raw result: the pending posts, or nothing.
Settled(s) == IF s.pending # {} THEN Cleared(s, "new", s.pending)
                                ELSE Cleared(s, "done", {})

\* The new state is stored ...
Settle(w) ==
  /\ pc[w] = "settling"
  /\ StoreState(Settled(mine[w]))
  /\ Go(w, "dropping")
  /\ UNCHANGED <<task, lock, grouped, saved, rawOf, provider, mine, local, bounds>>

\* ... and the raw document deleted.
DropRaw(w) ==
  /\ pc[w] = "dropping"
  /\ rawOf' = [rawOf EXCEPT ![mine[w].raw] = None]
  /\ mine' = [mine EXCEPT ![w] = Settled(@)]
  /\ IF mine[w].pending # {}
     THEN Go(w, "failing") /\ UNCHANGED data
     ELSE Go(w, "finishing") /\ data' = [data EXCEPT ![w] = {}]
  /\ UNCHANGED <<task, batch, lock, grouped, saved, provider, seen, result, bounds>>
-----------------------------------------------------------------------------
(* finish_task, and the other ways a run ends *)

\* The state is done: the task is deleted.
FinishDone(w) ==
  /\ pc[w] = "finishing" /\ mine[w].status = "done"
  /\ task' = Absent
  /\ Rest(w)
  /\ UNCHANGED <<batch, lock, grouped, saved, rawOf, provider, bounds>>

\* It is not: posts that the handler has left in the task's data are unlocked, and
\* marked unless the batch failed; the failure budget is cleared.
FinishRest(w) ==
  /\ pc[w] = "finishing" /\ mine[w].status # "done"
  /\ lock' = Unlocked(data[w])
  /\ grouped' = [p \in Posts |->
       grouped[p] \/ (p \in data[w] /\ mine[w].status # "failed")]
  /\ task' = BudgetCleared(task)
  /\ Rest(w)
  /\ UNCHANGED <<batch, saved, rawOf, provider, bounds>>

\* The handler returned False: release_failed_task.
Fail(w) ==
  /\ pc[w] = "failing"
  /\ task' = Failed(task, seen[w], Now)
  /\ Rest(w)
  /\ UNCHANGED <<batch, lock, grouped, saved, rawOf, provider, bounds>>

\* An exception in the handler or in finish_task.
Raise(w) ==
  /\ pc[w] \in Handling \cup {"finishing"}
  /\ Fault
  /\ Go(w, "failing")
  /\ UNCHANGED <<store, provider, mine, local, unsaved>>

Crash(w) ==
  /\ pc[w] # "idle"
  /\ Fault
  /\ Rest(w)
  /\ UNCHANGED <<store, provider, unsaved>>
-----------------------------------------------------------------------------
(* The provider, the user and time *)

\* A batch is completed, with an answer for every post.
Complete(b) ==
  /\ status[b] = "running"
  /\ status' = [status EXCEPT ![b] = "completed"]
  /\ answers' = [answers EXCEPT ![b] = sent[b]]
  /\ UNCHANGED <<store, sent, worker, bounds>>

\* It fails, expires or is cancelled; or it has only critical errors; or some posts
\* have no answer, or none that can be used.
Deny(b) ==
  /\ status[b] = "running"
  /\ Denial
  /\ \/ /\ \E st \in {"failed", "refused"} : status' = [status EXCEPT ![b] = st]
        /\ UNCHANGED answers
     \/ /\ status' = [status EXCEPT ![b] = "completed"]
        /\ \E S \in SUBSET sent[b] :
             S # sent[b] /\ answers' = [answers EXCEPT ![b] = S]
  /\ UNCHANGED <<store, sent, worker>>

\* The user has the tasks resumed.
Resume ==
  /\ Parked(task)
  /\ resumes < scene.resumes /\ resumes' = resumes + 1
  /\ task' = Resumed(task)
  /\ UNCHANGED <<batch, lock, grouped, saved, rawOf, provider, worker, scene,
                 unsaved, faults, denials>>

\* A lease outlasts get_task.
LeaseEnds ==
  /\ LiveRunning(task, Now)
  /\ \A w \in Workers : pc[w] \notin Taking
  /\ task' = [task EXCEPT !.lease = 0]
  /\ UNCHANGED <<batch, lock, grouped, saved, rawOf, provider, worker, bounds>>

BackoffEnds ==
  /\ task.backoff > Now
  /\ task' = [task EXCEPT !.backoff = 0]
  /\ UNCHANGED <<batch, lock, grouped, saved, rawOf, provider, worker, bounds>>

\* The locks that one update has taken are an hour old; no run of the handler takes
\* that long.
LocksAge(P) ==
  LET held == {p \in Posts : lock[p] = P}
  IN  /\ P # Free /\ held # {}
      /\ \A w \in Workers : held \cap data[w] = {}
      /\ lock' = [p \in Posts |-> IF p \in held THEN Stale ELSE lock[p]]
  /\ UNCHANGED <<task, batch, grouped, saved, rawOf, provider, worker, bounds>>
-----------------------------------------------------------------------------
Take(w) == Find(w) \/ LockPosts(w) \/ FoundNothing(w) \/ Release(w)

Handle(w) ==
  \/ NoRequests(w) \/ Submit(w) \/ SaveState(w)
  \/ TooSoon(w) \/ Poll(w) \/ Fetch(w) \/ Denied(w) \/ ClearPosts(w)
  \/ LoadRaw(w) \/ UnlockRefused(w) \/ Refuse(w)
  \/ SaveGroupings(w) \/ MarkPosts(w) \/ Settle(w) \/ DropRaw(w)

End(w) == FinishDone(w) \/ FinishRest(w) \/ Fail(w)

Next ==
  \/ \E w \in Workers :
       Claim(w) \/ Take(w) \/ Handle(w) \/ End(w) \/ Raise(w) \/ Crash(w)
  \/ \E b \in Batches : Complete(b) \/ Deny(b)
  \/ Resume \/ LeaseEnds \/ BackoffEnds
  \/ \E P \in SUBSET Posts : LocksAge(P)

Spec == Init /\ [][Next]_vars

\* The processes run, time passes, and a provider keeps to its completion window.
\* Nothing makes a user resume a task.
Fairness ==
  /\ WF_vars(\E w \in Workers : Claim(w))
  /\ \A w \in Workers : WF_vars(Take(w) \/ Handle(w) \/ End(w))
  /\ \A b \in Batches : WF_vars(Complete(b))
  /\ WF_vars(LeaseEnds) /\ WF_vars(BackoffEnds)
  /\ \A P \in SUBSET Posts : WF_vars(LocksAge(P))

FairSpec == Spec /\ Fairness
-----------------------------------------------------------------------------
(* Properties *)

Alone == \E w \in Workers : scene.crew = {w}

\* A post that says it is grouped has its grouping, whatever is refused, left
\* unanswered, or interrupted, and although finish_task marks whatever the handler
\* leaves in the task's data (save for a save that failed, which nobody looks at).
GroupedHasGrouping ==
  \A p \in Posts : grouped[p] => saved[p] \/ p \in unsaved

\* The state in the task document, which several runs and several workers write as
\* a whole, is never a mixture of two batches: the posts it names are those that
\* its batch was submitted for, and its raw result is that batch's.
StateOfOneBatch ==
  /\ batch.id # None => sent[batch.id] = batch.items
  /\ (batch.raw # None /\ rawOf[batch.raw] # None) => rawOf[batch.raw] = batch.id

\* A raw result is deleted only when its answers have been stored and marked, by
\* whichever of the workers that have read it is the first: what the provider was
\* paid for is not thrown away.
AnswersKept ==
  [][\A r \in Raws : (rawOf[r] # None /\ rawOf'[r] = None) =>
       \A p \in answers[rawOf[r]] : grouped[p]]_vars

\* The batches that a provider is paid for, or will be, for the sake of post p.
Paid(p) ==
  {b \in Batches : p \in sent[b] /\ (status[b] = "running" \/ p \in answers[b])}

\* A provider is not paid twice for a post that it has not denied, save once for each
\* crash or exception, which may come between the submission and the note of it.
\* (A second worker may take the same state while the claim is given back.)
PaidOnce ==
  Alone => \A p \in Posts : Cardinality(Paid(p)) <= 1 + faults

\* In the end every post with a text is grouped, or the task has used up its budget,
\* or the provider has denied a batch or an answer: a crash, an exception, a lock
\* that is left behind or a second worker with an old copy of the state does not
\* lose any.
EveryPostGrouped ==
  <>[](Parked(task) \/ denials > 0
         \/ \A p \in Posts \ scene.blank : grouped[p])

\* "Intermittent failures during a long batch run must not accumulate toward the
\* dead-letter threshold" (rsstag/tasks.py): when nothing fails, the task does not
\* end in the dead letter state.
NothingFailsNothingDies ==
  (faults = 0 /\ denials = 0) => task.status # "dead"
=============================================================================
