--------------------------- MODULE BatchTaskProofs ---------------------------
(***************************************************************************)
(* Proofs about BatchTask, for any number of posts, batches, raw results and  *)
(* workers, any room in a batch and any scenes.                               *)
(***************************************************************************)
EXTENDS BatchTask, FiniteSetTheorems, TLAPS

-----------------------------------------------------------------------------
(* Types. *)

\* Every update of the task document yields a document.
LEMMA UpdatesTyped ==
  ASSUME NEW d \in TaskDocs, NEW n \in Nat
  PROVE  /\ Claimed(d, Now, 1) \in TaskDocs
         /\ Released(d) \in TaskDocs
         /\ Failed(d, n, Now) \in TaskDocs
         /\ Enqueued \in TaskDocs
         /\ Absent \in TaskDocs
         /\ Resumed(d) \in TaskDocs
         /\ BudgetCleared(d) \in TaskDocs
         /\ [d EXCEPT !.lease = 0] \in TaskDocs
         /\ [d EXCEPT !.backoff = 0] \in TaskDocs
<1>1. Failed(d, n, Now) \in TaskDocs
  <2>1. Now + Backoff(n + 1) \in Nat /\ n + 1 \in Nat
    BY BackoffAssumption DEF Backoff, Now
  <2>2. FailedAs(d, n + 1, Now) \in TaskDocs
    <3>1. CASE n + 1 >= MaxAttempts
      BY <2>1, <3>1 DEF FailedAs, TaskDocs, Statuses, Frozen
    <3>2. CASE ~ (n + 1 >= MaxAttempts)
      BY <2>1, <3>2 DEF FailedAs, TaskDocs, Statuses, Idle, NoLease
    <3> QED BY <3>1, <3>2
  <2> QED BY <2>2 DEF Failed
<1>2. Claimed(d, Now, 1) \in TaskDocs
  <2>1. Now \in Nat /\ Now + 1 \in Nat
    BY DEF Now
  <2> QED BY <2>1 DEF Claimed, TaskDocs, Statuses
<1> QED BY <1>1, <1>2
  DEF Released, Enqueued, Absent, Resumed, BudgetCleared, TaskDocs, Statuses,
      Idle, Frozen, NoLease

\* What the handler makes of a state is a state.
LEMMA StatesTyped ==
  ASSUME NEW s \in BatchStates, NEW S \in SUBSET Posts
  PROVE  /\ NoState \in BatchStates
         /\ [s EXCEPT !.checked = TRUE] \in BatchStates
         /\ \A st \in {"new", "done", "failed"} : Cleared(s, st, S) \in BatchStates
         /\ Settled(s) \in BatchStates
         /\ \A P \in SUBSET Posts, b \in Batches :
              [NoState EXCEPT !.status = "submitted", !.id = b, !.items = S,
                              !.pending = P] \in BatchStates
BY DEF NoState, BatchStates, Cleared, Settled

LEMMA TypeStep == TypeOK /\ [Next]_vars => TypeOK'
<1> SUFFICES ASSUME TypeOK, [Next]_vars PROVE TypeOK'
  OBVIOUS
<1> USE DEF TypeOK, Go
<1>1. ASSUME NEW w \in Workers, Claim(w) PROVE TypeOK'
  <2>1. task' \in TaskDocs
    BY <1>1, UpdatesTyped DEF Claim
  <2> QED BY <1>1, <2>1 DEF Claim, Taking, TaskDocs, provider, bounds
<1>2. ASSUME NEW w \in Workers, Take(w) PROVE TypeOK'
  <2>1. CASE Find(w)
    <3>1. mine[w].items \in SUBSET Posts
      BY DEF BatchStates
    <3>2. data' \in [Workers -> SUBSET Posts]
      BY <2>1, <3>1 DEF Find
    <3>3. pc' \in [Workers -> Taking \cup Handling \cup {"idle", "finishing", "failing"}]
      BY <2>1 DEF Find, Taking
    <3> QED BY <2>1, <3>2, <3>3 DEF Find, store, provider, bounds
  <2>2. CASE LockPosts(w)
    BY <2>2 DEF LockPosts, Taking, provider, local, bounds
  <2>3. CASE FoundNothing(w)
    BY <2>3, UpdatesTyped, StatesTyped DEF FoundNothing, Rest, provider, bounds
  <2>4. CASE Release(w)
    BY <2>4, UpdatesTyped DEF Release, Handling, provider, local, bounds
  <2> QED BY <1>2, <2>1, <2>2, <2>3, <2>4 DEF Take
<1>3. ASSUME NEW w \in Workers, Handle(w) PROVE TypeOK'
  <2> mine[w] \in BatchStates
    OBVIOUS
  <2>1. CASE NoRequests(w)
    BY <2>1 DEF NoRequests, Unlocked, Free, provider, bounds
  <2>2. CASE Submit(w)
    <3>1. PICK S \in SUBSET (data[w] \ scene.blank),
               skipped \in SUBSET (data[w] \cap scene.blank) :
            /\ NewBatch \in Batches
            /\ lock' = Unlocked(skipped)
            /\ status' = [status EXCEPT ![NewBatch] = "running"]
            /\ sent' = [sent EXCEPT ![NewBatch] = S]
            /\ mine' = [mine EXCEPT ![w] =
                 [NoState EXCEPT !.status = "submitted", !.id = NewBatch, !.items = S,
                                 !.pending = data[w] \ (S \cup skipped)]]
      BY <2>2 DEF Submit
    <3>2. data[w] \subseteq Posts
      OBVIOUS
    <3>3. mine' \in [Workers -> BatchStates]
      BY <3>1, <3>2, StatesTyped
    <3>4. sent' \in [Batches -> SUBSET Posts]
      BY <3>1, <3>2
    <3>5. lock' \in [Posts -> (SUBSET Posts) \cup {Stale}]
      BY <3>1 DEF Unlocked, Free
    <3>6. status' \in [Batches -> {"unused", "running", "completed", "refused", "failed"}]
      BY <3>1
    <3> QED BY <2>2, <3>3, <3>4, <3>5, <3>6 DEF Submit, Handling, local, bounds
  <2>3. CASE SaveState(w)
    BY <2>3 DEF SaveState, StoreState, provider, local, bounds
  <2>4. CASE TooSoon(w)
    BY <2>4 DEF TooSoon, store, provider, local, bounds
  <2>5. CASE Poll(w)
    BY <2>5, StatesTyped DEF Poll, StoreState, Handling, provider, local, bounds
  <2>6. CASE Fetch(w)
    BY <2>6 DEF Fetch, BatchStates, Handling, provider, local, bounds
  <2>7. CASE Denied(w)
    <3>1. mine[w].pending \in SUBSET Posts
      BY DEF BatchStates
    <3>2. Cleared(mine[w], "failed", mine[w].pending) \in BatchStates
      BY <3>1, StatesTyped
    <3>3. mine' \in [Workers -> BatchStates] /\ batch' \in BatchStates
      BY <2>7, <3>2 DEF Denied, StoreState
    <3> QED BY <2>7, <3>3 DEF Denied, Handling, provider, local, bounds
  <2>8. CASE ClearPosts(w)
    BY <2>8 DEF ClearPosts, Unlocked, Free, provider, bounds
  <2>9. CASE LoadRaw(w)
    BY <2>9 DEF LoadRaw, BatchStates, Handling, store, provider, bounds
  <2>10. CASE UnlockRefused(w)
    BY <2>10 DEF UnlockRefused, Unlocked, Free, Handling, provider, local, bounds
  <2>11. CASE Refuse(w)
    BY <2>11, StatesTyped DEF Refuse, StoreState, provider, bounds
  <2>12. CASE SaveGroupings(w)
    BY <2>12 DEF SaveGroupings, Answered, Fault, Handling, provider, local, bounds
  <2>13. CASE MarkPosts(w)
    BY <2>13 DEF MarkPosts, Unlocked, Free, Handling, provider, local, bounds
  <2>14. CASE Settle(w)
    BY <2>14, StatesTyped DEF Settle, StoreState, Handling, provider, local, bounds
  <2>15. CASE DropRaw(w)
    BY <2>15, StatesTyped DEF DropRaw, provider, bounds
  <2> QED BY <1>3, <2>1, <2>2, <2>3, <2>4, <2>5, <2>6, <2>7, <2>8, <2>9, <2>10,
             <2>11, <2>12, <2>13, <2>14, <2>15 DEF Handle
<1>4. ASSUME NEW w \in Workers, End(w) PROVE TypeOK'
  <2>1. CASE FinishDone(w)
    BY <2>1, UpdatesTyped, StatesTyped DEF FinishDone, Rest, provider, bounds
  <2>2. CASE FinishRest(w)
    BY <2>2, UpdatesTyped, StatesTyped DEF FinishRest, Unlocked, Free, Rest, provider, bounds
  <2>3. CASE Fail(w)
    BY <2>3, UpdatesTyped, StatesTyped DEF Fail, Rest, provider, bounds
  <2> QED BY <1>4, <2>1, <2>2, <2>3 DEF End
<1>5. ASSUME NEW w \in Workers, Raise(w) \/ Crash(w) PROVE TypeOK'
  <2>1. CASE Raise(w)
    <3>1. faults' \in Nat
      BY <2>1 DEF Raise, Fault
    <3> QED BY <2>1, <3>1 DEF Raise, Fault, store, provider, local
  <2>2. CASE Crash(w)
    <3>1. faults' \in Nat
      BY <2>2 DEF Crash, Fault
    <3> QED BY <2>2, <3>1, StatesTyped DEF Crash, Fault, Rest, store, provider
  <2> QED BY <1>5, <2>1, <2>2
<1>6. ASSUME NEW b \in Batches, Complete(b) \/ Deny(b) PROVE TypeOK'
  BY <1>6 DEF Complete, Deny, Denial, store, worker, bounds
<1>7. CASE Resume \/ LeaseEnds \/ BackoffEnds
  <2>1. task' \in TaskDocs
    BY <1>7, UpdatesTyped DEF Resume, LeaseEnds, BackoffEnds
  <2> QED BY <1>7, <2>1 DEF Resume, LeaseEnds, BackoffEnds, provider, worker, bounds
<1>8. ASSUME NEW P \in SUBSET Posts, LocksAge(P) PROVE TypeOK'
  BY <1>8 DEF LocksAge, provider, worker, bounds
<1>9. CASE UNCHANGED vars
  BY <1>9 DEF vars
<1> QED BY <1>1, <1>2, <1>3, <1>4, <1>5, <1>6, <1>7, <1>8, <1>9 DEF Next

\* Type correctness: the task, its state, the posts, the batches and every worker's
\* copies keep their types through all steps of rsstag/workers/llm_worker.py.
THEOREM TypeCorrect == Spec => []TypeOK
<1>1. Init => TypeOK
  <2> SUFFICES ASSUME Init PROVE TypeOK
    OBVIOUS
  <2>1. task \in TaskDocs
    BY DEF Init, Enqueued, TaskDocs, Statuses, Idle, NoLease
  <2>2. NoState \in BatchStates
    BY DEF NoState, BatchStates
  <2>3. batch \in BatchStates /\ mine \in [Workers -> BatchStates]
    BY <2>2 DEF Init
  <2> QED BY <2>1, <2>3 DEF Init, TypeOK, Free
<1> QED BY <1>1, TypeStep, PTL DEF Spec

-----------------------------------------------------------------------------
(* The state that is stored, and those that workers have copies of, are of one
   batch.  A batch is submitted for posts that nobody has in a state yet, and a raw
   result gets an id that no state has, so no step makes a copy untrue. *)

\* What StateOfOneBatch says of the stored state; and the batch was submitted.
Fits(s) ==
  /\ s.id # None => status[s.id] # "unused" /\ sent[s.id] = s.items
  /\ (s.raw # None /\ rawOf[s.raw] # None) => rawOf[s.raw] = s.id

AllFit == Fits(batch) /\ \A w \in Workers : Fits(mine[w])

\* The same of the database after a step.
StillFits(s) ==
  /\ s.id # None => status'[s.id] # "unused" /\ sent'[s.id] = s.items
  /\ (s.raw # None /\ rawOf'[s.raw] # None) => rawOf'[s.raw] = s.id

\* A state that fitted goes on to do so: a batch is submitted under an id that is
\* unused, and a raw result is deleted, or stored under an id that the state has not.
LEMMA StatesStillFit ==
  ASSUME TypeOK, [Next]_vars, NEW s \in BatchStates, Fits(s)
  PROVE  StillFits(s) \/ \E w \in Workers : Fetch(w) /\ NewRaw = s.raw
<1>1. CASE UNCHANGED <<status, sent, rawOf>>
  BY <1>1 DEF Fits, StillFits
<1>2. ASSUME NEW w \in Workers, Submit(w) PROVE StillFits(s)
  <2>1. PICK S \in SUBSET (data[w] \ scene.blank) :
          /\ NewBatch \in Batches /\ status[NewBatch] = "unused"
          /\ status' = [status EXCEPT ![NewBatch] = "running"]
          /\ sent' = [sent EXCEPT ![NewBatch] = S]
    BY <1>2 DEF Submit
  <2> QED BY <1>2, <2>1 DEF Submit, TypeOK, Fits, StillFits, BatchStates
<1>3. ASSUME NEW w \in Workers, Fetch(w), NewRaw # s.raw PROVE StillFits(s)
  BY <1>3 DEF Fetch, provider, TypeOK, Fits, StillFits, BatchStates
<1>4. ASSUME NEW w \in Workers, DropRaw(w) PROVE StillFits(s)
  BY <1>4 DEF DropRaw, provider, TypeOK, Fits, StillFits, BatchStates
<1>5. ASSUME NEW b \in Batches, Complete(b) \/ Deny(b) PROVE StillFits(s)
  <2>1. status' \in [Batches -> {"running", "unused", "completed", "refused", "failed"}]
        /\ \A c \in Batches : status[c] # "unused" => status'[c] # "unused"
    BY <1>5 DEF Complete, Deny, TypeOK
  <2> QED BY <1>5, <2>1 DEF Complete, Deny, store, Fits, StillFits, BatchStates
<1>6. \/ UNCHANGED <<status, sent, rawOf>>
      \/ \E w \in Workers : Submit(w) \/ Fetch(w) \/ DropRaw(w)
      \/ \E b \in Batches : Complete(b) \/ Deny(b)
  <2>1. ASSUME NEW w \in Workers, Claim(w) \/ Take(w) \/ End(w)
        PROVE UNCHANGED <<status, sent, rawOf>>
    BY <2>1 DEF Claim, Take, Find, LockPosts, FoundNothing, Release, End, FinishDone,
                FinishRest, Fail, store, provider
  <2>2. ASSUME NEW w \in Workers, Handle(w), ~ Submit(w), ~ Fetch(w), ~ DropRaw(w)
        PROVE UNCHANGED <<status, sent, rawOf>>
    BY <2>2 DEF Handle, NoRequests, SaveState, TooSoon, Poll, Denied, ClearPosts,
                LoadRaw, UnlockRefused, Refuse, SaveGroupings, MarkPosts, Settle,
                store, provider
  <2>3. ASSUME NEW w \in Workers, Raise(w) \/ Crash(w)
        PROVE UNCHANGED <<status, sent, rawOf>>
    BY <2>3 DEF Raise, Crash, store, provider
  <2>4. ASSUME Resume \/ LeaseEnds \/ BackoffEnds \/ \E P \in SUBSET Posts : LocksAge(P)
        PROVE UNCHANGED <<status, sent, rawOf>>
    BY <2>4 DEF Resume, LeaseEnds, BackoffEnds, LocksAge, provider
  <2>5. CASE UNCHANGED vars
    BY <2>5 DEF vars
  <2> QED BY <2>1, <2>2, <2>3, <2>4, <2>5 DEF Next
<1> QED BY <1>1, <1>2, <1>3, <1>4, <1>5, <1>6

\* The stored state is kept or replaced by one that a worker has made of its own; a
\* worker's is kept, or is the stored one, or one that it has made.
LEMMA FitStep == TypeOK /\ AllFit /\ [Next]_vars => AllFit'
<1> SUFFICES ASSUME TypeOK, AllFit, [Next]_vars PROVE AllFit'
  OBVIOUS
<1>1. batch \in BatchStates /\ \A w \in Workers : mine[w] \in BatchStates
  BY DEF TypeOK
<1>2. \A w \in Workers : Fetch(w) => Unnamed(NewRaw)
  BY DEF Fetch
<1>3. StillFits(batch)
  BY <1>1, <1>2, StatesStillFit DEF AllFit, Unnamed
<1>4. \A w \in Workers : StillFits(mine[w])
  BY <1>1, <1>2, StatesStillFit DEF AllFit, Unnamed
<1>5. StillFits(NoState)
  BY DEF StillFits, NoState
<1>6. \A s \in BatchStates : StillFits(Settled(s))
                             /\ \A st, S : StillFits(Cleared(s, st, S))
  <2>1. ASSUME NEW s \in BatchStates, NEW st, NEW S PROVE StillFits(Cleared(s, st, S))
    <3>1. Cleared(s, st, S).id = None /\ Cleared(s, st, S).raw = None
      BY DEF Cleared, BatchStates
    <3> QED BY <3>1 DEF StillFits
  <2> QED BY <2>1 DEF Settled
<1>7. ASSUME UNCHANGED <<batch, mine>> PROVE AllFit'
  BY <1>3, <1>4, <1>7 DEF AllFit, Fits, StillFits
<1>8. ASSUME NEW w \in Workers, NEW s, StillFits(s), mine' = [mine EXCEPT ![w] = s],
             batch' = batch \/ batch' = s
      PROVE  AllFit'
  BY <1>3, <1>4, <1>8 DEF AllFit, Fits, StillFits, TypeOK
<1>9. ASSUME NEW s, StillFits(s), batch' = s, mine' = mine
      PROVE  AllFit'
  BY <1>3, <1>4, <1>9 DEF AllFit, Fits, StillFits
<1>10. ASSUME NEW w \in Workers, Claim(w) PROVE AllFit'
  BY <1>10, <1>3, <1>8 DEF Claim
<1>11. ASSUME NEW w \in Workers, Take(w) PROVE AllFit'
  <2>1. CASE FoundNothing(w)
    BY <2>1, <1>5, <1>8 DEF FoundNothing, Rest
  <2> QED BY <1>11, <2>1, <1>7
    DEF Take, Find, LockPosts, FoundNothing, Release, store
<1>12. ASSUME NEW w \in Workers, Handle(w) PROVE AllFit'
  <2> DEFINE m == mine[w]
  <2>1. CASE Submit(w)
    <3>1. PICK S, rest :
            /\ NewBatch \in Batches
            /\ status' = [status EXCEPT ![NewBatch] = "running"]
            /\ sent' = [sent EXCEPT ![NewBatch] = S]
            /\ mine' = [mine EXCEPT ![w] =
                 [NoState EXCEPT !.status = "submitted", !.id = NewBatch, !.items = S,
                                 !.pending = rest]]
            /\ batch' = batch
      BY <2>1 DEF Submit
    <3>2. StillFits([NoState EXCEPT !.status = "submitted", !.id = NewBatch, !.items = S,
                                    !.pending = rest])
      BY <3>1 DEF StillFits, NoState, TypeOK
    <3> QED BY <3>1, <3>2, <1>8
  <2>2. CASE Poll(w)
    <3>1. StillFits([m EXCEPT !.checked = TRUE])
      BY <1>1, <1>4 DEF StillFits, BatchStates
    <3>2. mine' = [mine EXCEPT ![w] = [m EXCEPT !.checked = TRUE]]
          /\ (batch' = batch \/ batch' = [m EXCEPT !.checked = TRUE])
      BY <2>2 DEF Poll, StoreState, TypeOK
    <3> QED BY <3>1, <3>2, <1>8
  <2>3. CASE Fetch(w)
    <3>1. StillFits([m EXCEPT !.status = "raw_pending", !.raw = NewRaw])
      BY <2>3, <1>1, <1>4 DEF Fetch, StillFits, provider, BatchStates, TypeOK
    <3>2. mine' = [mine EXCEPT ![w] = [m EXCEPT !.status = "raw_pending", !.raw = NewRaw]]
          /\ batch' = batch
      BY <2>3 DEF Fetch, TypeOK
    <3> QED BY <3>1, <3>2, <1>8
  <2>4. CASE Denied(w)
    BY <2>4, <1>1, <1>6, <1>8 DEF Denied, StoreState, TypeOK
  <2>5. CASE Refuse(w)
    BY <2>5, <1>1, <1>6, <1>8 DEF Refuse, StoreState, TypeOK
  <2>6. CASE DropRaw(w)
    BY <2>6, <1>1, <1>6, <1>8 DEF DropRaw
  <2>7. CASE SaveState(w)
    BY <2>7, <1>4, <1>7, <1>9 DEF SaveState, StoreState
  <2>8. CASE Settle(w)
    BY <2>8, <1>1, <1>6, <1>7, <1>9 DEF Settle, StoreState
  <2> QED BY <1>12, <2>1, <2>2, <2>3, <2>4, <2>5, <2>6, <2>7, <2>8, <1>7
    DEF Handle, NoRequests, TooSoon, ClearPosts, LoadRaw, UnlockRefused,
        SaveGroupings, MarkPosts, store
<1>13. ASSUME NEW w \in Workers, End(w) PROVE AllFit'
  BY <1>13, <1>5, <1>8 DEF End, FinishDone, FinishRest, Fail, Rest
<1>14. ASSUME NEW w \in Workers, Raise(w) \/ Crash(w) PROVE AllFit'
  BY <1>14, <1>5, <1>7, <1>8 DEF Raise, Crash, Rest, store
<1>15. ASSUME NEW b \in Batches, Complete(b) \/ Deny(b) PROVE AllFit'
  BY <1>15, <1>7 DEF Complete, Deny, store, worker
<1>16. ASSUME Resume \/ LeaseEnds \/ BackoffEnds \/ \E P \in SUBSET Posts : LocksAge(P)
       PROVE AllFit'
  BY <1>16, <1>7 DEF Resume, LeaseEnds, BackoffEnds, LocksAge, worker
<1>17. CASE UNCHANGED vars
  BY <1>17, <1>7 DEF vars
<1> QED BY <1>10, <1>11, <1>12, <1>13, <1>14, <1>15, <1>16, <1>17 DEF Next

LEMMA AlwaysFit == Spec => [](TypeOK /\ AllFit)
<1>1. Init => AllFit
  <2> SUFFICES ASSUME Init PROVE AllFit
    OBVIOUS
  <2>1. batch = NoState /\ \A w \in Workers : mine[w] = NoState
    BY DEF Init
  <2>2. NoState.id = None /\ NoState.raw = None
    BY DEF NoState
  <2> QED BY <2>1, <2>2 DEF AllFit, Fits
<1> QED BY <1>1, FitStep, TypeCorrect, PTL DEF Spec

\* The `batch` field that several runs and workers write as a whole is never a mixture
\* of two batches.
THEOREM OneBatch == Spec => []StateOfOneBatch
<1>1. TypeOK /\ AllFit => StateOfOneBatch
  BY DEF AllFit, Fits, StateOfOneBatch
<1> QED BY <1>1, AlwaysFit, PTL

-----------------------------------------------------------------------------
(* A post is marked by MarkPosts, which has an answer for it that SaveGroupings has
   seen too, as a batch whose raw result is read has got all its answers; or it would
   be by FinishRest, if the handler ever left it in the task's data. *)

\* The batch is over.
Over(b) == b \in Batches /\ status[b] \in {"completed", "refused"}

RawIsOver == \A r \in Raws : rawOf[r] # None => Over(rawOf[r])

InHand(w) ==
  /\ pc[w] = "fetching" => Over(mine[w].id)
  /\ pc[w] \in {"saving", "marking"} => Over(result[w])
  /\ pc[w] = "marking" => \A p \in Answered(w) : saved[p] \/ p \in unsaved
  /\ pc[w] = "finishing" => data[w] = {}

HandlerInv == RawIsOver /\ (\A w \in Workers : InHand(w)) /\ GroupedHasGrouping

LEMMA HandlerStep == TypeOK /\ AllFit /\ HandlerInv /\ [Next]_vars => HandlerInv'
<1> SUFFICES ASSUME TypeOK, AllFit, HandlerInv, [Next]_vars PROVE HandlerInv'
  OBVIOUS
<1> USE DEF TypeOK, Go
\* A step of a worker that leaves the provider and the groupings alone.
<1>1. ASSUME NEW w \in Workers, InHand(w)',
             UNCHANGED <<status, answers, saved, unsaved, grouped>>,
             rawOf' = rawOf \/ \E r \in Raws : rawOf' = [rawOf EXCEPT ![r] = None],
             \A v \in Workers \ {w} :
               pc'[v] = pc[v] /\ mine'[v] = mine[v] /\ data'[v] = data[v]
               /\ result'[v] = result[v]
      PROVE  HandlerInv'
  <2>1. RawIsOver'
    BY <1>1 DEF HandlerInv, RawIsOver, Over
  <2>2. \A v \in Workers : InHand(v)'
    BY <1>1 DEF HandlerInv, InHand, Over, Answered
  <2> QED BY <2>1, <2>2, <1>1 DEF HandlerInv, GroupedHasGrouping
<1>2. ASSUME NEW w \in Workers, Claim(w) \/ Take(w) PROVE HandlerInv'
  <2>1. UNCHANGED <<status, answers, saved, unsaved, grouped, rawOf>>
    BY <1>2 DEF Claim, Take, Find, LockPosts, FoundNothing, Release, store, provider, bounds
  <2>2. pc'[w] \in {"claimed", "locking", "empty", "releasing", "idle", "handling"}
    BY <1>2 DEF Claim, Take, Find, LockPosts, FoundNothing, Release, Rest
  <2>3. \A v \in Workers \ {w} : pc'[v] = pc[v] /\ mine'[v] = mine[v] /\ data'[v] = data[v]
                                 /\ result'[v] = result[v]
    BY <1>2 DEF Claim, Take, Find, LockPosts, FoundNothing, Release, Rest, local
  <2> QED BY <1>1, <2>1, <2>2, <2>3 DEF InHand
<1>3. ASSUME NEW w \in Workers, Handle(w) PROVE HandlerInv'
  <2>1. CASE NoRequests(w)
    BY <2>1, <1>1 DEF NoRequests, InHand, provider, bounds
  <2>2. CASE Submit(w)
    <3>1. NewBatch \in Batches /\ status[NewBatch] = "unused"
          /\ status' = [status EXCEPT ![NewBatch] = "running"]
          /\ pc' = [pc EXCEPT ![w] = "submitted"]
      BY <2>2 DEF Submit
    <3>2. \A b : Over(b) => Over(b)'
      BY <3>1 DEF Over
    <3>3. \A v \in Workers \ {w} : mine'[v] = mine[v]
      BY <2>2 DEF Submit
    <3>4. \A v \in Workers : InHand(v)'
      BY <2>2, <3>1, <3>2, <3>3 DEF Submit, HandlerInv, InHand, Answered, Over, local, bounds
    <3> QED BY <2>2, <3>2, <3>4 DEF Submit, HandlerInv, RawIsOver, Over, GroupedHasGrouping, bounds
  <2>3. CASE SaveState(w) \/ TooSoon(w)
    BY <2>3, <1>1 DEF SaveState, TooSoon, InHand, store, provider, local, bounds
  <2>4. CASE Poll(w)
    <3>1. pc'[w] = "fetching" => Over(mine[w].id)'
      <4>1. mine[w].id \in Batches /\ status[mine[w].id] # "unused"
        BY <2>4 DEF Poll, Waits, AllFit, Fits, BatchStates
      <4>2. mine'[w].id = mine[w].id
        BY <2>4 DEF Poll, BatchStates
      <4>3. pc'[w] = "fetching" => status[mine[w].id] \notin {"running", "failed"}
        BY <2>4 DEF Poll
      <4> QED BY <2>4, <4>1, <4>2, <4>3 DEF Poll, Over, provider
    <3>2. pc'[w] \in {"failing", "denied", "fetching"}
      BY <2>4 DEF Poll
    <3> QED BY <2>4, <3>1, <3>2, <1>1 DEF Poll, InHand, provider, local, bounds
  <2>5. CASE Fetch(w)
    <3>1. pc[w] = "fetching" /\ Over(mine[w].id)
          /\ rawOf' = [rawOf EXCEPT ![NewRaw] = mine[w].id]
      BY <2>5 DEF Fetch, HandlerInv, InHand
    <3>2. RawIsOver'
      BY <2>5, <3>1 DEF Fetch, HandlerInv, RawIsOver, Over, provider
    <3>3. \A v \in Workers : InHand(v)'
      BY <2>5 DEF Fetch, HandlerInv, InHand, Over, Answered, provider, local, bounds
    <3> QED BY <2>5, <3>2, <3>3 DEF Fetch, HandlerInv, GroupedHasGrouping, bounds
  <2>6. CASE Denied(w) \/ UnlockRefused(w)
    BY <2>6, <1>1 DEF Denied, UnlockRefused, InHand, provider, local, bounds
  <2>7. CASE ClearPosts(w) \/ Refuse(w)
    BY <2>7, <1>1 DEF ClearPosts, Refuse, InHand, provider, bounds
  <2>8. CASE LoadRaw(w)
    <3>1. pc'[w] = "saving" => Over(result[w])'
      BY <2>8 DEF LoadRaw, HandlerInv, RawIsOver, Over, BatchStates, store, provider
    <3>2. pc'[w] \in {"failing", "refused", "saving"}
      BY <2>8 DEF LoadRaw
    <3> QED BY <2>8, <3>1, <3>2, <1>1 DEF LoadRaw, InHand, store, provider, bounds
  <2>9. CASE SaveGroupings(w)
    <3>1. PICK S \in SUBSET Answered(w) :
            /\ saved' = [p \in Posts |-> saved[p] \/ p \in S]
            /\ \/ S = Answered(w) /\ unsaved' = unsaved
               \/ unsaved' = unsaved \cup (Answered(w) \ S)
      BY <2>9 DEF SaveGroupings, bounds
    <3>2. \A p \in Posts : saved[p] \/ p \in unsaved => saved'[p] \/ p \in unsaved'
      BY <3>1
    <3>3. \A p \in Answered(w) : saved'[p] \/ p \in unsaved'
      BY <3>1 DEF Answered
    <3>4. pc[w] = "saving" /\ pc' = [pc EXCEPT ![w] = "marking"]
          /\ UNCHANGED <<grouped, rawOf, status, answers, mine, data, result>>
      BY <2>9 DEF SaveGroupings, provider, local
    <3>5. \A v \in Workers : Answered(v)' = Answered(v)
      BY <3>4 DEF Answered
    <3>6. \A v \in Workers : Answered(v) \subseteq Posts
      BY DEF Answered
    <3>7. \A v \in Workers : InHand(v)'
      BY <3>2, <3>3, <3>4, <3>5, <3>6 DEF HandlerInv, InHand, Over
    <3> QED BY <3>2, <3>4, <3>7 DEF HandlerInv, RawIsOver, Over, GroupedHasGrouping
  <2>10. CASE MarkPosts(w)
    <3>1. pc[w] = "marking" /\ grouped' = [p \in Posts |-> grouped[p] \/ p \in Answered(w)]
          /\ pc' = [pc EXCEPT ![w] = "settling"]
          /\ UNCHANGED <<saved, unsaved, rawOf, status, answers, mine, data, result>>
      BY <2>10 DEF MarkPosts, provider, local, bounds
    <3>2. GroupedHasGrouping'
      BY <3>1 DEF HandlerInv, InHand, GroupedHasGrouping
    <3>3. \A v \in Workers : InHand(v)'
      BY <3>1 DEF HandlerInv, InHand, Over, Answered
    <3> QED BY <3>1, <3>2, <3>3 DEF HandlerInv, RawIsOver, Over
  <2>11. CASE Settle(w)
    BY <2>11, <1>1 DEF Settle, InHand, provider, local, bounds
  <2>12. CASE DropRaw(w)
    <3>1. rawOf' = rawOf \/ \E r \in Raws : rawOf' = [rawOf EXCEPT ![r] = None]
      BY <2>12 DEF DropRaw
    <3>2. InHand(w)'
      BY <2>12 DEF DropRaw, InHand
    <3> QED BY <2>12, <3>1, <3>2, <1>1 DEF DropRaw, provider, bounds
  <2> QED BY <1>3, <2>1, <2>2, <2>3, <2>4, <2>5, <2>6, <2>7, <2>8, <2>9, <2>10,
             <2>11, <2>12 DEF Handle
<1>4. ASSUME NEW w \in Workers, End(w) PROVE HandlerInv'
  <2>1. CASE FinishDone(w) \/ Fail(w)
    BY <2>1, <1>1 DEF FinishDone, Fail, Rest, InHand, provider, bounds
  <2>2. CASE FinishRest(w)
    <3>1. grouped' = grouped
      BY <2>2 DEF FinishRest, HandlerInv, InHand
    <3> QED BY <2>2, <3>1, <1>1 DEF FinishRest, Rest, InHand, provider, bounds
  <2> QED BY <1>4, <2>1, <2>2 DEF End
<1>5. ASSUME NEW w \in Workers, Raise(w) \/ Crash(w) PROVE HandlerInv'
  BY <1>5, <1>1 DEF Raise, Crash, Rest, InHand, store, provider, local
<1>6. ASSUME NEW b \in Batches, Complete(b) \/ Deny(b) PROVE HandlerInv'
  <2>1. /\ status[b] = "running"
        /\ \A c \in Batches \ {b} : status'[c] = status[c] /\ answers'[c] = answers[c]
    BY <1>6 DEF Complete, Deny
  <2>2. UNCHANGED <<grouped, saved, unsaved, rawOf, pc, mine, data, result>>
    BY <1>6 DEF Complete, Deny, Denial, store, worker, bounds
  <2>3. \A c : Over(c) => Over(c)' /\ answers'[c] = answers[c]
    BY <2>1 DEF Over
  <2>4. \A w \in Workers : InHand(w)'
    BY <2>2, <2>3 DEF HandlerInv, InHand, Answered, Over
  <2> QED BY <2>2, <2>3, <2>4 DEF HandlerInv, RawIsOver, Over, GroupedHasGrouping
<1>7. ASSUME \/ Resume \/ LeaseEnds \/ BackoffEnds \/ \E P \in SUBSET Posts : LocksAge(P)
             \/ UNCHANGED vars
      PROVE  HandlerInv'
  <2>1. UNCHANGED <<grouped, saved, unsaved, rawOf, status, answers, pc, mine, data, result>>
    BY <1>7 DEF Resume, LeaseEnds, BackoffEnds, LocksAge, provider, worker, bounds, vars
  <2> QED BY <2>1 DEF HandlerInv, RawIsOver, InHand, Over, Answered, GroupedHasGrouping
<1> QED BY <1>2, <1>3, <1>4, <1>5, <1>6, <1>7 DEF Next

\* A post that is marked as grouped has its grouping, unless a save failed that nobody
\* looks at.
THEOREM GroupingsExist == Spec => []GroupedHasGrouping
<1>1. Init => HandlerInv
  BY DEF Init, HandlerInv, RawIsOver, InHand, GroupedHasGrouping
<1>2. HandlerInv => GroupedHasGrouping
  BY DEF HandlerInv
<1> QED BY <1>1, <1>2, HandlerStep, AlwaysFit, PTL DEF Spec

-----------------------------------------------------------------------------
(* A raw result goes with DropRaw, whose worker has marked the posts of the batch
   that it had read: its data are those that the batch was submitted for, since the
   state it has a copy of names both. *)

AnswersSent == \A b \in Batches :
  answers[b] \subseteq sent[b] /\ (status[b] = "unused" => answers[b] = {})

\* Worker w has the posts that its state names, and has marked those with an answer.
Settles(w) ==
  /\ pc[w] \in {"locking", "releasing", "handling", "saving", "marking"}
       => mine[w].items \subseteq data[w]
  /\ pc[w] \in {"saving", "marking", "settling", "dropping"}
       => result[w] = mine[w].id /\ Over(result[w])
  /\ pc[w] \in {"settling", "dropping"}
       => \A p \in answers[result[w]] : grouped[p]

SettleInv == AnswersSent /\ \A w \in Workers : Settles(w)

\* What is over gets no other answers, and what is grouped stays so.
LEMMA OverAndGrouped ==
  ASSUME TypeOK, HandlerInv, [Next]_vars
  PROVE  /\ \A b : Over(b) => Over(b)' /\ answers'[b] = answers[b]
         /\ \A p \in Posts : grouped[p] => grouped'[p]
<1> USE DEF TypeOK
<1>1. ASSUME UNCHANGED <<status, answers>> PROVE \A b : Over(b) => Over(b)' /\ answers'[b] = answers[b]
  BY <1>1 DEF Over
<1>2. ASSUME NEW w \in Workers, Claim(w) \/ Take(w) \/ End(w) \/ Raise(w) \/ Crash(w)
      PROVE UNCHANGED <<status, answers>> /\ \A p \in Posts : grouped[p] => grouped'[p]
  BY <1>2 DEF Claim, Take, Find, LockPosts, FoundNothing, Release, End, FinishDone,
              FinishRest, Fail, Raise, Crash, store, provider
<1>3. ASSUME NEW w \in Workers, Handle(w), ~ Submit(w)
      PROVE UNCHANGED <<status, answers>> /\ \A p \in Posts : grouped[p] => grouped'[p]
  BY <1>3 DEF Handle, NoRequests, SaveState, TooSoon, Poll, Fetch, Denied, ClearPosts,
              LoadRaw, UnlockRefused, Refuse, SaveGroupings, MarkPosts, Settle, DropRaw,
              store, provider
<1>4. ASSUME NEW w \in Workers, Submit(w)
      PROVE  /\ \A b : Over(b) => Over(b)' /\ answers'[b] = answers[b]
             /\ grouped' = grouped
  BY <1>4 DEF Submit, Over
<1>5. ASSUME NEW b \in Batches, Complete(b) \/ Deny(b)
      PROVE  /\ \A c : Over(c) => Over(c)' /\ answers'[c] = answers[c]
             /\ grouped' = grouped
  <2>1. /\ status[b] = "running"
        /\ \A c \in Batches \ {b} : status'[c] = status[c] /\ answers'[c] = answers[c]
    BY <1>5 DEF Complete, Deny
  <2>2. grouped' = grouped
    BY <1>5 DEF Complete, Deny, store
  <2> QED BY <2>1, <2>2 DEF Over
<1>6. ASSUME \/ Resume \/ LeaseEnds \/ BackoffEnds \/ \E P \in SUBSET Posts : LocksAge(P)
             \/ UNCHANGED vars
      PROVE  UNCHANGED <<status, answers, grouped>>
  BY <1>6 DEF Resume, LeaseEnds, BackoffEnds, LocksAge, provider, vars
<1> QED BY <1>1, <1>2, <1>3, <1>4, <1>5, <1>6 DEF Next

LEMMA AnswersSentStep == TypeOK /\ AnswersSent /\ [Next]_vars => AnswersSent'
<1> SUFFICES ASSUME TypeOK, AnswersSent, [Next]_vars PROVE AnswersSent'
  OBVIOUS
<1> USE DEF TypeOK
<1>1. ASSUME UNCHANGED <<status, sent, answers>> PROVE AnswersSent'
  BY <1>1 DEF AnswersSent
<1>2. ASSUME NEW w \in Workers, Submit(w) PROVE AnswersSent'
  BY <1>2 DEF Submit, AnswersSent
<1>3. ASSUME NEW b \in Batches, Complete(b) PROVE AnswersSent'
  BY <1>3 DEF Complete, AnswersSent
<1>4. ASSUME NEW b \in Batches, Deny(b) PROVE AnswersSent'
  BY <1>4 DEF Deny, AnswersSent
<1>5. ASSUME NEW w \in Workers, Claim(w) \/ Take(w) \/ End(w) \/ Raise(w) \/ Crash(w)
      PROVE  UNCHANGED <<status, sent, answers>>
  BY <1>5 DEF Claim, Take, Find, LockPosts, FoundNothing, Release, End, FinishDone,
              FinishRest, Fail, Raise, Crash, store, provider
<1>6. ASSUME NEW w \in Workers, Handle(w), ~ Submit(w)
      PROVE  UNCHANGED <<status, sent, answers>>
  BY <1>6 DEF Handle, NoRequests, SaveState, TooSoon, Poll, Fetch, Denied, ClearPosts,
              LoadRaw, UnlockRefused, Refuse, SaveGroupings, MarkPosts, Settle, DropRaw,
              store, provider
<1>7. ASSUME \/ Resume \/ LeaseEnds \/ BackoffEnds \/ \E P \in SUBSET Posts : LocksAge(P)
             \/ UNCHANGED vars
      PROVE  UNCHANGED <<status, sent, answers>>
  BY <1>7 DEF Resume, LeaseEnds, BackoffEnds, LocksAge, provider, vars
<1> QED BY <1>1, <1>2, <1>3, <1>4, <1>5, <1>6, <1>7 DEF Next

LEMMA SettleStep ==
  TypeOK /\ AllFit /\ HandlerInv /\ SettleInv /\ [Next]_vars => SettleInv'
<1> SUFFICES ASSUME TypeOK, AllFit, HandlerInv, SettleInv, [Next]_vars
             PROVE  \A w \in Workers : Settles(w)'
  BY AnswersSentStep DEF SettleInv
<1> USE DEF TypeOK, Go
<1>1. /\ \A b : Over(b) => Over(b)' /\ answers'[b] = answers[b]
      /\ \A p \in Posts : grouped[p] => grouped'[p]
  BY OverAndGrouped
\* Who does not move goes on as before.
<1>2. ASSUME NEW w \in Workers, pc'[w] = pc[w], mine'[w] = mine[w], data'[w] = data[w],
             result'[w] = result[w]
      PROVE  Settles(w)'
  <2>1. \A b \in Batches : answers[b] \subseteq Posts
    OBVIOUS
  <2> QED BY <1>1, <1>2, <2>1 DEF SettleInv, Settles, Over
<1>3. ASSUME NEW w \in Workers, Settles(w)',
             \A v \in Workers \ {w} :
               pc'[v] = pc[v] /\ mine'[v] = mine[v] /\ data'[v] = data[v]
               /\ result'[v] = result[v]
      PROVE  \A v \in Workers : Settles(v)'
  BY <1>2, <1>3
<1>4. ASSUME NEW w \in Workers, Claim(w) \/ Take(w) PROVE \A v \in Workers : Settles(v)'
  <2>1. \A v \in Workers \ {w} : pc'[v] = pc[v] /\ mine'[v] = mine[v] /\ data'[v] = data[v]
                                 /\ result'[v] = result[v]
    BY <1>4 DEF Claim, Take, Find, LockPosts, FoundNothing, Release, Rest, local
  <2>2. CASE Claim(w) \/ FoundNothing(w)
    <3>1. pc'[w] \in {"claimed", "idle"}
      BY <2>2 DEF Claim, FoundNothing, Rest
    <3> QED BY <2>1, <3>1, <1>3 DEF Settles
  <2>3. CASE Find(w)
    <3>1. pc'[w] \in {"locking", "releasing", "empty"} /\ mine' = mine
          /\ mine[w].items \subseteq data'[w]
      BY <2>3 DEF Find
    <3> QED BY <2>1, <3>1, <1>3 DEF Settles
  <2>4. CASE LockPosts(w) \/ Release(w)
    <3>1. /\ pc[w] \in {"locking", "releasing"} /\ pc'[w] \in {"releasing", "handling"}
          /\ mine' = mine /\ data' = data
      BY <2>4 DEF LockPosts, Release, local
    <3> QED BY <2>1, <3>1, <1>3 DEF SettleInv, Settles
  <2> QED BY <1>4, <2>2, <2>3, <2>4 DEF Take
<1>5. ASSUME NEW w \in Workers, Handle(w) PROVE \A v \in Workers : Settles(v)'
  <2>1. \A v \in Workers \ {w} : pc'[v] = pc[v] /\ mine'[v] = mine[v] /\ data'[v] = data[v]
                                 /\ result'[v] = result[v]
    BY <1>5 DEF Handle, NoRequests, Submit, SaveState, TooSoon, Poll, Fetch, Denied,
                ClearPosts, LoadRaw, UnlockRefused, Refuse, SaveGroupings, MarkPosts,
                Settle, DropRaw, store, provider, local
  <2>2. CASE \/ NoRequests(w) \/ Submit(w) \/ SaveState(w) \/ TooSoon(w) \/ Poll(w) \/ Fetch(w)
             \/ Denied(w) \/ ClearPosts(w) \/ UnlockRefused(w) \/ Refuse(w) \/ DropRaw(w)
    <3>1. pc'[w] \in {"finishing", "submitted", "failing", "denied", "fetching", "fetched",
                      "clearing", "refusing"}
      BY <2>2 DEF NoRequests, Submit, SaveState, TooSoon, Poll, Fetch, Denied,
                  ClearPosts, UnlockRefused, Refuse, DropRaw
    <3> QED BY <2>1, <3>1, <1>3 DEF Settles
  <2>3. CASE LoadRaw(w)
    <3>1. /\ pc[w] = "handling" /\ mine[w].raw \in Raws
          /\ result'[w] = rawOf[mine[w].raw]
          /\ pc'[w] \in {"failing", "refused", "saving"}
          /\ pc'[w] = "saving" => rawOf[mine[w].raw] # None
          /\ UNCHANGED <<mine, data, status>>
      BY <2>3 DEF LoadRaw, provider, BatchStates
    <3>2. CASE pc'[w] = "saving"
      <4>1. rawOf[mine[w].raw] = mine[w].id
        BY <3>1, <3>2, BatchAssumption DEF AllFit, Fits
      <4>2. Over(rawOf[mine[w].raw])'
        BY <3>1, <3>2, <2>3 DEF HandlerInv, RawIsOver, Over, LoadRaw, store
      <4>3. Over(result[w])'
        BY <4>2, <3>1, <2>3 DEF Over, LoadRaw, store
      <4> QED BY <2>1, <3>1, <3>2, <4>1, <4>3, <1>3 DEF SettleInv, Settles
    <3> QED BY <2>1, <3>1, <3>2, <1>3 DEF Settles
  <2>4. CASE SaveGroupings(w)
    <3>1. /\ pc[w] = "saving" /\ pc'[w] = "marking"
          /\ UNCHANGED <<mine, data, result, status>>
      BY <2>4 DEF SaveGroupings, provider, local
    <3> QED BY <2>1, <3>1, <1>3 DEF SettleInv, Settles, Over
  <2>5. CASE MarkPosts(w)
    <3>1. /\ pc[w] = "marking" /\ pc'[w] = "settling"
          /\ grouped' = [p \in Posts |-> grouped[p] \/ p \in Answered(w)]
          /\ UNCHANGED <<mine, data, result, status, answers>>
      BY <2>5 DEF MarkPosts, provider, local
    <3>2. Over(result[w]) /\ result[w] = mine[w].id /\ mine[w].items \subseteq data[w]
      BY <3>1 DEF SettleInv, Settles
    <3>3. answers[result[w]] \subseteq sent[result[w]] /\ sent[result[w]] = mine[w].items
      BY <3>2, BatchAssumption DEF SettleInv, AnswersSent, AllFit, Fits, Over
    <3>4. answers[result[w]] \subseteq Posts
      BY <3>2 DEF Over
    <3>5. \A p \in answers[result[w]] : grouped'[p]
      BY <3>1, <3>2, <3>3, <3>4 DEF Answered
    <3> QED BY <2>1, <3>1, <3>2, <3>5, <1>3 DEF Settles, Over
  <2>6. CASE Settle(w)
    <3>1. /\ pc[w] = "settling" /\ pc'[w] = "dropping"
          /\ UNCHANGED <<mine, data, result, status, answers, grouped>>
      BY <2>6 DEF Settle, provider, local
    <3> QED BY <2>1, <3>1, <1>3 DEF SettleInv, Settles, Over
  <2> QED BY <1>5, <2>2, <2>3, <2>4, <2>5, <2>6 DEF Handle
<1>6. ASSUME NEW w \in Workers, End(w) \/ Raise(w) \/ Crash(w)
      PROVE  \A v \in Workers : Settles(v)'
  <2>1. \A v \in Workers \ {w} : pc'[v] = pc[v] /\ mine'[v] = mine[v] /\ data'[v] = data[v]
                                 /\ result'[v] = result[v]
    BY <1>6 DEF End, FinishDone, FinishRest, Fail, Raise, Crash, Rest, local
  <2>2. pc'[w] \in {"idle", "failing"}
    BY <1>6 DEF End, FinishDone, FinishRest, Fail, Raise, Crash, Rest
  <2> QED BY <2>1, <2>2, <1>3 DEF Settles
<1>7. ASSUME \/ Resume \/ LeaseEnds \/ BackoffEnds \/ \E P \in SUBSET Posts : LocksAge(P)
             \/ UNCHANGED vars \/ \E b \in Batches : Complete(b) \/ Deny(b)
      PROVE  \A v \in Workers : Settles(v)'
  <2>1. UNCHANGED <<pc, mine, data, result>>
    BY <1>7 DEF Resume, LeaseEnds, BackoffEnds, LocksAge, Complete, Deny, worker, vars
  <2> QED BY <2>1, <1>2
<1> QED BY <1>4, <1>5, <1>6, <1>7 DEF Next

\* A raw result is deleted only when its answers are stored and marked, whichever of
\* the workers that have read it does so.
THEOREM AnswersAreKept == Spec => AnswersKept
<1>1. Init => HandlerInv /\ SettleInv
  BY DEF Init, HandlerInv, RawIsOver, InHand, GroupedHasGrouping, SettleInv, AnswersSent,
         Settles
<1>2. ASSUME TypeOK, AllFit, HandlerInv, SettleInv, [Next]_vars,
             NEW r \in Raws, rawOf[r] # None, rawOf'[r] = None
      PROVE  \A p \in answers[rawOf[r]] : grouped[p]
  <2>1. PICK w \in Workers : DropRaw(w) /\ r = mine[w].raw
    <3> USE DEF TypeOK
    <3>1. rawOf' # rawOf
      BY <1>2
    <3>2. ASSUME NEW w \in Workers, Claim(w) \/ Take(w) \/ End(w) \/ Raise(w) \/ Crash(w)
          PROVE  rawOf' = rawOf
      BY <3>2 DEF Claim, Take, Find, LockPosts, FoundNothing, Release, End, FinishDone,
                  FinishRest, Fail, Raise, Crash, store
    <3>3. ASSUME NEW w \in Workers, Handle(w), ~ Fetch(w), ~ DropRaw(w)
          PROVE  rawOf' = rawOf
      BY <3>3 DEF Handle, NoRequests, Submit, SaveState, TooSoon, Poll, Denied, ClearPosts,
                  LoadRaw, UnlockRefused, Refuse, SaveGroupings, MarkPosts, Settle, store
    <3>4. ASSUME NEW w \in Workers, Fetch(w) PROVE FALSE
      <4>1. mine[w].id \in Batches
        BY <1>2, <3>4 DEF Fetch, HandlerInv, InHand, Over
      <4> QED BY <1>2, <3>4, <4>1, BatchAssumption DEF Fetch
    <3>5. ASSUME \/ Resume \/ LeaseEnds \/ BackoffEnds \/ \E P \in SUBSET Posts : LocksAge(P)
                 \/ UNCHANGED vars \/ \E b \in Batches : Complete(b) \/ Deny(b)
          PROVE  rawOf' = rawOf
      BY <3>5 DEF Resume, LeaseEnds, BackoffEnds, LocksAge, Complete, Deny, store, vars
    <3>6. PICK w \in Workers : DropRaw(w)
      BY <1>2, <3>1, <3>2, <3>3, <3>4, <3>5 DEF Next
    <3> QED BY <1>2, <3>6 DEF DropRaw
  <2>2. /\ Over(result[w]) /\ result[w] = mine[w].id
        /\ \A p \in answers[result[w]] : grouped[p]
    BY <1>2, <2>1 DEF DropRaw, SettleInv, Settles
  <2>3. rawOf[r] = mine[w].id
    BY <1>2, <2>1, BatchAssumption DEF AllFit, Fits
  <2> QED BY <2>2, <2>3
<1>3. TypeOK /\ AllFit /\ HandlerInv /\ SettleInv /\ [Next]_vars
        => \A r \in Raws : (rawOf[r] # None /\ rawOf'[r] = None) =>
             \A p \in answers[rawOf[r]] : grouped[p]
  BY <1>2
<1> QED BY <1>1, <1>3, HandlerStep, SettleStep, AlwaysFit, PTL DEF Spec, AnswersKept

-----------------------------------------------------------------------------
(* Worker w alone.  Its copy of the state is the stored one, but for the moments in
   which it has made a new one; the posts that may be submitted are those that no
   batch stands for: they are unmarked, and in no batch that is noted. *)

Unmarked(P) == \A p \in P : ~ grouped[p]

\* What a state says is still to do is unmarked.
Ahead(s) ==
  /\ Unmarked(s.pending) /\ s.pending \cap s.items = {}
  /\ s.id = None => Unmarked(s.items)

\* Only what is completed is answered.
CompletedAnswer == \A b \in Batches : status[b] # "completed" => answers[b] = {}

InStep(w) ==
  /\ \A v \in Workers \ {w} : pc[v] = "idle"
  /\ pc[w] # "idle" => task.status # "absent"
  /\ pc[w] \in {"claimed", "locking", "releasing", "handling", "fetching", "denied",
                "refused", "refusing", "saving", "marking", "settling"}
       => mine[w] = batch
  /\ pc[w] = "submitted" => batch.id = None /\ mine[w].id # None /\ Ahead(mine[w])
  /\ pc[w] = "fetched" => /\ mine[w].id = batch.id /\ mine[w].items = batch.items
                          /\ mine[w].pending = batch.pending
  /\ pc[w] \in {"locking", "releasing", "handling"} /\ batch.id = None
       => Unmarked(data[w])
  /\ pc[w] = "denied" => mine[w].id \in Batches /\ status[mine[w].id] = "failed"
  /\ pc[w] \in {"refused", "refusing"}
       => mine[w].id \in Batches /\ status[mine[w].id] = "refused"
  /\ Ahead(batch)

\* The batch that a state names, stored or about to be.
Noted(w) == IF pc[w] = "submitted" THEN mine[w].id ELSE batch.id

\* An unmarked post is paid for in the batch that is noted, and once for each fault.
Spent(w, p) ==
  /\ IsFiniteSet(Paid(p))
  /\ ~ grouped[p] => Cardinality(Paid(p) \ {Noted(w)}) <= faults
  /\ Cardinality(Paid(p)) <= 1 + faults

LoneInv ==
  /\ CompletedAnswer
  /\ \A w \in Workers : scene.crew = {w} =>
       InStep(w) /\ \A p \in Posts : Spent(w, p)

\* The numbers: T has one more than it has outside {y}.
LEMMA Fewer ==
  ASSUME NEW n \in Nat, NEW m \in Nat, n <= m, NEW S, NEW T, NEW y,
         IsFiniteSet(S), Cardinality(S) <= n, T \ {y} \subseteq S
  PROVE  IsFiniteSet(T) /\ Cardinality(T \ {y}) <= m /\ Cardinality(T) <= 1 + m
<1>1. /\ IsFiniteSet(T \ {y}) /\ Cardinality(T \ {y}) \in Nat
      /\ Cardinality(T \ {y}) <= Cardinality(S) /\ Cardinality(S) \in Nat
  BY FS_Subset, FS_CardinalityType
<1>2. /\ IsFiniteSet((T \ {y}) \cup {y})
      /\ Cardinality((T \ {y}) \cup {y}) = Cardinality(T \ {y}) + 1
  BY <1>1, FS_AddElement
<1>3. IsFiniteSet(T) /\ Cardinality(T) \in Nat
      /\ Cardinality(T) <= Cardinality((T \ {y}) \cup {y})
  <2>1. T \subseteq (T \ {y}) \cup {y}
    OBVIOUS
  <2> QED BY <2>1, <1>2, FS_Subset, FS_CardinalityType
<1> QED BY <1>1, <1>2, <1>3

\* A step that pays for no marked post, and for an unmarked one in the noted batch.
LEMMA SpentKept ==
  ASSUME NEW w \in Workers, NEW p \in Posts, Spent(w, p),
         faults \in Nat, faults' \in Nat, faults <= faults',
         grouped[p] => grouped'[p] /\ Paid(p)' \subseteq Paid(p),
         ~ grouped[p] => Paid(p)' \ {Noted(w)'} \subseteq Paid(p) \ {Noted(w)}
  PROVE  Spent(w, p)'
<1>1. CASE grouped[p]
  <2>1. /\ IsFiniteSet(Paid(p)') /\ Cardinality(Paid(p)') \in Nat
        /\ Cardinality(Paid(p)') <= Cardinality(Paid(p)) /\ Cardinality(Paid(p)) \in Nat
    BY <1>1, FS_Subset, FS_CardinalityType DEF Spent
  <2> QED BY <1>1, <2>1 DEF Spent
<1>2. CASE ~ grouped[p]
  <2>1. /\ IsFiniteSet(Paid(p)') /\ Cardinality(Paid(p)' \ {Noted(w)'}) <= faults'
        /\ Cardinality(Paid(p)') <= 1 + faults'
    <3>1. /\ IsFiniteSet(Paid(p) \ {Noted(w)}) /\ Cardinality(Paid(p) \ {Noted(w)}) <= faults
          /\ Paid(p)' \ {Noted(w)'} \subseteq Paid(p) \ {Noted(w)}
      BY <1>2, FS_Subset DEF Spent
    <3> DEFINE S == Paid(p) \ {Noted(w)}
               T == Paid(p)'
               y == Noted(w)'
    <3>2. IsFiniteSet(S) /\ Cardinality(S) <= faults /\ T \ {y} \subseteq S
      BY <3>1
    <3> HIDE DEF S, T, y
    <3>3. IsFiniteSet(T) /\ Cardinality(T \ {y}) <= faults' /\ Cardinality(T) <= 1 + faults'
      BY <3>2, Fewer
    <3> QED BY <3>3 DEF T, y
  <2> QED BY <2>1 DEF Spent
<1> QED BY <1>1, <1>2

\* A fault may leave the batch that was noted unknown.
LEMMA SpentFault ==
  ASSUME NEW w \in Workers, NEW p \in Posts, Spent(w, p), faults \in Nat,
         faults' = faults + 1, Paid(p)' = Paid(p)
  PROVE  Spent(w, p)'
<1>1. /\ IsFiniteSet(Paid(p)) /\ Cardinality(Paid(p)) \in Nat
      /\ Cardinality(Paid(p)) <= faults'
  BY FS_CardinalityType DEF Spent
<1>2. /\ Cardinality(Paid(p) \ {Noted(w)'}) \in Nat
      /\ Cardinality(Paid(p) \ {Noted(w)'}) <= Cardinality(Paid(p))
  <2>1. IsFiniteSet(Paid(p) \ {Noted(w)'})
        /\ Cardinality(Paid(p) \ {Noted(w)'}) <= Cardinality(Paid(p))
    BY <1>1, FS_Subset
  <2> QED BY <2>1, FS_CardinalityType
<1> QED BY <1>1, <1>2 DEF Spent

\* The provider answers what is completed.
LEMMA CompletedAnswerStep ==
  ASSUME TypeOK, AnswersSent, CompletedAnswer, [Next]_vars PROVE CompletedAnswer'
<1> USE DEF TypeOK
<1>1. ASSUME UNCHANGED <<status, answers>> PROVE CompletedAnswer'
  BY <1>1 DEF CompletedAnswer
<1>2. ASSUME NEW w \in Workers, Submit(w) PROVE CompletedAnswer'
  BY <1>2 DEF Submit, CompletedAnswer, AnswersSent
<1>3. ASSUME NEW b \in Batches, Complete(b) PROVE CompletedAnswer'
  BY <1>3 DEF Complete, CompletedAnswer
<1>4. ASSUME NEW b \in Batches, Deny(b) PROVE CompletedAnswer'
  BY <1>4 DEF Deny, CompletedAnswer
<1>5. ASSUME NEW w \in Workers, Claim(w) \/ Take(w) \/ End(w) \/ Raise(w) \/ Crash(w)
      PROVE  UNCHANGED <<status, answers>>
  BY <1>5 DEF Claim, Take, Find, LockPosts, FoundNothing, Release, End, FinishDone,
              FinishRest, Fail, Raise, Crash, store, provider
<1>6. ASSUME NEW w \in Workers, Handle(w), ~ Submit(w)
      PROVE  UNCHANGED <<status, answers>>
  BY <1>6 DEF Handle, NoRequests, SaveState, TooSoon, Poll, Fetch, Denied, ClearPosts,
              LoadRaw, UnlockRefused, Refuse, SaveGroupings, MarkPosts, Settle, DropRaw,
              store, provider
<1>7. ASSUME \/ Resume \/ LeaseEnds \/ BackoffEnds \/ \E P \in SUBSET Posts : LocksAge(P)
             \/ UNCHANGED vars
      PROVE  UNCHANGED <<status, answers>>
  BY <1>7 DEF Resume, LeaseEnds, BackoffEnds, LocksAge, provider, vars
<1> QED BY <1>1, <1>2, <1>3, <1>4, <1>5, <1>6, <1>7 DEF Next

\* All that is known of worker w before its step.
Known(w) ==
  /\ TypeOK /\ AllFit /\ HandlerInv /\ SettleInv /\ CompletedAnswer
  /\ scene.crew = {w} /\ InStep(w) /\ \A p \in Posts : Spent(w, p)

\* A step that leaves provider and marks alone, and the batch that is noted.
LEMMA SameSpent ==
  ASSUME NEW w \in Workers, Known(w), UNCHANGED <<provider, grouped>>,
         faults' \in Nat, faults <= faults', Noted(w)' = Noted(w)
  PROVE  \A p \in Posts : Spent(w, p)'
<1> TAKE p \in Posts
<1>1. Paid(p)' = Paid(p)
  BY DEF provider, Paid
<1>2. faults \in Nat /\ Spent(w, p)
  BY DEF Known, TypeOK
<1> QED BY <1>1, <1>2, SpentKept

LEMMA TakeAlone ==
  ASSUME NEW w \in Workers, Known(w), Claim(w) \/ Take(w)
  PROVE  InStep(w)' /\ \A p \in Posts : Spent(w, p)'
<1> USE DEF Go, Known, TypeOK
<1>1. UNCHANGED <<provider, grouped, batch, scene, faults>>
  BY DEF Claim, Take, Find, LockPosts, FoundNothing, Release, store, bounds
<1>2. \A v \in Workers \ {w} : pc'[v] = pc[v]
  BY DEF Claim, Take, Find, LockPosts, FoundNothing, Release, Rest
<1>3. pc[w] # "submitted" /\ pc'[w] # "submitted"
  BY DEF Claim, Take, Find, LockPosts, FoundNothing, Release, Rest
<1>4. \A p \in Posts : Spent(w, p)'
  BY <1>1, <1>3, SameSpent DEF Noted
<1>5. Ahead(batch)'
  BY <1>1 DEF InStep, Ahead, Unmarked
<1>6. CASE Claim(w)
  <2>1. task'.status # "absent" /\ mine'[w] = batch /\ pc'[w] = "claimed"
    BY <1>6 DEF Claim, Claimed, TaskDocs
  <2> QED BY <1>1, <1>2, <1>4, <1>5, <2>1 DEF InStep
<1>7. CASE Find(w)
  <2>1. /\ pc[w] = "claimed" /\ pc'[w] \in {"releasing", "empty", "locking"}
        /\ task' = task /\ mine' = mine
    BY <1>7 DEF Find, store
  <2>2. mine[w].id = None => Unmarked(data'[w])
    BY <1>7, <2>1 DEF Find, InStep, Ahead, Unmarked
  <2> QED BY <1>1, <1>2, <1>4, <1>5, <2>1, <2>2 DEF InStep, Unmarked
<1>8. CASE LockPosts(w)
  <2>1. /\ pc[w] = "locking" /\ pc'[w] = "releasing" /\ UNCHANGED <<task, mine, data>>
    BY <1>8 DEF LockPosts, local
  <2> QED BY <1>1, <1>2, <1>4, <1>5, <2>1 DEF InStep, Unmarked
<1>9. CASE FoundNothing(w)
  <2>1. pc'[w] = "idle"
    BY <1>9 DEF FoundNothing, Rest
  <2> QED BY <1>1, <1>2, <1>4, <1>5, <2>1 DEF InStep
<1>10. CASE Release(w)
  <2>1. /\ pc[w] = "releasing" /\ pc'[w] = "handling" /\ UNCHANGED <<mine, data>>
    BY <1>10 DEF Release, local
  <2>2. task'.status # "absent"
    BY <1>10, <2>1 DEF Release, Released, InStep, TaskDocs
  <2> QED BY <1>1, <1>2, <1>4, <1>5, <2>1, <2>2 DEF InStep, Unmarked
<1> QED BY <1>6, <1>7, <1>8, <1>9, <1>10 DEF Take

\* The batch that comes next is new, and unmarked posts are submitted.
LEMMA SubmitAlone ==
  ASSUME NEW w \in Workers, Known(w), Submit(w)
  PROVE  InStep(w)' /\ \A p \in Posts : Spent(w, p)'
<1> USE DEF Go, Known, TypeOK
<1> DEFINE b == NewBatch
<1>1. PICK S \in SUBSET (data[w] \ scene.blank),
           skipped \in SUBSET (data[w] \cap scene.blank) :
        LET rest == data[w] \ (S \cup skipped)
        IN  /\ b \in Batches /\ status[b] = "unused"
            /\ status' = [status EXCEPT ![b] = "running"]
            /\ sent' = [sent EXCEPT ![b] = S]
            /\ mine' = [mine EXCEPT ![w] =
                 [NoState EXCEPT !.status = "submitted", !.id = b, !.items = S,
                                 !.pending = rest]]
  BY DEF Submit
<1>2. /\ pc[w] = "handling" /\ pc' = [pc EXCEPT ![w] = "submitted"]
      /\ UNCHANGED <<task, batch, grouped, answers, faults>>
  BY DEF Submit, bounds
<1>3. batch.id = None /\ Unmarked(data[w])
  BY <1>2 DEF Submit, NoBatch, InStep
<1>4. /\ mine'[w].id = b /\ b # None /\ mine'[w].items = S
      /\ mine'[w].pending = data[w] \ (S \cup skipped)
  BY <1>1, BatchAssumption DEF NoState
<1>5. InStep(w)'
  <2>1. Ahead(mine[w])'
    BY <1>2, <1>3, <1>4 DEF Ahead, Unmarked
  <2>2. Ahead(batch)'
    BY <1>2 DEF InStep, Ahead, Unmarked
  <2> QED BY <1>2, <1>3, <1>4, <2>1, <2>2 DEF InStep
<1>6. ASSUME NEW p \in Posts PROVE Spent(w, p)'
  <2>1. b \notin Paid(p)
    BY <1>1 DEF Paid, SettleInv, AnswersSent
  <2>2. p \notin S => Paid(p)' \subseteq Paid(p)
    BY <1>1, <1>2, <2>1 DEF Paid
  <2>3. Paid(p)' \subseteq Paid(p) \cup {b}
    BY <1>1, <1>2 DEF Paid
  <2>4. Noted(w) = None /\ Noted(w)' = b /\ None \notin Paid(p)
    BY <1>2, <1>3, <1>4, BatchAssumption DEF Noted, Paid
  <2>5. grouped[p] => p \notin S
    BY <1>3 DEF Unmarked
  <2> QED BY <1>2, <2>2, <2>3, <2>4, <2>5, SpentKept
<1> QED BY <1>5, <1>6

\* The batch that is noted no longer pays for an unmarked post: the state goes on
\* without it.
LEMMA LeaveBatch ==
  ASSUME NEW w \in Workers, Known(w), UNCHANGED <<provider, grouped, faults>>,
         batch'.id = None, pc[w] # "submitted", pc'[w] # "submitted",
         \A p \in Posts : ~ grouped[p] => batch.id \notin Paid(p)
  PROVE  \A p \in Posts : Spent(w, p)'
<1> TAKE p \in Posts
<1>1. Paid(p)' = Paid(p) /\ faults \in Nat /\ Spent(w, p)
  BY DEF provider, Paid, Known, TypeOK
<1>2. Noted(w) = batch.id /\ Noted(w)' = None /\ None \notin Paid(p)
  BY BatchAssumption DEF Noted, Paid
<1> QED BY <1>1, <1>2, SpentKept

\* A state without its batch names posts that are still to do.
LEMMA ClearedAhead ==
  ASSUME NEW s \in BatchStates, NEW st, NEW P, Unmarked(P)
  PROVE  /\ Cleared(s, st, P).id = None /\ Cleared(s, st, P).items = P
         /\ Ahead(Cleared(s, st, P))
BY DEF Cleared, BatchStates, Ahead, Unmarked

LEMMA HandleAlone ==
  ASSUME NEW w \in Workers, Known(w), Handle(w)
  PROVE  InStep(w)' /\ \A p \in Posts : Spent(w, p)'
<1> USE DEF Go, Known, TypeOK
<1>1. \A v \in Workers \ {w} : pc'[v] = pc[v]
  BY DEF Handle, NoRequests, Submit, SaveState, TooSoon, Poll, Fetch, Denied, ClearPosts,
         LoadRaw, UnlockRefused, Refuse, SaveGroupings, MarkPosts, Settle, DropRaw
<1>2. task'.status # "absent" /\ task.status # "absent" /\ task' = task
  BY DEF Handle, NoRequests, Submit, SaveState, TooSoon, Poll, Waits, Fetch, Denied,
         ClearPosts, LoadRaw, UnlockRefused, Refuse, SaveGroupings, MarkPosts, Settle,
         DropRaw, store, InStep
<1>3. Ahead(batch) /\ (UNCHANGED <<batch, grouped>> => Ahead(batch)')
  BY DEF InStep, Ahead, Unmarked
\* The state and the provider stay, and the worker goes somewhere else.
<1>4. ASSUME UNCHANGED <<batch, provider, grouped, faults>>, pc[w] # "submitted",
             pc'[w] \in {"failing", "finishing", "clearing", "dropping"}
      PROVE  InStep(w)' /\ \A p \in Posts : Spent(w, p)'
  <2>1. \A p \in Posts : Spent(w, p)'
    BY <1>4, SameSpent DEF Noted
  <2> QED BY <1>1, <1>2, <1>3, <1>4, <2>1 DEF InStep
<1>5. CASE NoRequests(w) \/ TooSoon(w)
  <2>1. UNCHANGED <<batch, provider, grouped, faults>> /\ pc[w] # "submitted"
        /\ pc'[w] \in {"failing", "finishing"}
    BY <1>5 DEF NoRequests, TooSoon, Waits, store, bounds
  <2> QED BY <1>4, <2>1
<1>6. CASE ClearPosts(w) \/ DropRaw(w)
  <2>1. UNCHANGED <<batch, provider, grouped, faults>> /\ pc[w] # "submitted"
        /\ pc'[w] \in {"failing", "finishing"}
    BY <1>6 DEF ClearPosts, DropRaw, provider, bounds
  <2> QED BY <1>4, <2>1
<1>7. CASE Submit(w)
  BY <1>7, SubmitAlone
<1>8. CASE SaveState(w)
  <2>1. /\ batch' = mine[w] /\ pc'[w] = "failing" /\ mine' = mine
        /\ pc[w] \in {"submitted", "fetched"}
        /\ UNCHANGED <<provider, grouped, faults>>
    BY <1>8, <1>2 DEF SaveState, StoreState, local, bounds
  <2>2. Noted(w)' = Noted(w)
    BY <2>1 DEF Noted, InStep
  <2>3. Ahead(batch)'
    BY <2>1 DEF InStep, Ahead, Unmarked
  <2>4. \A p \in Posts : Spent(w, p)'
    BY <2>1, <2>2, SameSpent
  <2> QED BY <1>1, <1>2, <2>1, <2>3, <2>4 DEF InStep
<1>9. CASE Poll(w)
  <2>1. /\ pc[w] = "handling" /\ pc'[w] \in {"failing", "denied", "fetching"}
        /\ mine'[w] = [mine[w] EXCEPT !.checked = TRUE] /\ batch' = mine'[w]
        /\ UNCHANGED <<provider, grouped, faults>>
    BY <1>9, <1>2 DEF Poll, Waits, StoreState, bounds
  <2>2. mine[w] = batch /\ mine[w] \in BatchStates /\ mine[w].id # None
    BY <2>1, <1>9 DEF InStep, Poll, Waits
  <2>3. /\ batch'.id = batch.id /\ batch'.items = batch.items
        /\ batch'.pending = batch.pending /\ mine'[w].id = mine[w].id
    BY <2>1, <2>2 DEF BatchStates
  <2>4. \A p \in Posts : Spent(w, p)'
    BY <2>1, <2>3, SameSpent DEF Noted
  <2>5. Ahead(batch)'
    BY <1>3, <2>1, <2>3 DEF Ahead, Unmarked
  <2>6. pc'[w] = "denied" => mine'[w].id \in Batches /\ status'[mine'[w].id] = "failed"
    <3>1. mine[w].id \in Batches
      BY <2>2 DEF BatchStates
    <3>2. pc'[w] = "denied" => status[mine[w].id] = "failed"
      BY <1>9, <3>1 DEF Poll
    <3> QED BY <3>1, <3>2, <2>1, <2>3 DEF provider
  <2> QED BY <1>1, <1>2, <2>1, <2>4, <2>5, <2>6 DEF InStep
<1>10. CASE Fetch(w)
  <2>1. /\ pc[w] = "fetching" /\ pc'[w] = "fetched"
        /\ mine'[w] = [mine[w] EXCEPT !.status = "raw_pending", !.raw = NewRaw]
        /\ UNCHANGED <<batch, provider, grouped, faults>>
    BY <1>10 DEF Fetch, bounds
  <2>2. /\ mine'[w].id = batch.id /\ mine'[w].items = batch.items
        /\ mine'[w].pending = batch.pending
    <3>1. mine[w] = batch /\ mine[w] \in BatchStates
      BY <2>1 DEF InStep
    <3> QED BY <2>1, <3>1 DEF BatchStates
  <2>3. \A p \in Posts : Spent(w, p)'
    BY <2>1, SameSpent DEF Noted
  <2> QED BY <1>1, <1>2, <1>3, <2>1, <2>2, <2>3 DEF InStep
<1>11. CASE Denied(w)
  <2>1. /\ pc[w] = "denied" /\ pc'[w] = "clearing"
        /\ batch' = Cleared(batch, "failed", batch.pending)
        /\ UNCHANGED <<provider, grouped, faults>>
    BY <1>11, <1>2 DEF Denied, StoreState, bounds, InStep
  <2>2. batch'.id = None /\ Ahead(Cleared(batch, "failed", batch.pending))
    BY <2>1, <1>3, ClearedAhead DEF Ahead
  <2>3. \A p \in Posts : batch.id \notin Paid(p)
    BY <2>1 DEF InStep, Paid, CompletedAnswer
  <2>4. \A p \in Posts : Spent(w, p)'
    BY <2>1, <2>2, <2>3, LeaveBatch
  <2>5. Ahead(batch)'
    BY <2>1, <2>2 DEF Ahead, Unmarked
  <2> QED BY <1>1, <1>2, <2>1, <2>4, <2>5 DEF InStep
<1>12. CASE LoadRaw(w)
  <2>1. /\ pc[w] = "handling" /\ mine[w].raw # None
        /\ pc'[w] \in {"failing", "refused", "saving"}
        /\ pc'[w] # "failing" => rawOf[mine[w].raw] # None
        /\ pc'[w] = "refused" => status[rawOf[mine[w].raw]] = "refused"
        /\ UNCHANGED <<batch, provider, grouped, faults, mine>>
    BY <1>12 DEF LoadRaw, store, bounds
  <2>2. pc'[w] = "refused" => mine[w].id \in Batches /\ status[mine[w].id] = "refused"
    BY <2>1, BatchAssumption DEF AllFit, Fits, BatchStates
  <2>3. \A p \in Posts : Spent(w, p)'
    BY <2>1, SameSpent DEF Noted
  <2> QED BY <1>1, <1>2, <1>3, <2>1, <2>2, <2>3 DEF InStep, provider
<1>13. CASE UnlockRefused(w)
  <2>1. /\ pc[w] = "refused" /\ pc'[w] = "refusing"
        /\ UNCHANGED <<batch, provider, grouped, faults, mine>>
    BY <1>13 DEF UnlockRefused, local, bounds
  <2>2. \A p \in Posts : Spent(w, p)'
    BY <2>1, SameSpent DEF Noted
  <2> QED BY <1>1, <1>2, <1>3, <2>1, <2>2 DEF InStep, provider
<1>14. CASE Refuse(w)
  <2>1. /\ pc[w] = "refusing" /\ pc'[w] = "finishing"
        /\ batch' = Cleared(batch, "failed", {})
        /\ UNCHANGED <<provider, grouped, faults>>
    BY <1>14, <1>2 DEF Refuse, StoreState, bounds, InStep
  <2>2. batch'.id = None /\ Ahead(Cleared(batch, "failed", {}))
    BY <2>1, ClearedAhead DEF Unmarked
  <2>3. \A p \in Posts : batch.id \notin Paid(p)
    BY <2>1 DEF InStep, Paid, CompletedAnswer
  <2>4. \A p \in Posts : Spent(w, p)'
    BY <2>1, <2>2, <2>3, LeaveBatch
  <2>5. Ahead(batch)'
    BY <2>1, <2>2 DEF Ahead, Unmarked
  <2> QED BY <1>1, <1>2, <2>1, <2>4, <2>5 DEF InStep
<1>15. CASE SaveGroupings(w)
  <2>1. /\ pc[w] = "saving" /\ pc'[w] = "marking"
        /\ UNCHANGED <<batch, provider, grouped, mine>>
        /\ faults' \in Nat /\ faults <= faults'
    BY <1>15 DEF SaveGroupings, Fault, local, bounds
  <2>2. \A p \in Posts : Spent(w, p)'
    BY <2>1, SameSpent DEF Noted
  <2> QED BY <1>1, <1>2, <1>3, <2>1, <2>2 DEF InStep
<1>16. CASE MarkPosts(w)
  <2>1. /\ pc[w] = "marking" /\ pc'[w] = "settling"
        /\ grouped' = [p \in Posts |-> grouped[p] \/ p \in Answered(w)]
        /\ UNCHANGED <<batch, provider, faults, mine>>
    BY <1>16 DEF MarkPosts, local, bounds
  <2>2. mine[w] = batch /\ result[w] = batch.id /\ batch.id \in Batches
    BY <2>1 DEF InStep, SettleInv, Settles, Over
  <2>3. Answered(w) \subseteq batch.items
    BY <2>2, BatchAssumption DEF Answered, SettleInv, AnswersSent, AllFit, Fits
  <2>4. Ahead(batch)'
    <3>1. \A p \in batch.pending : ~ grouped'[p]
      BY <1>3, <2>1, <2>3 DEF Ahead, Unmarked, BatchStates
    <3> QED BY <3>1, <1>3, <2>1, <2>2, BatchAssumption DEF Ahead, Unmarked
  <2>5. ASSUME NEW p \in Posts PROVE Spent(w, p)'
    <3>1. Paid(p)' = Paid(p) /\ Noted(w)' = Noted(w) /\ (grouped[p] => grouped'[p])
      BY <2>1 DEF Paid, Noted, provider
    <3> QED BY <3>1, <2>1, SpentKept
  <2> QED BY <1>1, <1>2, <2>1, <2>2, <2>4, <2>5 DEF InStep
<1>17. CASE Settle(w)
  <2>1. /\ pc[w] = "settling" /\ pc'[w] = "dropping" /\ mine[w] = batch
        /\ batch' = Settled(batch)
        /\ UNCHANGED <<provider, grouped, faults>>
    BY <1>17, <1>2 DEF Settle, StoreState, bounds, InStep
  <2>2. batch'.id = None /\ Ahead(Settled(batch))
    BY <2>1, <1>3, ClearedAhead DEF Settled, Ahead, Unmarked
  <2>3. Over(batch.id) /\ \A p \in answers[batch.id] : grouped[p]
    BY <2>1 DEF SettleInv, Settles
  <2>4. \A p \in Posts : ~ grouped[p] => batch.id \notin Paid(p)
    BY <2>3 DEF Over, Paid
  <2>5. \A p \in Posts : Spent(w, p)'
    BY <2>1, <2>2, <2>4, LeaveBatch
  <2>6. Ahead(batch)'
    BY <2>1, <2>2 DEF Ahead, Unmarked
  <2> QED BY <1>1, <1>2, <2>1, <2>5, <2>6 DEF InStep
<1> QED BY <1>5, <1>6, <1>7, <1>8, <1>9, <1>10, <1>11, <1>12, <1>13, <1>14, <1>15,
           <1>16, <1>17 DEF Handle

\* A run that ends well, badly or not at all.
LEMMA EndAlone ==
  ASSUME NEW w \in Workers, Known(w), End(w) \/ Raise(w) \/ Crash(w)
  PROVE  InStep(w)' /\ \A p \in Posts : Spent(w, p)'
<1> USE DEF Go, Known, TypeOK
<1>1. \A v \in Workers \ {w} : pc'[v] = pc[v]
  BY DEF End, FinishDone, FinishRest, Fail, Raise, Crash, Rest
<1>2. pc'[w] \in {"idle", "failing"} /\ (pc'[w] = "failing" => task' = task /\ pc[w] # "idle")
  BY DEF End, FinishDone, FinishRest, Fail, Raise, Crash, Rest, Handling, store
<1>3. UNCHANGED <<batch, provider, grouped>>
  <2>1. CASE FinishRest(w)
    BY <2>1 DEF FinishRest, HandlerInv, InHand
  <2> QED BY <2>1 DEF End, FinishDone, Fail, Raise, Crash, store
<1>4. InStep(w)'
  BY <1>1, <1>2, <1>3 DEF InStep, Ahead, Unmarked
<1>5. \A p \in Posts : Spent(w, p)'
  <2>1. CASE End(w)
    <3>1. pc[w] # "submitted" /\ faults' = faults
      BY <2>1 DEF End, FinishDone, FinishRest, Fail, bounds
    <3> QED BY <3>1, <1>2, <1>3, SameSpent DEF Noted
  <2>2. CASE Raise(w) \/ Crash(w)
    <3>1. faults' = faults + 1
      BY <2>2 DEF Raise, Crash, Fault
    <3>2. \A p \in Posts : Paid(p)' = Paid(p)
      BY <1>3 DEF Paid, provider
    <3> QED BY <3>1, <3>2, SpentFault
  <2> QED BY <2>1, <2>2
<1> QED BY <1>4, <1>5

\* What the provider, the user and time do.
LEMMA OthersAlone ==
  ASSUME NEW w \in Workers, Known(w),
         \/ \E b \in Batches : Complete(b) \/ Deny(b)
         \/ Resume \/ LeaseEnds \/ BackoffEnds \/ \E P \in SUBSET Posts : LocksAge(P)
         \/ UNCHANGED vars
  PROVE  InStep(w)' /\ \A p \in Posts : Spent(w, p)'
<1> USE DEF Known, TypeOK
<1>1. UNCHANGED <<batch, grouped, pc, mine, data, faults>>
  BY DEF Complete, Deny, Denial, Resume, LeaseEnds, BackoffEnds, LocksAge, store, worker,
         bounds, vars
<1>2. task.status # "absent" => task'.status # "absent"
  BY DEF Complete, Deny, Resume, Resumed, LeaseEnds, BackoffEnds, LocksAge, store, vars,
         TaskDocs
<1>3. /\ \A b \in Batches : status[b] \in {"failed", "refused"} => status'[b] = status[b]
      /\ \A p \in Posts : Paid(p)' \subseteq Paid(p)
  <2>1. CASE UNCHANGED provider
    BY <2>1 DEF provider, Paid
  <2>2. ASSUME NEW b \in Batches, Complete(b)
        PROVE  /\ \A c \in Batches : status[c] \in {"failed", "refused"} => status'[c] = status[c]
               /\ \A p \in Posts : Paid(p)' \subseteq Paid(p)
    BY <2>2 DEF Complete, Paid
  <2>3. ASSUME NEW b \in Batches, Deny(b)
        PROVE  /\ \A c \in Batches : status[c] \in {"failed", "refused"} => status'[c] = status[c]
               /\ \A p \in Posts : Paid(p)' \subseteq Paid(p)
    BY <2>3 DEF Deny, Paid
  <2> QED BY <2>1, <2>2, <2>3 DEF Resume, LeaseEnds, BackoffEnds, LocksAge, provider, vars
<1>4. InStep(w)'
  <2>1. Ahead(batch)' /\ (pc[w] = "submitted" => Ahead(mine[w])')
    BY <1>1 DEF InStep, Ahead, Unmarked
  <2> QED BY <1>1, <1>2, <1>3, <2>1 DEF InStep, Unmarked
<1>5. ASSUME NEW p \in Posts PROVE Spent(w, p)'
  <2>1. Noted(w)' = Noted(w)
    BY <1>1 DEF Noted
  <2> QED BY <2>1, <1>1, <1>3, SpentKept
<1> QED BY <1>4, <1>5

LEMMA LoneStep ==
  TypeOK /\ AllFit /\ HandlerInv /\ SettleInv /\ LoneInv /\ [Next]_vars => LoneInv'
<1> SUFFICES ASSUME TypeOK, AllFit, HandlerInv, SettleInv, LoneInv, [Next]_vars
             PROVE  LoneInv'
  OBVIOUS
<1>1. CompletedAnswer'
  BY CompletedAnswerStep DEF LoneInv, SettleInv
<1>2. scene' = scene
  <2>1. ASSUME NEW w \in Workers, Handle(w) PROVE scene' = scene
    BY <2>1 DEF Handle, NoRequests, Submit, SaveState, TooSoon, Poll, Fetch, Denied, ClearPosts,
       LoadRaw, UnlockRefused, Refuse, SaveGroupings, MarkPosts, Settle, DropRaw, Fault, bounds
  <2>2. ASSUME NEW w \in Workers, Claim(w) \/ Take(w) \/ End(w) \/ Raise(w) \/ Crash(w)
        PROVE  scene' = scene
    BY <2>2 DEF Claim, Take, Find, LockPosts, FoundNothing, Release, End, FinishDone, FinishRest,
       Fail, Raise, Crash, Fault, bounds
  <2>3. CASE ~ \E w \in Workers :
               Claim(w) \/ Take(w) \/ Handle(w) \/ End(w) \/ Raise(w) \/ Crash(w)
    BY <2>3 DEF Next, Complete, Deny, Denial, Resume, LeaseEnds, BackoffEnds, LocksAge, bounds,
       vars
  <2> QED BY <2>1, <2>2, <2>3
<1>3. ASSUME NEW w \in Workers, scene.crew = {w}
      PROVE  InStep(w)' /\ \A p \in Posts : Spent(w, p)'
  <2>1. Known(w)
    BY <1>3 DEF Known, LoneInv
  <2>2. ASSUME NEW v \in Workers, v # w PROVE ~ (Claim(v) \/ Take(v) \/ Handle(v)
                                                 \/ End(v) \/ Raise(v) \/ Crash(v))
    <3>1. pc[v] = "idle" /\ v \notin scene.crew
      BY <1>3, <2>1, <2>2 DEF Known, InStep
    <3> QED BY <3>1
      DEF Claim, Take, Find, LockPosts, FoundNothing, Release, Handle, NoRequests,
          Submit, SaveState, TooSoon, Poll, Waits, Fetch, Denied, ClearPosts, LoadRaw,
          UnlockRefused, Refuse, SaveGroupings, MarkPosts, Settle, DropRaw, End,
          FinishDone, FinishRest, Fail, Raise, Crash, Handling
  <2> QED BY <2>1, <2>2, TakeAlone, HandleAlone, EndAlone, OthersAlone DEF Next
<1> QED BY <1>1, <1>2, <1>3 DEF LoneInv

\* A provider is paid for a post once, and once more for each crash or exception, unless
\* it has denied it: a run that was interrupted finds in the stored state what was
\* submitted, and in the marks what was answered.
THEOREM PostsPaidOnce == Spec => []PaidOnce
<1>1. Init => HandlerInv /\ SettleInv
  BY DEF Init, HandlerInv, RawIsOver, InHand, GroupedHasGrouping, SettleInv, AnswersSent,
         Settles
<1>2. Init => LoneInv
  <2> SUFFICES ASSUME Init PROVE LoneInv
    OBVIOUS
  <2>1. \A p \in Posts : Paid(p) = {}
    BY DEF Init, Paid
  <2>2. \A w \in Workers, p \in Posts : Spent(w, p)
    <3>1. \A w : {} \ {Noted(w)} = {}
      OBVIOUS
    <3>2. IsFiniteSet({}) /\ Cardinality({}) = 0
      BY FS_EmptySet
    <3>3. faults = 0
      BY DEF Init
    <3> QED BY <2>1, <3>1, <3>2, <3>3 DEF Spent
  <2>3. \A w \in Workers : InStep(w)
    BY DEF Init, InStep, Ahead, Unmarked, NoState
  <2> QED BY <2>2, <2>3 DEF LoneInv, CompletedAnswer, Init
<1>3. LoneInv => PaidOnce
  BY DEF LoneInv, PaidOnce, Alone, Spent
<1> QED BY <1>1, <1>2, <1>3, HandlerStep, SettleStep, LoneStep, AlwaysFit, PTL DEF Spec
=============================================================================
