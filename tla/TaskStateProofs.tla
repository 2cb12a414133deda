-------------------------- MODULE TaskStateProofs --------------------------
(***************************************************************************)
(* Proofs about TaskState, for any number of documents, keys, workers and   *)
(* clients, any lease and any retry budget.                                 *)
(***************************************************************************)
EXTENDS TaskState, TLAPS

-----------------------------------------------------------------------------
(* The updates of one document. *)

\* Every update yields a document.
LEMMA UpdatesTyped ==
  ASSUME NEW d \in TaskDocs, NEW t \in Nat, NEW n \in Nat, NEW c \in Int
  PROVE  /\ Claimed(d, t, n) \in TaskDocs
         /\ Renewed(d, t, n) \in TaskDocs
         /\ Released(d) \in TaskDocs
         /\ Failed(d, n, t) \in TaskDocs
         /\ MarkedFailed(d) \in TaskDocs
         /\ Enqueued \in TaskDocs
         /\ Absent \in TaskDocs
         /\ Paused(d) \in TaskDocs
         /\ Resumed(d) \in TaskDocs
         /\ BudgetCleared(d) \in TaskDocs
         /\ StaleReleased(d, c) \in TaskDocs
         /\ Refreshed(d, t) \in TaskDocs
<1>1. \A m : Backoff(m) \in Nat
  BY BackoffAssumption DEF Backoff
<1>2. Failed(d, n, t) \in TaskDocs
  <2>1. t + Backoff(n + 1) \in Nat
    BY <1>1
  <2>2. FailedAs(d, n + 1, t) \in TaskDocs
    <3>1. CASE n + 1 >= MaxAttempts
      <4>1. n + 1 \in Nat
        OBVIOUS
      <4> QED BY <3>1, <4>1 DEF FailedAs, TaskDocs, Statuses, Frozen
    <3>2. CASE ~ (n + 1 >= MaxAttempts)
      <4>1. n + 1 \in Nat
        OBVIOUS
      <4> QED BY <2>1, <3>2, <4>1 DEF FailedAs, TaskDocs, Statuses, Idle, NoLease
    <3> QED BY <3>1, <3>2
  <2> QED BY <2>2 DEF Failed
<1>3. Claimed(d, t, n) \in TaskDocs
  <2>1. t + n \in Nat
    OBVIOUS
  <2> QED BY <2>1 DEF Claimed, TaskDocs, Statuses
<1>4. Renewed(d, t, n) \in TaskDocs
  BY DEF Renewed, TaskDocs, Statuses
<1>5. Released(d) \in TaskDocs /\ MarkedFailed(d) \in TaskDocs
  BY DEF Released, MarkedFailed, TaskDocs, Statuses, Idle, Frozen, NoLease
<1>6. Enqueued \in TaskDocs /\ Absent \in TaskDocs
  BY DEF Enqueued, Absent, TaskDocs, Statuses, Idle, NoLease
<1>7. Paused(d) \in TaskDocs /\ Resumed(d) \in TaskDocs
  BY DEF Paused, Resumed, TaskDocs, Statuses, Idle, Frozen, NoLease
<1>8. BudgetCleared(d) \in TaskDocs /\ StaleReleased(d, c) \in TaskDocs
  BY DEF BudgetCleared, StaleReleased, TaskDocs, Statuses, Idle
<1>9. Refreshed(d, t) \in TaskDocs
  BY DEF Refreshed, TaskDocs
<1> QED BY <1>2, <1>3, <1>4, <1>5, <1>6, <1>7, <1>8, <1>9

\* The two representations of document i agree, or a run of a merge that lost its
\* claim has refreshed the legacy one.
Fits(i, d) == Agrees(d) \/ (KeyOf[i] \in MergeKeys /\ LooksBusy(d))

\* Every update keeps `status` and `processing` as they should be.
LEMMA UpdatesAgree ==
  ASSUME NEW i \in Ids, NEW d \in TaskDocs, Fits(i, d), NEW t \in Nat \ {0},
         NEW n \in Nat, NEW c \in Int
  PROVE  /\ Fits(i, Claimed(d, t, n))
         /\ Fits(i, Renewed(d, t, n))
         /\ Fits(i, Released(d))
         /\ Fits(i, Failed(d, n, t))
         /\ Fits(i, MarkedFailed(d))
         /\ Fits(i, Enqueued)
         /\ Fits(i, Absent)
         /\ Fits(i, Paused(d))
         /\ Fits(i, Resumed(d))
         /\ Fits(i, BudgetCleared(d))
         /\ Fits(i, StaleReleased(d, c))
         /\ KeyOf[i] \in MergeKeys => Fits(i, Refreshed(d, t))
<1>1. Fits(i, Failed(d, n, t))
  BY DEF Fits, Agrees, LooksBusy, Failed, FailedAs, TaskDocs, Statuses, Idle, Frozen
<1>2. Fits(i, Renewed(d, t, n)) /\ Fits(i, BudgetCleared(d))
  BY DEF Fits, Agrees, LooksBusy, Renewed, BudgetCleared, TaskDocs
<1>3. KeyOf[i] \in MergeKeys => Fits(i, Refreshed(d, t))
  BY DEF Fits, Agrees, LooksBusy, Refreshed, TaskDocs, Statuses
<1>4. Fits(i, Paused(d)) /\ Fits(i, Resumed(d)) /\ Fits(i, StaleReleased(d, c))
  BY DEF Fits, Agrees, LooksBusy, Paused, Resumed, StaleReleased, TaskDocs,
         Statuses, Idle, Frozen
<1> QED BY <1>1, <1>2, <1>3, <1>4
     DEF Fits, Agrees, LooksBusy, Claimed, Released, MarkedFailed, Enqueued, Absent,
         TaskDocs, Statuses, Idle, Frozen

\* Every update keeps the retry budget, given that the copy a failure is
\* counted from had some left.
LEMMA UpdatesBudget ==
  ASSUME NEW d \in TaskDocs, HasBudget(d), NEW t \in Nat, NEW n \in Nat,
         n < MaxAttempts, NEW c \in Int
  PROVE  /\ Claimable(d, t) => \A s \in Nat : HasBudget(Claimed(d, s, n))
         /\ HasBudget(Renewed(d, t, n))
         /\ HasBudget(Released(d))
         /\ HasBudget(Failed(d, n, t))
         /\ HasBudget(MarkedFailed(d))
         /\ HasBudget(Enqueued)
         /\ HasBudget(Absent)
         /\ HasBudget(Paused(d))
         /\ HasBudget(Resumed(d))
         /\ HasBudget(BudgetCleared(d))
         /\ HasBudget(StaleReleased(d, c))
         /\ HasBudget(Refreshed(d, t))
<1>1. HasBudget(Failed(d, n, t))
  BY BudgetAssumption DEF HasBudget, Failed, FailedAs, TaskDocs, Statuses
<1>2. Claimable(d, t) => \A s \in Nat : HasBudget(Claimed(d, s, n))
  BY DEF HasBudget, Claimed, Claimable, TaskDocs
<1>7. HasBudget(Renewed(d, t, n))
  BY DEF HasBudget, Renewed, TaskDocs
<1>3. HasBudget(Released(d)) /\ HasBudget(MarkedFailed(d))
  BY DEF HasBudget, Released, MarkedFailed, TaskDocs, Statuses
<1>4. HasBudget(Enqueued) /\ HasBudget(Absent) /\ HasBudget(BudgetCleared(d))
  BY BudgetAssumption DEF HasBudget, Enqueued, Absent, BudgetCleared, TaskDocs
<1>5. HasBudget(Paused(d)) /\ HasBudget(Resumed(d))
  BY BudgetAssumption DEF HasBudget, Paused, Resumed, TaskDocs, Statuses
<1>6. HasBudget(StaleReleased(d, c)) /\ HasBudget(Refreshed(d, t))
  BY DEF HasBudget, StaleReleased, Refreshed, TaskDocs, Statuses
<1> QED BY <1>1, <1>2, <1>3, <1>4, <1>5, <1>6, <1>7
-----------------------------------------------------------------------------
(* Type correctness, with what the workers' variables mean. *)

Bindings ==
  /\ now >= 1
  /\ \A w \in Workers :
       /\ pc[w] = "handling" => mine[w] \in Ids
       /\ pc[w] = "claiming" => asOf[w] \in 1..now

TInv == TypeOK /\ Bindings

\* What the shared parts of the actions do to the typed state.
LEMMA RevokeTyped ==
  ASSUME TInv, NEW i \in Ids, NEW d \in TaskDocs, Revoke(i, d),
         UNCHANGED <<now, workerVars>>, used' \in SUBSET Ids,
         enq' \in [Clients -> Keys \cup {NoKey}]
  PROVE  TInv'
BY DEF TInv, TypeOK, Bindings, Revoke, workerVars

LEMMA LeaveTyped ==
  ASSUME TInv, NEW w \in Workers, NEW d \in TaskDocs, LeaveWith(w, d)
  PROVE  TInv'
<1>1. mine[w] \in Ids
  BY DEF TInv, Bindings, LeaveWith
<1>2. TypeOK'
  BY <1>1 DEF TInv, TypeOK, LeaveWith, Forget
<1>3. Bindings'
  BY DEF TInv, TypeOK, Bindings, LeaveWith, Forget
<1> QED BY <1>2, <1>3 DEF TInv

LEMMA TInvStep == TInv /\ [Next]_vars => TInv'
<1> SUFFICES ASSUME TInv, [Next]_vars PROVE TInv'
  OBVIOUS
<1> USE DEF TInv
<1>1. ASSUME NEW w \in Workers, Sample(w) PROVE TInv'
  <2>1. TypeOK'
    BY <1>1 DEF TypeOK, Sample
  <2>2. Bindings'
    BY <1>1 DEF TypeOK, Bindings, Sample
  <2> QED BY <2>1, <2>2
<1>2. ASSUME NEW w \in Workers, TryClaim(w) PROVE TInv'
  <2>1. PICK i \in sampled[w] : ClaimWins(w, i) \/ ClaimLoses(w, i)
    BY <1>2 DEF TryClaim
  <2>2. i \in Ids /\ asOf[w] \in Nat /\ tasks[i] \in TaskDocs
    BY <2>1 DEF TypeOK
  <2>3. pc[w] = "claiming" /\ UNCHANGED <<now, used, enq>>
    BY <1>2 DEF TryClaim
  <2>4. CASE ClaimWins(w, i)
    <3>1. Claimed(tasks[i], asOf[w], Lease) \in TaskDocs
      <4>1. Lease \in Nat /\ 0 \in Int
        BY TimesAssumption
      <4> HIDE DEF TInv
      <4> QED BY <2>2, <4>1, UpdatesTyped
    <3>2. tasks[i].attempts \in Nat /\ asOf[w] + Lease \in Nat
      BY <2>2, TimesAssumption DEF TaskDocs
    <3>3. TypeOK'
      BY <2>2, <2>3, <2>4, <3>1, <3>2 DEF TypeOK, ClaimWins
    <3>4. Bindings'
      BY <2>2, <2>3, <2>4 DEF TypeOK, Bindings, ClaimWins
    <3> QED BY <3>3, <3>4
  <2>5. CASE ClaimLoses(w, i)
    <3>1. TypeOK'
      BY <2>2, <2>3, <2>5 DEF TypeOK, ClaimLoses
    <3>2. Bindings'
      BY <2>2, <2>3, <2>5 DEF TypeOK, Bindings, ClaimLoses
    <3> QED BY <3>1, <3>2
  <2> QED BY <2>1, <2>4, <2>5
<1>3. ASSUME NEW w \in Workers, Renew(w) PROVE TInv'
  <2>1. mine[w] \in Ids /\ now + TypeLease \in Nat
    BY <1>3, TimesAssumption DEF Renew, Bindings, TypeOK
  <2>2. Renewed(tasks[mine[w]], now, TypeLease) \in TaskDocs
    <3>1. tasks[mine[w]] \in TaskDocs /\ now \in Nat /\ TypeLease \in Nat /\ 0 \in Int
      BY <2>1, TimesAssumption DEF TypeOK
    <3> HIDE DEF TInv
    <3> QED BY <3>1, UpdatesTyped
  <2>3. TypeOK'
    BY <1>3, <2>1, <2>2 DEF TypeOK, Renew
  <2>4. Bindings'
    BY <1>3 DEF Bindings, Renew
  <2> QED BY <2>3, <2>4
<1>4. ASSUME NEW w \in Workers, pc[w] = "handling"
      PROVE  /\ mine[w] \in Ids
             /\ Released(tasks[mine[w]]) \in TaskDocs
             /\ Absent \in TaskDocs
             /\ Failed(tasks[mine[w]], seen[w], now) \in TaskDocs
             /\ MarkedFailed(tasks[mine[w]]) \in TaskDocs
             /\ BudgetCleared(tasks[mine[w]]) \in TaskDocs
             /\ Refreshed(tasks[mine[w]], now) \in TaskDocs
  <2>1. /\ mine[w] \in Ids /\ tasks[mine[w]] \in TaskDocs
        /\ seen[w] \in Nat /\ now \in Nat /\ 0 \in Int
    BY <1>4 DEF Bindings, TypeOK
  <2> HIDE DEF TInv
  <2> QED BY <2>1, UpdatesTyped
<1>5. ASSUME NEW w \in Workers,
             RefreshClaim(w) \/ ReleaseEarly(w) \/ Release(w) \/ Complete(w)
               \/ Fail(w) \/ MarkFailed(w) \/ KeepGoing(w)
      PROVE  TInv'
  <2>1. pc[w] = "handling"
    BY <1>5 DEF RefreshClaim, ReleaseEarly, Release, Complete, Fail, MarkFailed,
                KeepGoing, LeaveWith
  <2>2. CASE ReleaseEarly(w)
    BY <1>4, <2>1, <2>2, RevokeTyped DEF ReleaseEarly, TypeOK, workerVars
  <2>3. CASE Release(w)
    BY <1>4, <2>1, <2>3, LeaveTyped DEF Release
  <2>4. CASE Complete(w)
    BY <1>4, <2>1, <2>4, LeaveTyped DEF Complete
  <2>5. CASE Fail(w)
    BY <1>4, <2>1, <2>5, LeaveTyped DEF Fail
  <2>6. CASE MarkFailed(w)
    <3>1. CASE LeaveWith(w, MarkedFailed(tasks[mine[w]]))
      BY <1>4, <2>1, <3>1, LeaveTyped
    <3>2. CASE ~ LeaveWith(w, MarkedFailed(tasks[mine[w]]))
      BY <1>4, <2>1, <2>6, <3>2, RevokeTyped DEF MarkFailed, TypeOK, workerVars
    <3> QED BY <3>1, <3>2
  <2>7. CASE KeepGoing(w)
    BY <1>4, <2>1, <2>7, LeaveTyped DEF KeepGoing
  <2>8. CASE RefreshClaim(w)
    BY <1>4, <2>1, <2>8, RevokeTyped DEF RefreshClaim, TypeOK, workerVars
  <2> QED BY <1>5, <2>2, <2>3, <2>4, <2>5, <2>6, <2>7, <2>8
<1>6. ASSUME NEW w \in Workers, Crash(w) PROVE TInv'
  <2>1. TypeOK'
    BY <1>6 DEF TypeOK, Crash, Forget
  <2>2. Bindings'
    BY <1>6 DEF TypeOK, Bindings, Crash, Forget
  <2> QED BY <2>1, <2>2
<1>7. ASSUME NEW i \in Ids,
             ReleaseStale(i) \/ AddMark(i) \/ Pause(i) \/ Resume(i) \/ RemoveTask(i)
      PROVE  TInv'
  <2>1. /\ StaleReleased(tasks[i], now - StaleAge) \in TaskDocs
        /\ Enqueued \in TaskDocs
        /\ Paused(tasks[i]) \in TaskDocs
        /\ Resumed(tasks[i]) \in TaskDocs
        /\ Absent \in TaskDocs
    <3>1. tasks[i] \in TaskDocs /\ now \in Nat /\ now - StaleAge \in Int
      BY TimesAssumption DEF TypeOK
    <3> QED BY <3>1, UpdatesTyped
  <2>2. UNCHANGED workerVars /\ now' = now /\ enq' = enq /\ used' \in SUBSET Ids
    BY <1>7 DEF ReleaseStale, AddMark, Pause, Resume, RemoveTask, TypeOK,
                workerVars
  <2> QED BY <1>7, <2>1, <2>2, RevokeTyped
       DEF ReleaseStale, AddMark, Pause, Resume, RemoveTask, TypeOK
<1>8. ASSUME NEW c \in Clients, NEW k \in Keys, EnqueueRead(c, k) PROVE TInv'
  BY <1>8 DEF EnqueueRead, TypeOK, Bindings, workerVars
<1>9. ASSUME NEW c \in Clients, EnqueueWrite(c) PROVE TInv'
  <2>1. PICK i \in Ids : Revoke(i, Enqueued) /\ used' \in SUBSET Ids
    BY <1>9 DEF EnqueueWrite, Matching, TypeOK
  <2>2. enq' \in [Clients -> Keys \cup {NoKey}]
    BY <1>9 DEF EnqueueWrite, TypeOK
  <2>3. Enqueued \in TaskDocs
    BY DEF Enqueued, TaskDocs, Statuses, Idle, NoLease
  <2> QED BY <1>9, <2>1, <2>2, <2>3, RevokeTyped DEF EnqueueWrite
<1>10. CASE Tick
  BY <1>10 DEF Tick, TypeOK, Bindings, workerVars
<1>11. CASE UNCHANGED vars
  BY <1>11 DEF vars, TypeOK, Bindings
<1> QED BY <1>1, <1>2, <1>3, <1>5, <1>6, <1>7, <1>8, <1>9, <1>10, <1>11
     DEF Next, OwnTaskStep, ClientStep

LEMMA TInvInit == Init => TInv
<1> SUFFICES ASSUME Init PROVE TInv
  OBVIOUS
<1>1. LegacyDocs \cup {Absent} \subseteq TaskDocs
  <2>1. ASSUME NEW p \in {Idle, Frozen, 1}
        PROVE  [Absent EXCEPT !.status = "unset", !.processing = p] \in TaskDocs
    <3>1. p \in Nat \cup {Frozen} /\ Idle \in Nat
      BY DEF Idle
    <3> QED BY <3>1 DEF Absent, TaskDocs, Statuses, NoLease
  <2>2. Absent \in TaskDocs
    BY DEF Absent, TaskDocs, Statuses, Idle, NoLease
  <2> QED BY <2>1, <2>2 DEF LegacyDocs
<1>2. tasks \in [Ids -> TaskDocs]
  BY <1>1 DEF Init
<1> QED BY <1>2 DEF Init, TInv, TypeOK, Bindings

\* Every state of the task collection and of its workers is well typed: all the
\* updates, in any order, leave a document with all its fields in range.
THEOREM TypeCorrect == Spec => []TypeOK
<1>1. TInv => TypeOK
  BY DEF TInv
<1> QED BY <1>1, TInvInit, TInvStep, PTL DEF Spec
-----------------------------------------------------------------------------
(* The documents: their two representations agree, a running one expires, and *)
(* one that is not dead has failures left. *)

\* The lease of a running document ends within a lease from t.
Expires(d, t) ==
  d.status = "running" =>
    /\ d.lease # NoLease
    /\ d.lease <= t + Lease \/ d.lease <= t + TypeLease

Good(i, d, t) == Fits(i, d) /\ HasBudget(d) /\ Expires(d, t)

DInv ==
  /\ \A i \in Ids : Good(i, tasks[i], now)
  /\ \A w \in Workers : seen[w] < MaxAttempts

\* No update but a claim or a renewal makes a document running, or changes the
\* lease of one that is.
LEMMA UpdatesExpire ==
  ASSUME NEW d \in TaskDocs, NEW t \in Nat, Expires(d, t), NEW n \in Nat,
         NEW c \in Int
  PROVE  /\ \A s \in 0..t : Expires(Claimed(d, s, Lease), t)
         /\ Expires(Renewed(d, t, TypeLease), t)
         /\ Expires(Released(d), t)
         /\ Expires(Failed(d, n, t), t)
         /\ Expires(MarkedFailed(d), t)
         /\ Expires(Enqueued, t)
         /\ Expires(Absent, t)
         /\ Expires(Paused(d), t)
         /\ Expires(Resumed(d), t)
         /\ Expires(BudgetCleared(d), t)
         /\ Expires(StaleReleased(d, c), t)
         /\ Expires(Refreshed(d, t), t)
<1>1. \A s \in 0..t : Expires(Claimed(d, s, Lease), t)
  <2> SUFFICES ASSUME NEW s \in 0..t PROVE Expires(Claimed(d, s, Lease), t)
    OBVIOUS
  <2>1. Claimed(d, s, Lease).lease = s + Lease
    BY DEF Claimed, TaskDocs
  <2> QED BY <2>1, TimesAssumption DEF Expires, NoLease
<1>2. Expires(Renewed(d, t, TypeLease), t)
  BY TimesAssumption DEF Expires, Renewed, TaskDocs, NoLease
<1>3. Expires(Released(d), t) /\ Expires(MarkedFailed(d), t)
  BY DEF Expires, Released, MarkedFailed, TaskDocs
<1>4. Expires(Failed(d, n, t), t)
  BY DEF Expires, Failed, FailedAs, TaskDocs
<1>5. Expires(Enqueued, t) /\ Expires(Absent, t)
  BY DEF Expires, Enqueued, Absent
<1>6. Expires(Paused(d), t) /\ Expires(Resumed(d), t)
  BY DEF Expires, Paused, Resumed, TaskDocs
<1>7. Expires(BudgetCleared(d), t) /\ Expires(StaleReleased(d, c), t)
  BY DEF Expires, BudgetCleared, StaleReleased, TaskDocs
<1>8. Expires(Refreshed(d, t), t)
  BY DEF Expires, Refreshed, TaskDocs
<1> QED BY <1>1, <1>2, <1>3, <1>4, <1>5, <1>6, <1>7, <1>8

\* The three together, for one document.
LEMMA UpdatesGood ==
  ASSUME NEW i \in Ids, NEW d \in TaskDocs, NEW t \in Nat \ {0}, Good(i, d, t),
         NEW n \in Nat, n < MaxAttempts, NEW c \in Int
  PROVE  /\ \A s \in 1..t : Claimable(d, s) => Good(i, Claimed(d, s, Lease), t)
         /\ Good(i, Renewed(d, t, TypeLease), t)
         /\ Good(i, Released(d), t)
         /\ Good(i, Failed(d, n, t), t)
         /\ Good(i, MarkedFailed(d), t)
         /\ Good(i, Enqueued, t)
         /\ Good(i, Absent, t)
         /\ Good(i, Paused(d), t)
         /\ Good(i, Resumed(d), t)
         /\ Good(i, BudgetCleared(d), t)
         /\ Good(i, StaleReleased(d, c), t)
         /\ KeyOf[i] \in MergeKeys => Good(i, Refreshed(d, t), t)
<1>1. ASSUME NEW s \in 1..t, Claimable(d, s) PROVE Good(i, Claimed(d, s, Lease), t)
  <2>1. Fits(i, Claimed(d, s, Lease))
    BY DEF Fits, Agrees, Claimed, TaskDocs
  <2>2. HasBudget(Claimed(d, s, Lease))
    BY <1>1 DEF Good, HasBudget, Claimed, Claimable, TaskDocs
  <2>3. Expires(Claimed(d, s, Lease), t)
    <3>1. s \in 0..t
      OBVIOUS
    <3> QED BY <3>1, UpdatesExpire DEF Good
  <2> QED BY <2>1, <2>2, <2>3 DEF Good
<1>2. Good(i, Renewed(d, t, TypeLease), t)
  <2>1. TypeLease \in Nat
    BY TimesAssumption
  <2>2. Fits(i, Renewed(d, t, TypeLease)) /\ HasBudget(Renewed(d, t, TypeLease))
    <3>1. 0 \in Int /\ t \in Nat
      OBVIOUS
    <3>2. Fits(i, Renewed(d, t, TypeLease))
      BY <2>1, <3>1, UpdatesAgree DEF Good
    <3>3. HasBudget(Renewed(d, t, TypeLease))
      BY DEF Good, HasBudget, Renewed, TaskDocs
    <3> QED BY <3>2, <3>3
  <2> QED BY <2>2, UpdatesExpire DEF Good
<1> QED BY <1>1, <1>2, UpdatesAgree, UpdatesBudget, UpdatesExpire DEF Good

\* One document is updated and the workers keep their copies, or drop them.
LEMMA OneUpdateGood ==
  ASSUME TInv, DInv, NEW i \in Ids, NEW d, Good(i, d, now),
         tasks' = [tasks EXCEPT ![i] = d], now' = now,
         \A w \in Workers : seen'[w] < MaxAttempts
  PROVE  DInv'
BY DEF TInv, TypeOK, DInv

LEMMA DInvStep == TInv /\ DInv /\ [Next]_vars => DInv'
<1> SUFFICES ASSUME TInv, DInv, [Next]_vars PROVE DInv'
  OBVIOUS
<1>1. /\ now \in Nat \ {0} /\ now - StaleAge \in Int
      /\ \A i \in Ids : tasks[i] \in TaskDocs /\ Good(i, tasks[i], now)
      /\ \A w \in Workers : seen[w] \in Nat /\ seen[w] < MaxAttempts
  BY TimesAssumption DEF TInv, TypeOK, Bindings, DInv
<1>2. 0 \in Nat /\ 0 < MaxAttempts /\ 0 \in Int
  BY BudgetAssumption
<1>3. ASSUME NEW w \in Workers, Sample(w) PROVE DInv'
  BY <1>3 DEF Sample, DInv
<1>4. ASSUME NEW w \in Workers, TryClaim(w) PROVE DInv'
  <2>1. PICK i \in sampled[w] : ClaimWins(w, i) \/ ClaimLoses(w, i)
    BY <1>4 DEF TryClaim
  <2>2. i \in Ids /\ asOf[w] \in 1..now /\ now' = now
    BY <1>4 DEF TryClaim, TInv, TypeOK, Bindings
  <2>3. CASE ClaimWins(w, i)
    <3>1. Claimable(tasks[i], asOf[w])
      BY <2>3 DEF ClaimWins
    <3>2. Good(i, Claimed(tasks[i], asOf[w], Lease), now)
      BY <1>1, <1>2, <2>2, <3>1, UpdatesGood
    <3>3. tasks[i].attempts < MaxAttempts
      BY <1>1, <2>2, <3>1 DEF Good, HasBudget, Claimable
    <3>4. \A v \in Workers : seen'[v] < MaxAttempts
      BY <1>1, <2>3, <3>3 DEF ClaimWins, TInv, TypeOK
    <3>5. tasks' = [tasks EXCEPT ![i] = Claimed(tasks[i], asOf[w], Lease)]
      BY <2>3 DEF ClaimWins
    <3> QED BY <2>2, <3>2, <3>4, <3>5, OneUpdateGood
  <2>4. CASE ClaimLoses(w, i)
    BY <2>2, <2>4 DEF ClaimLoses, DInv
  <2> QED BY <2>1, <2>3, <2>4
<1>5. ASSUME NEW w \in Workers, Renew(w) PROVE DInv'
  <2>1. mine[w] \in Ids
    BY <1>5 DEF Renew, TInv, Bindings
  <2>2. Good(mine[w], Renewed(tasks[mine[w]], now, TypeLease), now)
    BY <1>1, <1>2, <2>1, UpdatesGood
  <2>3. /\ tasks' = [tasks EXCEPT ![mine[w]] = Renewed(tasks[mine[w]], now, TypeLease)]
        /\ now' = now /\ seen' = seen
    BY <1>5 DEF Renew
  <2> QED BY <1>1, <2>1, <2>2, <2>3, OneUpdateGood
<1>6. ASSUME NEW w \in Workers, pc[w] = "handling"
      PROVE  /\ mine[w] \in Ids
             /\ Good(mine[w], Released(tasks[mine[w]]), now)
             /\ Good(mine[w], Absent, now)
             /\ Good(mine[w], Failed(tasks[mine[w]], seen[w], now), now)
             /\ Good(mine[w], MarkedFailed(tasks[mine[w]]), now)
             /\ Good(mine[w], BudgetCleared(tasks[mine[w]]), now)
             /\ KeyOf[mine[w]] \in MergeKeys =>
                  Good(mine[w], Refreshed(tasks[mine[w]], now), now)
  <2>1. mine[w] \in Ids
    BY <1>6 DEF TInv, Bindings
  <2> QED BY <1>1, <1>2, <2>1, UpdatesGood
<1>7. ASSUME NEW w \in Workers, NEW d, LeaveWith(w, d), Good(mine[w], d, now) PROVE DInv'
  <2>1. mine[w] \in Ids /\ tasks' = [tasks EXCEPT ![mine[w]] = d] /\ now' = now
    BY <1>7 DEF LeaveWith, TInv, Bindings
  <2>2. \A v \in Workers : seen'[v] < MaxAttempts
    BY <1>1, <1>2, <1>7 DEF LeaveWith, Forget, TInv, TypeOK
  <2> QED BY <1>7, <2>1, <2>2, OneUpdateGood
<1>8. ASSUME NEW i \in Ids, NEW d, Revoke(i, d), Good(i, d, now), now' = now,
             UNCHANGED workerVars
      PROVE  DInv'
  <2>1. \A v \in Workers : seen'[v] < MaxAttempts
    BY <1>1, <1>8 DEF workerVars
  <2> QED BY <1>8, <2>1, OneUpdateGood DEF Revoke
<1>9. ASSUME NEW w \in Workers,
             RefreshClaim(w) \/ ReleaseEarly(w) \/ Release(w) \/ Complete(w)
               \/ Fail(w) \/ MarkFailed(w) \/ KeepGoing(w)
      PROVE  DInv'
  <2>1. pc[w] = "handling"
    BY <1>9 DEF RefreshClaim, ReleaseEarly, Release, Complete, Fail, MarkFailed,
                KeepGoing, LeaveWith
  <2> QED BY <1>6, <1>7, <1>8, <1>9, <2>1
       DEF RefreshClaim, ReleaseEarly, Release, Complete, Fail, MarkFailed, KeepGoing
<1>10. ASSUME NEW w \in Workers, Crash(w) PROVE DInv'
  <2>1. \A v \in Workers : seen'[v] < MaxAttempts
    BY <1>1, <1>2, <1>10 DEF Crash, Forget, TInv, TypeOK
  <2> QED BY <1>10, <2>1 DEF Crash, DInv
<1>11. ASSUME NEW i \in Ids,
              ReleaseStale(i) \/ AddMark(i) \/ Pause(i) \/ Resume(i) \/ RemoveTask(i)
       PROVE  DInv'
  <2>1. /\ Good(i, StaleReleased(tasks[i], now - StaleAge), now)
        /\ Good(i, Enqueued, now)
        /\ Good(i, Paused(tasks[i]), now)
        /\ Good(i, Resumed(tasks[i]), now)
        /\ Good(i, Absent, now)
    BY <1>1, <1>2, UpdatesGood
  <2> QED BY <1>8, <1>11, <2>1
       DEF ReleaseStale, AddMark, Pause, Resume, RemoveTask
<1>12. ASSUME NEW c \in Clients, NEW k \in Keys, EnqueueRead(c, k) PROVE DInv'
  BY <1>12 DEF EnqueueRead, DInv, workerVars
<1>13. ASSUME NEW c \in Clients, EnqueueWrite(c) PROVE DInv'
  <2>1. PICK i \in Ids : Revoke(i, Enqueued)
    BY <1>13 DEF EnqueueWrite, Matching
  <2>2. Good(i, Enqueued, now)
    BY <1>1, <1>2, UpdatesGood
  <2> QED BY <1>8, <1>13, <2>1, <2>2 DEF EnqueueWrite
<1>14. CASE Tick
  <2>1. ASSUME NEW i \in Ids PROVE Good(i, tasks[i], now + 1)
    <3>1. tasks[i].lease \in Int
      BY <1>1 DEF TaskDocs, NoLease
    <3> QED BY <1>1, <3>1, TimesAssumption DEF Good, Expires
  <2> QED BY <1>14, <2>1 DEF Tick, DInv, workerVars
<1>15. CASE UNCHANGED vars
  BY <1>15 DEF vars, DInv
<1> QED BY <1>3, <1>4, <1>5, <1>9, <1>10, <1>11, <1>12, <1>13, <1>14, <1>15
     DEF Next, OwnTaskStep, ClientStep

LEMMA DInvInit == Init => DInv
<1> SUFFICES ASSUME Init PROVE DInv
  OBVIOUS
<1>1. ASSUME NEW i \in Ids, NEW d \in LegacyDocs \cup {Absent} PROVE Good(i, d, now)
  <2>1. d.status \in {"absent", "unset"} /\ d.attempts = 0
    <3>1. CASE d = Absent
      BY <3>1 DEF Absent
    <3>2. CASE d # Absent
      <4>1. PICK p \in {Idle, Frozen, 1} :
              d = [Absent EXCEPT !.status = "unset", !.processing = p]
        BY <1>1, <3>2 DEF LegacyDocs
      <4> QED BY <4>1 DEF Absent
    <3> QED BY <3>1, <3>2
  <2> QED BY <2>1, BudgetAssumption DEF Good, Fits, Agrees, HasBudget, Expires
<1> QED BY <1>1, BudgetAssumption DEF Init, DInv

\* The invariants of the documents hold in every reachable state.
LEMMA DInvAlways == Spec => [](TInv /\ DInv)
BY TInvInit, TInvStep, DInvInit, DInvStep, PTL DEF Spec

\* `status` and `processing` agree in every reachable state, for any number of
\* workers, clients and documents, but for merges refreshed by a run that has
\* lost its claim, which look busy.
THEOREM DualWrite == Spec => []DualWriteAgrees
<1>1. TInv /\ DInv => DualWriteAgrees
  BY DEF DInv, Good, Fits, DualWriteAgrees
<1> QED BY <1>1, DInvAlways, PTL

\* A running task always has a lease that ends, whichever worker crashes when.
THEOREM LeasesEnd == Spec => []RunningExpires
<1>1. TInv /\ DInv => RunningExpires
  BY DEF DInv, Good, Expires, RunningExpires
<1> QED BY <1>1, DInvAlways, PTL

\* A task outside the dead letter state has failures left, and so has every
\* worker's copy, however stale.
THEOREM BudgetKept == Spec => []BudgetLeft
<1>1. TInv /\ DInv => BudgetLeft
  BY DEF DInv, Good, BudgetLeft
<1> QED BY <1>1, DInvAlways, PTL
-----------------------------------------------------------------------------
(* Leases exclude each other. *)

\* A claim nobody has revoked is the work of its worker on a running document,
\* whose lease covers the worker's own.
Covered ==
  \A i \in Ids : \A w \in claims[i] :
    /\ pc[w] = "handling" /\ mine[w] = i
    /\ tasks[i].status = "running"
    /\ until[w] <= tasks[i].lease

CInv == Covered /\ LeaseExclusion

\* An update that keeps the status of document i keeps its lease as well.
KeepsLease(d, e) == e.status = d.status /\ e.status = "running" => e.lease = d.lease

LEMMA RevokeCovered ==
  ASSUME TInv, CInv, NEW i \in Ids, NEW d \in TaskDocs, Revoke(i, d),
         KeepsLease(tasks[i], d), now' = now, UNCHANGED workerVars
  PROVE  CInv'
<1>1. \A j \in Ids : claims'[j] = claims[j] \/ claims'[j] = {}
  BY DEF Revoke, TInv, TypeOK
<1>2. Covered'
  BY <1>1 DEF Revoke, CInv, Covered, KeepsLease, TInv, TypeOK, workerVars
<1>3. LeaseExclusion'
  BY <1>1 DEF CInv, LeaseExclusion, workerVars
<1> QED BY <1>2, <1>3 DEF CInv

LEMMA LeaveCovered ==
  ASSUME TInv, CInv, NEW w \in Workers, NEW d \in TaskDocs, LeaveWith(w, d),
         KeepsLease(tasks[mine[w]], d)
  PROVE  CInv'
<1> DEFINE i == mine[w]
<1>1. i \in Ids /\ now' = now
  BY DEF LeaveWith, TInv, Bindings
<1>2. \A j \in Ids : claims'[j] \subseteq claims[j] \ {w}
  BY <1>1 DEF LeaveWith, TInv, TypeOK, CInv, Covered
<1>3. \A v \in Workers \ {w} : /\ pc'[v] = pc[v] /\ mine'[v] = mine[v]
                                /\ until'[v] = until[v]
  BY DEF LeaveWith, Forget, TInv, TypeOK
<1>4. claims'[i] # {} => d.status = tasks[i].status
  BY <1>1 DEF LeaveWith, TInv, TypeOK
<1>5. /\ tasks'[i] = d
      /\ \A j \in Ids \ {i} : tasks'[j] = tasks[j]
  BY <1>1 DEF LeaveWith, TInv, TypeOK
<1>6. \A j \in Ids : claims[j] \subseteq Workers
  BY DEF TInv, TypeOK
<1>7. Covered'
  BY <1>1, <1>2, <1>3, <1>4, <1>5, <1>6 DEF CInv, Covered, KeepsLease
<1>8. LeaseExclusion'
  BY <1>1, <1>2, <1>3, <1>6 DEF CInv, LeaseExclusion
<1> QED BY <1>7, <1>8 DEF CInv

LEMMA UpdatesKeepLease ==
  ASSUME NEW d \in TaskDocs, NEW t \in Nat, NEW n \in Nat, NEW c \in Int
  PROVE  /\ KeepsLease(d, Released(d))
         /\ KeepsLease(d, Failed(d, n, t))
         /\ KeepsLease(d, MarkedFailed(d))
         /\ KeepsLease(d, Enqueued)
         /\ KeepsLease(d, Absent)
         /\ KeepsLease(d, Paused(d))
         /\ KeepsLease(d, Resumed(d))
         /\ KeepsLease(d, BudgetCleared(d))
         /\ KeepsLease(d, StaleReleased(d, c))
         /\ KeepsLease(d, Refreshed(d, t))
<1>1. KeepsLease(d, Failed(d, n, t))
  BY DEF KeepsLease, Failed, FailedAs, TaskDocs
<1>2. KeepsLease(d, Released(d)) /\ KeepsLease(d, MarkedFailed(d))
  BY DEF KeepsLease, Released, MarkedFailed, TaskDocs
<1>3. KeepsLease(d, Enqueued) /\ KeepsLease(d, Absent)
  BY DEF KeepsLease, Enqueued, Absent
<1>4. KeepsLease(d, Paused(d)) /\ KeepsLease(d, Resumed(d))
  BY DEF KeepsLease, Paused, Resumed, TaskDocs
<1>5. KeepsLease(d, BudgetCleared(d)) /\ KeepsLease(d, StaleReleased(d, c))
  BY DEF KeepsLease, BudgetCleared, StaleReleased, TaskDocs
<1>6. KeepsLease(d, Refreshed(d, t))
  BY DEF KeepsLease, Refreshed, TaskDocs
<1> QED BY <1>1, <1>2, <1>3, <1>4, <1>5, <1>6

LEMMA CInvStep == TInv /\ CInv /\ [Next]_vars => CInv'
<1> SUFFICES ASSUME TInv, CInv, [Next]_vars PROVE CInv'
  OBVIOUS
<1>1. /\ now \in Nat /\ now - StaleAge \in Int
      /\ \A i \in Ids : tasks[i] \in TaskDocs /\ claims[i] \subseteq Workers
      /\ \A w \in Workers : seen[w] \in Nat /\ until[w] \in Nat
  BY TimesAssumption DEF TInv, TypeOK
<1>2. Enqueued \in TaskDocs /\ Absent \in TaskDocs
  BY DEF Enqueued, Absent, TaskDocs, Statuses, Idle, NoLease
<1>3. ASSUME NEW w \in Workers, Sample(w) PROVE CInv'
  <2>1. \A i \in Ids : w \notin claims[i]
    BY <1>3 DEF Sample, CInv, Covered
  <2>2. Covered'
    BY <1>1, <1>3, <2>1 DEF Sample, CInv, Covered, TInv, TypeOK
  <2>3. LeaseExclusion'
    BY <1>3 DEF Sample, CInv, LeaseExclusion
  <2> QED BY <2>2, <2>3 DEF CInv
<1>4. ASSUME NEW w \in Workers, TryClaim(w) PROVE CInv'
  <2>1. PICK i \in sampled[w] : ClaimWins(w, i) \/ ClaimLoses(w, i)
    BY <1>4 DEF TryClaim
  <2>2. /\ i \in Ids /\ asOf[w] \in 1..now /\ now' = now
        /\ pc[w] = "claiming" /\ tasks[i] \in TaskDocs
    BY <1>4 DEF TryClaim, TInv, TypeOK, Bindings
  <2>3. \A j \in Ids : w \notin claims[j]
    BY <2>2 DEF CInv, Covered
  <2>4. CASE ClaimWins(w, i)
    \* Whoever else still has an unrevoked claim had a lease that has ended.
    <3>1. \A v \in claims[i] : until[v] < asOf[w]
      BY <1>1, <2>2, <2>4 DEF ClaimWins, Claimable, CInv, Covered, TaskDocs, NoLease
    <3>2. /\ tasks'[i] = Claimed(tasks[i], asOf[w], Lease)
          /\ \A j \in Ids \ {i} : tasks'[j] = tasks[j] /\ claims'[j] = claims[j]
          /\ claims'[i] = claims[i] \cup {w}
          /\ pc'[w] = "handling" /\ mine'[w] = i /\ until'[w] = asOf[w] + Lease
          /\ \A v \in Workers \ {w} :
               pc'[v] = pc[v] /\ mine'[v] = mine[v] /\ until'[v] = until[v]
      BY <2>2, <2>4 DEF ClaimWins, TInv, TypeOK
    <3>3. tasks'[i].status = "running" /\ tasks'[i].lease = asOf[w] + Lease
      BY <2>2, <3>2 DEF Claimed, TaskDocs
    <3>4. Covered'
      <4>1. ASSUME NEW j \in Ids, NEW v \in claims'[j], v # w
            PROVE  /\ pc'[v] = "handling" /\ mine'[v] = j
                   /\ tasks'[j].status = "running" /\ until'[v] <= tasks'[j].lease
        <5>1. v \in claims[j] /\ v \in Workers
          BY <1>1, <3>2, <4>1
        <5>2. CASE j = i
          BY <1>1, <2>2, <3>1, <3>2, <3>3, <4>1, <5>1, <5>2, TimesAssumption
             DEF CInv, Covered
        <5>3. CASE j # i
          BY <3>2, <4>1, <5>1, <5>3 DEF CInv, Covered
        <5> QED BY <5>2, <5>3
      <4>2. ASSUME NEW j \in Ids, w \in claims'[j]
            PROVE  /\ pc'[w] = "handling" /\ mine'[w] = j
                   /\ tasks'[j].status = "running" /\ until'[w] <= tasks'[j].lease
        <5>1. j = i
          BY <2>3, <3>2, <4>2
        <5> QED BY <2>2, <3>2, <3>3, <5>1, TimesAssumption
      <4> QED BY <4>1, <4>2 DEF Covered
    <3>5. LeaseExclusion'
      <4>1. ASSUME NEW v \in claims[i] PROVE ~ (until'[v] >= now')
        BY <1>1, <2>2, <2>3, <3>1, <3>2, <4>1
      <4>2. ASSUME NEW j \in Ids \ {i}, NEW v1 \in claims'[j], NEW v2 \in claims'[j],
                   until'[v1] >= now', until'[v2] >= now'
            PROVE  v1 = v2
        BY <1>1, <2>2, <2>3, <3>2, <4>2 DEF CInv, LeaseExclusion
      <4>3. ASSUME NEW v1 \in claims'[i], NEW v2 \in claims'[i],
                   until'[v1] >= now', until'[v2] >= now'
            PROVE  v1 = v2
        BY <3>2, <4>1, <4>3
      <4> QED BY <4>2, <4>3 DEF LeaseExclusion
    <3> QED BY <3>4, <3>5 DEF CInv
  <2>5. CASE ClaimLoses(w, i)
    <3>1. /\ UNCHANGED <<tasks, mine, until, claims>>
          /\ \A v \in Workers \ {w} : pc'[v] = pc[v]
      BY <2>5 DEF ClaimLoses, TInv, TypeOK
    <3>2. Covered'
      BY <1>1, <2>3, <3>1 DEF CInv, Covered
    <3>3. LeaseExclusion'
      BY <2>2, <3>1 DEF CInv, LeaseExclusion
    <3> QED BY <3>2, <3>3 DEF CInv
  <2> QED BY <2>1, <2>4, <2>5
<1>5. ASSUME NEW w \in Workers, Renew(w) PROVE CInv'
  <2> DEFINE i == mine[w]
  <2>1. /\ i \in Ids /\ now' = now /\ pc' = pc /\ mine' = mine
        /\ tasks'[i] = Renewed(tasks[i], now, TypeLease)
        /\ \A j \in Ids \ {i} : tasks'[j] = tasks[j]
    BY <1>5 DEF Renew, TInv, TypeOK, Bindings
  <2>2. CASE tasks[i].status = "running" /\ w \in claims[i] /\ until[w] >= now
    <3>1. claims' = claims /\ until' = [until EXCEPT ![w] = now + TypeLease]
      BY <1>5, <2>2 DEF Renew
    <3>2. \A v \in Workers \ {w} : until'[v] = until[v]
      BY <3>1 DEF TInv, TypeOK
    <3>3. until'[w] = now + TypeLease
      BY <3>1 DEF TInv, TypeOK
    <3>4. tasks'[i].status = "running" /\ tasks'[i].lease = now + TypeLease
      BY <1>1, <2>1, <2>2 DEF Renewed, TaskDocs
    \* The others' leases have ended, since this worker's has not.
    <3>5. \A v \in claims[i] \ {w} : until[v] < now
      BY <1>1, <2>1, <2>2 DEF CInv, LeaseExclusion
    <3>6. \A j \in Ids \ {i} : w \notin claims[j]
      BY <2>2 DEF CInv, Covered
    <3>7. Covered'
      BY <1>1, <2>1, <3>1, <3>2, <3>3, <3>4, <3>5, <3>6, TimesAssumption
         DEF CInv, Covered
    <3>8. LeaseExclusion'
      <4>1. ASSUME NEW j \in Ids \ {i}, NEW v1 \in claims'[j], NEW v2 \in claims'[j],
                   until'[v1] >= now', until'[v2] >= now'
            PROVE  v1 = v2
        BY <1>1, <2>1, <3>1, <3>2, <3>6, <4>1 DEF CInv, LeaseExclusion
      <4>2. ASSUME NEW v1 \in claims'[i], NEW v2 \in claims'[i],
                   until'[v1] >= now', until'[v2] >= now'
            PROVE  v1 = v2
        BY <1>1, <2>1, <3>1, <3>2, <3>5, <4>2
      <4> QED BY <4>1, <4>2 DEF LeaseExclusion
    <3> QED BY <3>7, <3>8 DEF CInv
  <2>3. CASE ~ (tasks[i].status = "running" /\ w \in claims[i] /\ until[w] >= now)
    <3>1. claims' = [claims EXCEPT ![i] = {}] /\ until' = until
      BY <1>5, <2>3 DEF Renew
    <3>2. claims'[i] = {} /\ \A j \in Ids \ {i} : claims'[j] = claims[j]
      BY <2>1, <3>1 DEF TInv, TypeOK
    <3>3. Covered'
      BY <2>1, <3>1, <3>2 DEF CInv, Covered
    <3>4. LeaseExclusion'
      BY <2>1, <3>1, <3>2 DEF CInv, LeaseExclusion
    <3> QED BY <3>3, <3>4 DEF CInv
  <2> QED BY <2>2, <2>3
<1>6. ASSUME NEW w \in Workers, pc[w] = "handling"
      PROVE  /\ mine[w] \in Ids
             /\ LET d == tasks[mine[w]]
                IN  \A e \in {Released(d), Absent, Failed(d, seen[w], now),
                             MarkedFailed(d), BudgetCleared(d), Refreshed(d, now)} :
                      e \in TaskDocs /\ KeepsLease(d, e)
  <2>1. mine[w] \in Ids /\ tasks[mine[w]] \in TaskDocs
    BY <1>1, <1>6 DEF TInv, Bindings
  <2> QED BY <1>1, <1>2, <2>1, UpdatesTyped, UpdatesKeepLease
<1>7. ASSUME NEW w \in Workers,
             RefreshClaim(w) \/ ReleaseEarly(w) \/ Release(w) \/ Complete(w)
               \/ Fail(w) \/ MarkFailed(w) \/ KeepGoing(w)
      PROVE  CInv'
  <2>1. pc[w] = "handling"
    BY <1>7 DEF RefreshClaim, ReleaseEarly, Release, Complete, Fail, MarkFailed,
                KeepGoing, LeaveWith
  <2> QED BY <1>6, <1>7, <2>1, RevokeCovered, LeaveCovered
       DEF RefreshClaim, ReleaseEarly, Release, Complete, Fail, MarkFailed, KeepGoing
<1>8. ASSUME NEW w \in Workers, Crash(w) PROVE CInv'
  <2>1. /\ tasks' = tasks /\ now' = now
        /\ \A j \in Ids : claims'[j] = claims[j] \ {w}
        /\ \A v \in Workers \ {w} :
             pc'[v] = pc[v] /\ mine'[v] = mine[v] /\ until'[v] = until[v]
    BY <1>8 DEF Crash, Forget, TInv, TypeOK
  <2>2. Covered'
    BY <1>1, <2>1 DEF CInv, Covered
  <2>3. LeaseExclusion'
    BY <1>1, <2>1 DEF CInv, LeaseExclusion
  <2> QED BY <2>2, <2>3 DEF CInv
<1>9. ASSUME NEW i \in Ids,
             ReleaseStale(i) \/ AddMark(i) \/ Pause(i) \/ Resume(i) \/ RemoveTask(i)
      PROVE  CInv'
  <2>1. \A e \in {StaleReleased(tasks[i], now - StaleAge), Enqueued,
                  Paused(tasks[i]), Resumed(tasks[i]), Absent} :
          e \in TaskDocs /\ KeepsLease(tasks[i], e)
    BY <1>1, <1>2, UpdatesTyped, UpdatesKeepLease
  <2> QED BY <1>9, <2>1, RevokeCovered
       DEF ReleaseStale, AddMark, Pause, Resume, RemoveTask
<1>10. ASSUME NEW c \in Clients, NEW k \in Keys, EnqueueRead(c, k) PROVE CInv'
  BY <1>10 DEF EnqueueRead, CInv, Covered, LeaseExclusion, workerVars
<1>11. ASSUME NEW c \in Clients, EnqueueWrite(c) PROVE CInv'
  <2>1. PICK i \in Ids : Revoke(i, Enqueued)
    BY <1>11 DEF EnqueueWrite, Matching
  <2>2. KeepsLease(tasks[i], Enqueued)
    BY DEF KeepsLease, Enqueued
  <2> QED BY <1>2, <1>11, <2>1, <2>2, RevokeCovered DEF EnqueueWrite
<1>12. CASE Tick
  BY <1>1, <1>12 DEF Tick, CInv, Covered, LeaseExclusion, workerVars
<1>13. CASE UNCHANGED vars
  BY <1>13 DEF vars, CInv, Covered, LeaseExclusion
<1> QED BY <1>3, <1>4, <1>5, <1>7, <1>8, <1>9, <1>10, <1>11, <1>12, <1>13
     DEF Next, OwnTaskStep, ClientStep

LEMMA CInvInit == Init => CInv
BY DEF Init, CInv, Covered, LeaseExclusion

\* Two claims that nobody has revoked are never inside their leases at the same
\* time: claim's compare-and-set on the expired lease is what separates workers
\* that run the same long task.
THEOREM LeasesExclude == Spec => []LeaseExclusion
<1>1. CInv => LeaseExclusion
  BY DEF CInv
<1> QED BY <1>1, TInvInit, TInvStep, CInvInit, CInvStep, PTL DEF Spec
-----------------------------------------------------------------------------
(* What a worker's step may not do. *)

\* The updates that a worker that holds a document applies leave a parked one
\* parked, or delete it.
LEMMA ParkedStays ==
  ASSUME NEW d \in TaskDocs, Parked(d), NEW t \in Nat, NEW n \in Nat
  PROVE  /\ \A s \in Nat : ~ Claimable(d, s)
         /\ Renewed(d, t, n) = d
         /\ Released(d) = d
         /\ Failed(d, n, t) = d
         /\ Parked(MarkedFailed(d))
         /\ Parked(BudgetCleared(d))
         /\ Parked(Refreshed(d, t))
BY DEF Parked, Claimable, Renewed, Released, Failed, MarkedFailed, BudgetCleared,
       Refreshed, TaskDocs

\* No operation on a worker's own task brings it back when it was paused or
\* declared dead meanwhile.
THEOREM NoUnpark == Spec => LateUpdatesNeverUnpark
<1>1. ASSUME TInv, NEW w \in Workers, OwnTaskStep(w), NEW i \in Ids, Parked(tasks[i])
      PROVE  Parked(tasks'[i]) \/ tasks'[i] = Absent
  <2>1. /\ tasks[i] \in TaskDocs /\ now \in Nat /\ TypeLease \in Nat
        /\ seen[w] \in Nat /\ asOf[w] \in Nat
    BY <1>1, TimesAssumption DEF TInv, TypeOK
  <2>2. /\ \A s \in Nat : ~ Claimable(tasks[i], s)
        /\ Renewed(tasks[i], now, TypeLease) = tasks[i]
        /\ Released(tasks[i]) = tasks[i]
        /\ Failed(tasks[i], seen[w], now) = tasks[i]
        /\ Parked(MarkedFailed(tasks[i]))
        /\ Parked(BudgetCleared(tasks[i]))
        /\ Parked(Refreshed(tasks[i], now))
    BY <1>1, <2>1, ParkedStays
  <2>3. CASE Sample(w) \/ Crash(w)
    BY <1>1, <2>3 DEF Sample, Crash
  <2>4. CASE TryClaim(w)
    BY <1>1, <2>1, <2>2, <2>4 DEF TryClaim, ClaimWins, ClaimLoses, TInv, TypeOK
  <2>5. CASE Renew(w)
    BY <1>1, <2>2, <2>5 DEF Renew, TInv, TypeOK
  <2>6. ASSUME NEW d, LeaveWith(w, d), i = mine[w] => Parked(d) \/ d = Absent
        PROVE  Parked(tasks'[i]) \/ tasks'[i] = Absent
    BY <1>1, <2>6 DEF LeaveWith, TInv, TypeOK
  <2>7. ASSUME NEW d, Revoke(mine[w], d), i = mine[w] => Parked(d) \/ d = Absent
        PROVE  Parked(tasks'[i]) \/ tasks'[i] = Absent
    BY <1>1, <2>7 DEF Revoke, TInv, TypeOK
  <2>8. CASE RefreshClaim(w) \/ ReleaseEarly(w) \/ Release(w) \/ Complete(w)
    BY <1>1, <2>2, <2>6, <2>7, <2>8
       DEF RefreshClaim, ReleaseEarly, Release, Complete
  <2>9. CASE Fail(w) \/ MarkFailed(w) \/ KeepGoing(w)
    BY <1>1, <2>2, <2>6, <2>7, <2>9 DEF Fail, MarkFailed, KeepGoing
  <2> QED BY <1>1, <2>3, <2>4, <2>5, <2>8, <2>9 DEF OwnTaskStep
<1>2. TInv /\ [Next]_vars =>
        [(\E w \in Workers : OwnTaskStep(w)) =>
           \A i \in Ids : Parked(tasks[i]) => Parked(tasks'[i]) \/ tasks'[i] = Absent]_vars
  BY <1>1
<1> QED BY <1>2, TInvInit, TInvStep, PTL DEF Spec, LateUpdatesNeverUnpark

\* A claim succeeds only on a task that is claimable when it succeeds, although
\* the sample, and the time it is compared with, are older.
THEOREM ClaimsAreFresh == Spec => ClaimsOnlyClaimable
<1>1. ASSUME TInv, Next, NEW w \in Workers, NEW i \in Ids, mine[w] # i, mine'[w] = i
      PROVE  Claimable(tasks[i], now)
  <2>1. \A v \in Workers : OwnTaskStep(v) => v = w /\ TryClaim(w)
    <3> SUFFICES ASSUME NEW v \in Workers, OwnTaskStep(v) PROVE v = w /\ TryClaim(w)
      OBVIOUS
    <3>1. NoTask # i
      BY NamesAssumption
    <3>2. CASE TryClaim(v)
      BY <1>1, <3>2 DEF TryClaim, ClaimWins, ClaimLoses, TInv, TypeOK
    <3>3. CASE ~ TryClaim(v)
      BY <1>1, <3>1, <3>3
         DEF OwnTaskStep, Sample, Renew, RefreshClaim, ReleaseEarly, Release,
             Complete, Fail, MarkFailed, KeepGoing, Crash, LeaveWith, Forget, workerVars, TInv,
             TypeOK
    <3> QED BY <3>2, <3>3
  <2>2. TryClaim(w)
    BY <1>1, <2>1
       DEF Next, ClientStep, ReleaseStale, EnqueueWrite, EnqueueRead, AddMark,
           Pause, Resume, RemoveTask, Tick, workerVars
  <2>3. ClaimWins(w, i)
    BY <1>1, <2>2 DEF TryClaim, ClaimWins, ClaimLoses, TInv, TypeOK
  <2>4. asOf[w] \in 1..now /\ tasks[i] \in TaskDocs /\ now \in Nat
    <3>1. pc[w] = "claiming"
      BY <2>2 DEF TryClaim
    <3> QED BY <1>1, <3>1 DEF TInv, TypeOK, Bindings
  <2> QED BY <2>3, <2>4 DEF ClaimWins, Claimable, TaskDocs, NoLease
<1>2. TInv /\ [Next]_vars =>
        [\A w \in Workers : \A i \in Ids :
           (mine[w] # i /\ mine'[w] = i) => Claimable(tasks[i], now)]_vars
  BY <1>1
<1> QED BY <1>2, TInvInit, TInvStep, PTL DEF Spec, ClaimsOnlyClaimable
-----------------------------------------------------------------------------
(* The abstract lease excludes, and TaskState implements it. *)

\* The lease of LeaseLock excludes: what TaskState implements is worth having.
\* (Typed and Alone are the inductive invariant: a worker is a holder of one
\* task at most.)
Typed ==
  /\ now \in Nat
  /\ claims \in [Ids -> SUBSET Workers]
  /\ until \in [Workers -> Nat]

Alone == \A i, j \in Ids : claims[i] \cap claims[j] # {} => i = j

LEMMA LeaseStep ==
  Typed /\ Alone /\ LL!Exclusion /\ [LL!Next]_(LL!vars)
    => Typed' /\ Alone' /\ LL!Exclusion'
<1> SUFFICES ASSUME Typed, Alone, LL!Exclusion, [LL!Next]_(LL!vars)
             PROVE  Typed' /\ Alone' /\ LL!Exclusion'
  OBVIOUS
<1> USE DEF Typed, Alone, LL!Exclusion, LL!Live
<1>1. ASSUME NEW w \in Workers, LL!Drop(w) PROVE Typed' /\ Alone' /\ LL!Exclusion'
  <2>1. /\ \A i \in Ids : claims'[i] = claims[i] \ {w}
        /\ \A v \in Workers \ {w} : until'[v] = until[v]
        /\ now' = now
    BY <1>1 DEF LL!Drop, LL!NewTime
  <2>2. Typed'
    BY <1>1 DEF LL!Drop, LL!NewTime
  <2> QED BY <2>1, <2>2
<1>2. ASSUME NEW w \in Workers, NEW i \in Ids, LL!Acquire(w, i)
      PROVE  Typed' /\ Alone' /\ LL!Exclusion'
  <2>1. /\ claims'[i] = claims[i] \cup {w}
        /\ \A j \in Ids \ {i} : claims'[j] = claims[j]
        /\ \A v \in Workers \ {w} : until'[v] = until[v]
        /\ now' = now
        /\ \A j \in Ids : w \notin claims[j]
        /\ \A v \in claims[i] : ~ (until[v] >= now)
    BY <1>2 DEF LL!Acquire, LL!NewTime
  <2>2. Typed'
    BY <1>2 DEF LL!Acquire, LL!NewTime
  <2>3. Alone'
    BY <2>1
  <2>4. LL!Exclusion'
    BY <2>1
  <2> QED BY <2>2, <2>3, <2>4
<1>3. ASSUME NEW w \in Workers, NEW i \in Ids, LL!Renew(w, i)
      PROVE  Typed' /\ Alone' /\ LL!Exclusion'
  <2>1. /\ claims' = claims /\ now' = now
        /\ \A v \in Workers \ {w} : until'[v] = until[v]
        /\ w \in claims[i] /\ until[w] >= now
    BY <1>3 DEF LL!Renew, LL!NewTime
  <2>2. Typed'
    BY <1>3 DEF LL!Renew, LL!NewTime
  <2> QED BY <2>1, <2>2
<1>4. ASSUME NEW i \in Ids, LL!Revoke(i) PROVE Typed' /\ Alone' /\ LL!Exclusion'
  <2>1. /\ claims'[i] = {} /\ now' = now
        /\ \A j \in Ids \ {i} : claims'[j] = claims[j]
    BY <1>4 DEF LL!Revoke
  <2>2. \A j \in Ids \ {i} : \A v \in claims[j] : until'[v] = until[v]
    BY <1>4 DEF LL!Revoke, LL!NewTime
  <2>3. Typed'
    BY <1>4 DEF LL!Revoke, LL!NewTime
  <2> QED BY <2>1, <2>2, <2>3
<1>5. CASE LL!Pass
  BY <1>5 DEF LL!Pass
<1>6. CASE UNCHANGED LL!vars
  BY <1>6 DEF LL!vars
<1> QED BY <1>1, <1>2, <1>3, <1>4, <1>5, <1>6 DEF LL!Next

\* In every behaviour of the abstract lease at most one worker is inside a lease
\* on a task.
THEOREM LeaseExcludes == LL!Spec => []LL!Exclusion
<1>1. LL!Init => Typed /\ Alone /\ LL!Exclusion
  BY DEF LL!Init, Typed, Alone, LL!Exclusion, LL!Live
<1> QED BY <1>1, LeaseStep, PTL DEF LL!Spec
-----------------------------------------------------------------------------
(* The refinement: a step of TaskState is a step of LeaseLock or changes none
   of its variables. *)

\* An update of a document revokes its claims or leaves them.
LEMMA RevokeRefines ==
  ASSUME TInv, NEW i \in Ids, NEW d, Revoke(i, d), UNCHANGED <<now, until>>
  PROVE  LL!Revoke(i) \/ UNCHANGED LL!vars
BY DEF Revoke, TInv, TypeOK, LL!Revoke, LL!vars

\* The last update of a worker drops its lease, and may revoke the others'.
LEMMA LeaveRefines ==
  ASSUME TInv, CInv, NEW w \in Workers, NEW d, LeaveWith(w, d)
  PROVE  LL!Drop(w) \/ LL!Revoke(mine[w])
<1> DEFINE i == mine[w]
<1>1. /\ i \in Ids
      /\ claims \in [Ids -> SUBSET Workers] /\ until \in [Workers -> Nat]
  BY DEF LeaveWith, TInv, TypeOK, Bindings
<1>2. \A j \in Ids \ {i} : w \notin claims[j]
  BY DEF CInv, Covered
<1>3. LL!NewTime(w) /\ now' = now
  BY <1>1 DEF LeaveWith, Forget, LL!NewTime
<1>4. CASE d.status = tasks[i].status
  <2>1. claims' = [claims EXCEPT ![i] = claims[i] \ {w}]
    BY <1>4 DEF LeaveWith
  <2>2. \A j \in Ids \ {i} : claims[j] = claims[j] \ {w}
    BY <1>2
  <2>3. claims' = [j \in Ids |-> claims[j] \ {w}]
    <3> HIDE DEF i
    <3> QED BY <1>1, <2>1, <2>2
  <2> QED BY <1>3, <2>3 DEF LL!Drop
<1>5. CASE d.status # tasks[i].status
  <2>1. claims' = [claims EXCEPT ![i] = {}]
    BY <1>1, <1>5 DEF LeaveWith
  <2> QED BY <1>2, <1>3, <2>1 DEF LL!Revoke
<1> QED BY <1>4, <1>5

LEMMA StepRefines == TInv /\ CInv /\ [Next]_vars => [LL!Next]_(LL!vars)
<1> SUFFICES ASSUME TInv, CInv, [Next]_vars PROVE LL!Next \/ UNCHANGED LL!vars
  OBVIOUS
<1>1. /\ claims \in [Ids -> SUBSET Workers] /\ until \in [Workers -> Nat]
      /\ now \in Nat
  BY DEF TInv, TypeOK
<1>2. ASSUME NEW w \in Workers, pc[w] # "handling" PROVE \A i \in Ids : w \notin claims[i]
  BY <1>2 DEF CInv, Covered
<1>3. ASSUME NEW w \in Workers, TryClaim(w) PROVE LL!Next \/ UNCHANGED LL!vars
  <2>1. PICK i \in sampled[w] : ClaimWins(w, i) \/ ClaimLoses(w, i)
    BY <1>3 DEF TryClaim
  <2>2. /\ i \in Ids /\ asOf[w] \in 1..now /\ now' = now
        /\ pc[w] = "claiming" /\ tasks[i] \in TaskDocs
    BY <1>3 DEF TryClaim, TInv, TypeOK, Bindings
  <2>3. CASE ClaimWins(w, i)
    <3>1. LL!Live(i) = {}
      <4>1. \A v \in claims[i] : until[v] < asOf[w]
        BY <1>1, <2>2, <2>3 DEF ClaimWins, Claimable, CInv, Covered, TaskDocs, NoLease
      <4> QED BY <1>1, <2>2, <4>1 DEF LL!Live
    <3>2. LL!NewTime(w)
      BY <1>1, <2>2, <2>3, TimesAssumption DEF ClaimWins, LL!NewTime
    <3>3. LL!Acquire(w, i)
      BY <1>2, <2>2, <2>3, <3>1, <3>2 DEF ClaimWins, LL!Acquire
    <3> QED BY <2>2, <3>3 DEF LL!Next
  <2>4. CASE ClaimLoses(w, i)
    BY <2>2, <2>4 DEF ClaimLoses, LL!vars
  <2> QED BY <2>1, <2>3, <2>4
<1>4. ASSUME NEW w \in Workers, Renew(w) PROVE LL!Next \/ UNCHANGED LL!vars
  <2>1. mine[w] \in Ids /\ now' = now
    BY <1>4 DEF Renew, TInv, Bindings
  <2>2. CASE tasks[mine[w]].status = "running" /\ w \in claims[mine[w]] /\ until[w] >= now
    <3>1. LL!NewTime(w)
      BY <1>1, <1>4, <2>2, TimesAssumption DEF Renew, LL!NewTime
    <3>2. LL!Renew(w, mine[w])
      BY <1>4, <2>1, <2>2, <3>1 DEF Renew, LL!Renew, LL!Live
    <3> QED BY <2>1, <3>2 DEF LL!Next
  <2>3. CASE ~ (tasks[mine[w]].status = "running" /\ w \in claims[mine[w]] /\ until[w] >= now)
    BY <1>4, <2>1, <2>3 DEF Renew, LL!Revoke, LL!Next
  <2> QED BY <2>2, <2>3
<1>5. ASSUME NEW w \in Workers, NEW d, LeaveWith(w, d) PROVE LL!Next
  <2>1. mine[w] \in Ids
    BY <1>5 DEF LeaveWith, TInv, Bindings
  <2> QED BY <1>5, <2>1, LeaveRefines DEF LL!Next
<1>6. ASSUME NEW w \in Workers, pc[w] = "handling", NEW d, Revoke(mine[w], d),
             UNCHANGED <<now, used, enq, workerVars>>
      PROVE  LL!Next \/ UNCHANGED LL!vars
  <2>1. mine[w] \in Ids
    BY <1>6 DEF TInv, Bindings
  <2> QED BY <1>6, <2>1, RevokeRefines DEF LL!Next, workerVars
<1>7. ASSUME NEW w \in Workers, Crash(w) PROVE LL!Next
  <2>1. LL!NewTime(w)
    BY <1>1, <1>7 DEF Crash, Forget, LL!NewTime
  <2> QED BY <1>7, <2>1 DEF Crash, LL!Drop, LL!Next
<1>8. ASSUME NEW w \in Workers, OwnTaskStep(w) PROVE LL!Next \/ UNCHANGED LL!vars
  <2>1. CASE Sample(w)
    BY <2>1 DEF Sample, LL!vars
  <2>2. CASE RefreshClaim(w) \/ ReleaseEarly(w)
    BY <1>6, <2>2 DEF RefreshClaim, ReleaseEarly
  <2>3. CASE Release(w) \/ Complete(w) \/ Fail(w) \/ KeepGoing(w)
    BY <1>5, <2>3 DEF Release, Complete, Fail, KeepGoing
  <2>4. CASE MarkFailed(w)
    BY <1>5, <1>6, <2>4 DEF MarkFailed
  <2> QED BY <1>3, <1>4, <1>7, <1>8, <2>1, <2>2, <2>3, <2>4 DEF OwnTaskStep
<1>9. ASSUME NEW i \in Ids, NEW d, Revoke(i, d), UNCHANGED <<now, workerVars>>
      PROVE  LL!Next \/ UNCHANGED LL!vars
  BY <1>9, RevokeRefines DEF LL!Next, workerVars
<1>10. ASSUME NEW i \in Ids, ReleaseStale(i) PROVE LL!Next \/ UNCHANGED LL!vars
  BY <1>9, <1>10 DEF ReleaseStale
<1>11. CASE ClientStep
  <2>1. ASSUME NEW c \in Clients, EnqueueWrite(c) PROVE LL!Next \/ UNCHANGED LL!vars
    BY <1>9, <2>1 DEF EnqueueWrite, Matching
  <2>2. ASSUME NEW c \in Clients, NEW k \in Keys, EnqueueRead(c, k)
        PROVE  UNCHANGED LL!vars
    BY <2>2 DEF EnqueueRead, LL!vars, workerVars
  <2>3. ASSUME NEW i \in Ids, AddMark(i) \/ Pause(i) \/ Resume(i) \/ RemoveTask(i)
        PROVE  LL!Next \/ UNCHANGED LL!vars
    BY <1>9, <2>3 DEF AddMark, Pause, Resume, RemoveTask
  <2> QED BY <1>11, <2>1, <2>2, <2>3 DEF ClientStep
<1>12. CASE Tick
  <2>1. now' = now + 1 /\ UNCHANGED <<claims, until>>
    BY <1>12 DEF Tick, workerVars
  <2> QED BY <1>1, <2>1 DEF LL!Pass, LL!Next
<1>13. CASE UNCHANGED vars
  BY <1>13 DEF vars, LL!vars
<1> QED BY <1>8, <1>10, <1>11, <1>12, <1>13 DEF Next

\* The claims of task_state.py implement leases: what each worker sees of the
\* claims is a behaviour of the abstract lock.
THEOREM Implements == Spec => ImplementsLeases
<1>1. Init => LL!Init
  BY DEF Init, LL!Init
<1> QED BY <1>1, TInvInit, TInvStep, CInvInit, CInvStep, StepRefines, PTL
     DEF Spec, ImplementsLeases, LL!Spec
=============================================================================
