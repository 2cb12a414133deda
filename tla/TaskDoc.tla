------------------------------ MODULE TaskDoc ------------------------------
(***************************************************************************)
(* The documents of the `tasks` collection and what one MongoDB update of   *)
(* rsstag/task_state.py (and the few direct updates of rsstag/tasks.py and  *)
(* of the workers) does to one of them.  A document is a record; an update is an operator   *)
(* from documents to documents.  MongoDB applies an update to one document  *)
(* atomically, so each operator is one step of the modules that use it.     *)
(***************************************************************************)
EXTENDS Integers

CONSTANTS
  MaxAttempts,      \* the retry budget (max_attempts / max_failed_attempts)
  BackoffBase,      \* backoff_base_seconds
  MaxBackoff        \* MAX_BACKOFF_SECONDS

ASSUME BudgetAssumption == MaxAttempts \in Nat \ {0}
ASSUME BackoffAssumption == BackoffBase \in Nat /\ MaxBackoff \in Nat

\* Values of `status`.  "unset" is a legacy document, which has no such field;
\* "absent" stands for "no document with this _id is in the collection".
Statuses == {"absent", "unset", "pending", "running", "paused", "dead"}

Idle == 0           \* LEGACY_PROCESSING_IDLE, TASK_NOT_IN_PROCESSING
Frozen == -1        \* LEGACY_PROCESSING_FROZEN, TASK_FREEZED
NoLease == -1       \* the document has no lease_until field

TaskDocs == [status: Statuses, processing: Nat \cup {Frozen},
             lease: Nat \cup {NoLease}, backoff: Nat, attempts: Nat]

Absent == [status |-> "absent", processing |-> Idle, lease |-> NoLease,
           backoff |-> 0, attempts |-> 0]

\* mutant: a lease that ends now counts as expired
ClaimableAtEnd(d, t) ==
  \/ d.status = "pending" /\ d.backoff <= t
  \/ d.status = "running" /\ d.lease # NoLease /\ d.lease <= t
  \/ d.status = "unset" /\ d.processing = Idle

\* mutant: an expired lease is not taken over
ClaimablePending(d, t) ==
  \/ d.status = "pending" /\ d.backoff <= t
  \/ d.status = "unset" /\ d.processing = Idle

\* What claimable_filter(t) matches.  A missing lease_until never compares
\* less than a number; a missing backoff_until is kept as 0, which is never
\* greater than the time.
Claimable(d, t) ==
  \/ d.status = "pending" /\ d.backoff <= t
  \/ d.status = "running" /\ d.lease # NoLease /\ d.lease < t
  \/ d.status = "unset" /\ d.processing = Idle

\* mutant: only the legacy lock is taken
ClaimedLegacy(d, t, n) == [d EXCEPT !.status = "running", !.processing = t]

\* A claim at time t with a lease of n.
Claimed(d, t, n) ==
  [d EXCEPT !.status = "running", !.processing = t, !.lease = t + n]

Renewed(d, t, n) ==
  IF d.status = "running" THEN [d EXCEPT !.lease = t + n] ELSE d

\* mutant: the legacy field is not written
ReleasedHalf(d) ==
  IF d.status = "running" THEN [d EXCEPT !.status = "pending", !.lease = NoLease]
                          ELSE d

Released(d) ==
  IF d.status = "running"
  THEN [d EXCEPT !.status = "pending", !.processing = Idle, !.lease = NoLease]
  ELSE d

\* min(base * 2^(n - 1), MAX_BACKOFF_SECONDS)
Backoff(n) ==
  LET b == BackoffBase * 2^(n - 1)
  IN  IF b \in 0..MaxBackoff THEN b ELSE MaxBackoff

\* mutant: one failure too many
FailedLate(d, n, t) ==
  IF n > MaxAttempts
  THEN [d EXCEPT !.status = "dead", !.processing = Frozen, !.attempts = n]
  ELSE [d EXCEPT !.status = "pending", !.processing = Idle, !.lease = NoLease,
                 !.backoff = t + Backoff(n), !.attempts = n]

\* fail() computes the new count from the caller's copy of the document, so
\* `n` is attempts + 1 of that copy and not of d.
FailedAs(d, n, t) ==
  IF n >= MaxAttempts
  THEN [d EXCEPT !.status = "dead", !.processing = Frozen, !.attempts = n]
  ELSE [d EXCEPT !.status = "pending", !.processing = Idle, !.lease = NoLease,
                 !.backoff = t + Backoff(n), !.attempts = n]

\* mutant: the guard on the status is gone
FailedAnyway(d, seen, t) ==
  IF d.status = "absent" THEN d ELSE FailedAs(d, seen + 1, t)

Failed(d, seen, t) ==
  IF d.status \in {"absent", "paused", "dead"} THEN d
                                               ELSE FailedAs(d, seen + 1, t)

\* mutant: the flag is written where the status belongs
MarkedAsFlag(d) ==
  IF d.status = "absent" THEN d
  ELSE [d EXCEPT !.status = "failed", !.processing = Frozen]

\* mark_task_failed: no guard on the status.
MarkedFailed(d) ==
  IF d.status = "absent" THEN d
  ELSE [d EXCEPT !.status = "dead", !.processing = Frozen]

\* enqueue's upsert: the document becomes this one (or is inserted as it)
\* whatever it was.
Enqueued ==
  [status |-> "pending", processing |-> Idle, lease |-> NoLease,
   backoff |-> 0, attempts |-> 0]

LiveRunning(d, t) == d.status = "running" /\ d.lease > t

Paused(d) ==
  IF d.status \in {"absent", "dead"} THEN d
  ELSE [d EXCEPT !.status = "paused", !.processing = Frozen]

Resumed(d) ==
  IF d.status \in {"paused", "dead"}
  THEN [d EXCEPT !.status = "pending", !.processing = Idle, !.lease = NoLease,
                 !.backoff = 0, !.attempts = 0]
  ELSE d

\* _clear_failure_budget
BudgetCleared(d) == [d EXCEPT !.attempts = 0, !.backoff = 0]

\* release_stale_tasks: only documents without a status, and only locks that
\* are older than the cutoff.
StaleReleased(d, cutoff) ==
  IF d.status = "unset" /\ d.processing > 0 /\ d.processing < cutoff
  THEN [d EXCEPT !.processing = Idle]
  ELSE d
\* _refresh_claim: `processing` by _id alone, whatever the status has become.
Refreshed(d, t) ==
  IF d.status = "absent" THEN d ELSE [d EXCEPT !.processing = t]
-----------------------------------------------------------------------------
(* What is always true of a document, whatever updates it has been through. *)

\* The two representations of the state agree.
Agrees(d) ==
  /\ d.status = "pending" => d.processing = Idle
  /\ d.status = "running" => d.processing > 0
  /\ d.status \in {"paused", "dead"} => d.processing = Frozen

\* What _refresh_claim makes of a document whose claim is over: readers of
\* `processing` take it for one that is being worked on.
LooksBusy(d) == d.status \in {"pending", "paused", "dead"} /\ d.processing > 0

\* Failures are left unless the task is in the dead letter state.
HasBudget(d) == d.status # "dead" => d.attempts < MaxAttempts

Parked(d) == d.status \in {"paused", "dead"}
=============================================================================
