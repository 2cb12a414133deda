----------------------------- MODULE LeaseLock -----------------------------
(***************************************************************************)
(* What claim, renew, release and the rest of rsstag/task_state.py promise  *)
(* to the workers: a lease per task.  A worker that holds the lease of a     *)
(* task has it until a time of its own; nobody else gets it before then,     *)
(* unless it is taken from everybody.  TaskState implements this.            *)
(***************************************************************************)
EXTENDS Naturals

CONSTANTS Tasks, Workers

VARIABLES
  now,        \* the time
  holders,    \* holders[i]: the workers that have obtained i and still hold it
  until       \* until[w]: the end of the lease that w holds

vars == <<now, holders, until>>

\* The holders of i whose time has not come.
Live(i) == {w \in holders[i] : until[w] >= now}

\* w gets a new time.
NewTime(w) ==
  /\ until'[w] \in Nat
  /\ until' = [until EXCEPT ![w] = until'[w]]

Init ==
  /\ now \in Nat
  /\ holders = [i \in Tasks |-> {}]
  /\ until \in [Workers -> Nat]

\* A worker that holds nothing obtains the lease of a task that nobody holds.
Acquire(w, i) ==
  /\ Live(i) = {}
  /\ \A j \in Tasks : w \notin holders[j]
  /\ holders' = [holders EXCEPT ![i] = @ \cup {w}]
  /\ NewTime(w)
  /\ UNCHANGED now

\* Those who hold a lease that has not ended make it longer, or shorter.
Renew(w, i) ==
  /\ w \in Live(i)
  /\ NewTime(w)
  /\ UNCHANGED <<now, holders>>

\* A worker gives up what it holds, or loses it in a crash.
Drop(w) ==
  /\ holders' = [i \in Tasks |-> holders[i] \ {w}]
  /\ NewTime(w)
  /\ UNCHANGED now

\* The task is taken from all of its holders; one of them may forget its lease
\* on this occasion.
Revoke(i) ==
  /\ holders' = [holders EXCEPT ![i] = {}]
  /\ \/ UNCHANGED until
     \/ \E w \in Workers : NewTime(w) /\ \A j \in Tasks \ {i} : w \notin holders[j]
  /\ UNCHANGED now

\* Time passes, and with it the leases.
Pass == now' \in Nat /\ now' > now /\ UNCHANGED <<holders, until>>

Next ==
  \/ \E w \in Workers : Drop(w) \/ \E i \in Tasks : Acquire(w, i) \/ Renew(w, i)
  \/ \E i \in Tasks : Revoke(i)
  \/ Pass

Spec == Init /\ [][Next]_vars

\* At most one worker is inside a lease on a task.
Exclusion == \A i \in Tasks : \A w1, w2 \in Live(i) : w1 = w2
=============================================================================
