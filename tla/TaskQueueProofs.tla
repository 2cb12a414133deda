--------------------------- MODULE TaskQueueProofs ---------------------------
(***************************************************************************)
(* Proofs about TaskQueue, for any chain of tasks without a circle, any        *)
(* items and workers, and any scenes that are orderly.                         *)
(***************************************************************************)
EXTENDS TaskQueue, TLAPS

-----------------------------------------------------------------------------
(* The invariants. *)

ScenesOrderly == \A s \in Scenes : Orderly(s)

Lone == \A w1, w2 \in scene.crew : w1 = w2

\* What a worker's place says about its copies.
Bindings(w) ==
  /\ IF pc[w] = "idle"
     THEN /\ job[w] = NoType /\ ~ same[w] /\ batch[w] = {}
     ELSE /\ job[w] \in Types /\ w \in scene.crew
  /\ pc[w] \in {"found", "locked", "empty", "final", "counting"} => job[w] \in ItemTypes
  /\ pc[w] = "counting" => job[w] \in CountedTypes \ LateTypes
  /\ pc[w] = "chaining" => job[w] \in WholeTypes
  /\ IF pc[w] \in {"final", "chaining"}
     THEN /\ chain[w] \cup {writing[w]} \subseteq After[job[w]] \cup {NoType}
          /\ writing[w] \notin chain[w]
     ELSE chain[w] = {} /\ writing[w] = NoType
  /\ pc[w] \in {"claimed", "empty", "final", "chaining"} => batch[w] = {}
  /\ \A i \in batch[w] : TypeOf[i] = job[w]
  /\ same[w] => Present(job[w])

\* Nobody adds a task.
NoHand ==
  adds = 0 => /\ \A t \in Types : ~ manual[t]
              /\ \A w \in Workers : ~ byHand[w]
              /\ writing[User] = NoType

TInv == TypeOK /\ NoHand /\ \A w \in Workers : Bindings(w)

\* While several workers are at work, a task has the worker that is under its claim for
\* itself: it is running, and claim finds it only when the lease has ended.
Held(w) ==
  UnderClaim(w) =>
    /\ same[w] /\ tasks[job[w]].status = "running" /\ tasks[job[w]].lease > Now
    /\ \A v \in Workers \ {w} : UnderClaim(v) => job[v] # job[w]

\* What w will still add to the chain.
Coming(w) == chain[w] \cup {writing[w]}

\* The types that lead to t, and t.
Line(t) == Upstream(t) \cup {t}

\* The task p is at its end and has nothing more to add on the way to t.
Spent(p, t) ==
  \E w \in Workers : /\ job[w] = p /\ same[w] /\ pc[w] \in {"final", "chaining"}
                     /\ p = t \/ Coming(w) \cap Line(t) = {}

\* Everything upstream of a task that is there has gone, or is about to go and has added
\* what leads to it: nothing is added to the chain twice.
Forward ==
  \A t \in Types : Present(t) =>
    /\ Reached(t)
    /\ \A p \in Upstream(t) : Present(p) => Spent(p, t)

EInv == ~ Lone => Forward /\ \A w \in Workers : Held(w)

\* Batches of posts do not overlap, and are locked once they have been.
Apart ==
  \A w, v \in Workers : w # v => \A i \in batch[w] \cap batch[v] : TypeOf[i] \notin CountedTypes

BatchLocked(w) ==
  pc[w] \in {"locked", "handling", "counting", "finishing"} =>
    \A i \in batch[w] : TypeOf[i] \in CountedTypes => lock[i] = "held"

XInv == Apart /\ (~ Lone => \A w \in Workers : BatchLocked(w))

\* What has been counted is done, and what is about to be counted has not been.
Once ==
  \A i \in Items :
    /\ counted[i] \in {0, 1}
    /\ item[i] # "done" => counted[i] = 0
    /\ TypeOf[i] \notin CountedTypes => counted[i] = 0

Uncounted(w) ==
  /\ pc[w] \in {"found", "locked", "handling", "counting"} =>
       \A i \in batch[w] : counted[i] = 0
  /\ pc[w] = "counting" => \A i \in batch[w] : item[i] = "done"

NInv == Once /\ \A w \in Workers : Uncounted(w)

\* A post that waits has a task on its line that has not passed on what it has to.
Kept(t) == \E p \in Line(t) : Present(p) /\ ~ Spent(p, t)

\* A worker without company keeps its document until it is done with it.
Mine == Lone => \A w \in Workers : pc[w] # "idle" => same[w]

OInv == adds + errors = 0 => \A t \in CountedTypes : Todo(t) # {} => Kept(t)

-----------------------------------------------------------------------------
(* The chain: Upstream(t) is the least set that is closed under "is followed by". *)

LEMMA UpClosed ==
  ASSUME NEW t \in Types, NEW q \in Types, After[q] \cap Line(t) # {}
  PROVE  q \in Upstream(t)
<1> SUFFICES ASSUME NEW S \in SUBSET Types,
                    \A r \in Types : After[r] \cap (S \cup {t}) # {} => r \in S
             PROVE  q \in S
  BY DEF Upstream
<1>1. Upstream(t) \subseteq S
  BY DEF Upstream
<1> QED BY <1>1 DEF Line

\* What leads to t is followed by something that does, or by t.
LEMMA UpGoesOn ==
  ASSUME NEW t \in Types, NEW p \in Upstream(t)
  PROVE  p \in Types /\ After[p] \cap Line(t) # {}
<1> DEFINE S == {q \in Types : After[q] \cap Line(t) # {}}
<1>1. S \subseteq Upstream(t)
  BY UpClosed
<1>2. \A q \in Types : After[q] \cap (S \cup {t}) # {} => q \in S
  BY <1>1 DEF Line
<1>3. p \in S
  <2> HIDE DEF S
  <2> QED BY <1>2, S \in SUBSET Types DEF Upstream, S
<1> QED BY <1>3

LEMMA UpOn ==
  ASSUME NEW t \in Types, NEW q \in Upstream(t), NEW p \in Upstream(q)
  PROVE  p \in Upstream(t)
<1> SUFFICES ASSUME NEW S \in SUBSET Types,
                    \A r \in Types : After[r] \cap (S \cup {t}) # {} => r \in S
             PROVE  p \in S
  BY DEF Upstream
<1>1. q \in S
  BY DEF Upstream
<1>2. \A r \in Types : After[r] \cap (S \cup {q}) # {} => r \in S
  BY <1>1
<1> QED BY <1>2 DEF Upstream

LEMMA Onward == ASSUME NEW p \in Types, NEW s \in After[p]
  PROVE  s \in Types /\ p \in Upstream(s) /\ s # p /\ s \notin Upstream(p)
<1>1. s \in Types
  BY ChainAssumption
<1>2. p \in Upstream(s)
  BY <1>1, UpClosed DEF Line
<1>3. s # p
  BY <1>2, ChainAssumption
<1>4. s \notin Upstream(p)
  BY <1>1, <1>2, UpOn, ChainAssumption
<1> QED BY <1>1, <1>2, <1>3, <1>4

LEMMA ReachedNext ==
  ASSUME NEW p \in Types, Reached(p), NEW s \in After[p]
  PROVE  Reached(s)
<1>1. PICK f \in FirstTasks : f \in Upstream(p) \cup {p}
  BY DEF Reached
<1>2. f \in Upstream(s)
  BY <1>1, Onward, UpOn
<1> QED BY <1>1, <1>2 DEF Reached

\* On one chain, what leads to s leads to the task before it.
LEMMA OneBefore ==
  ASSUME OneChain, NEW p \in Types, Reached(p), NEW s \in After[p],
         NEW q \in Upstream(s), Reached(q)
  PROVE  q \in Line(p)
<1> DEFINE S == {r \in Types : Reached(r) => r \in Line(p)}
<1>1. s \in Types /\ Reached(s)
  BY Onward, ReachedNext
<1>2. ASSUME NEW r \in Types, After[r] \cap (S \cup {s}) # {} PROVE r \in S
  <2> SUFFICES ASSUME Reached(r) PROVE r \in Line(p)
    OBVIOUS
  <2>1. PICK x \in After[r] : x \in S \cup {s}
    BY <1>2
  <2>2. CASE x = s
    <3>1. s \in After[p] \cap After[r]
      BY <2>2
    <3>2. r = p
      BY <3>1 DEF OneChain
    <3> QED BY <3>2 DEF Line
  <2>3. CASE x \in S
    <3>1. Reached(x)
      BY ReachedNext
    <3>2. x \in Line(p)
      BY <2>3, <3>1
    <3> QED BY <3>2, UpClosed DEF Line
  <2> QED BY <2>1, <2>2, <2>3
<1>3. q \in S
  <2> HIDE DEF S
  <2> QED BY <1>1, <1>2, S \in SUBSET Types DEF Upstream, S
<1> QED BY <1>3

-----------------------------------------------------------------------------
(* The updates of one document. *)

LEMMA UpdatesTyped ==
  ASSUME NEW d \in TaskDocs, NEW n \in Nat
  PROVE  /\ Claimed(d, Now, 1) \in TaskDocs /\ Claimed(d, Now, 1).status = "running"
         /\ Claimed(d, Now, 1).lease > Now
         /\ Released(d) \in TaskDocs /\ Failed(d, n, Now) \in TaskDocs
         /\ MarkedFailed(d) \in TaskDocs
         /\ BudgetCleared(d) \in TaskDocs
         /\ BudgetCleared(d).status = d.status /\ BudgetCleared(d).lease = d.lease
         /\ Enqueued \in TaskDocs /\ Enqueued.status # "absent"
         /\ Absent \in TaskDocs /\ Absent.status = "absent"
         /\ [d EXCEPT !.lease = 0] \in TaskDocs /\ [d EXCEPT !.backoff = 0] \in TaskDocs
<1>1. \A m : Backoff(m) \in Nat
  BY BackoffAssumption DEF Backoff
<1>2. Failed(d, n, Now) \in TaskDocs
  <2>1. Now + Backoff(n + 1) \in Nat /\ n + 1 \in Nat
    BY <1>1 DEF Now
  <2>2. FailedAs(d, n + 1, Now) \in TaskDocs
    BY <2>1 DEF FailedAs, TaskDocs, Statuses, Idle, NoLease, Frozen
  <2> QED BY <2>2 DEF Failed
<1>3. /\ Claimed(d, Now, 1) \in TaskDocs /\ Claimed(d, Now, 1).status = "running"
      /\ Claimed(d, Now, 1).lease > Now
  <2>1. ASSUME NEW m \in Nat, NEW k \in Nat, k > 0
        PROVE  /\ Claimed(d, m, k) \in TaskDocs /\ Claimed(d, m, k).status = "running"
               /\ Claimed(d, m, k).lease > m
    <3>1. m + k \in Nat /\ m + k > m
      BY <2>1
    <3> QED BY <3>1 DEF Claimed, TaskDocs, Statuses
  <2>2. Now \in Nat
    BY DEF Now
  <2> QED BY <2>1, <2>2
<1>4. Released(d) \in TaskDocs /\ MarkedFailed(d) \in TaskDocs
  BY DEF Released, MarkedFailed, TaskDocs, Statuses, Idle, Frozen, NoLease
<1>5. /\ Enqueued \in TaskDocs /\ Enqueued.status # "absent"
      /\ Absent \in TaskDocs /\ Absent.status = "absent"
  BY DEF Enqueued, Absent, TaskDocs, Statuses, Idle, NoLease
<1>6. /\ BudgetCleared(d) \in TaskDocs
      /\ BudgetCleared(d).status = d.status /\ BudgetCleared(d).lease = d.lease
  BY DEF BudgetCleared, TaskDocs, Statuses
<1>7. [d EXCEPT !.lease = 0] \in TaskDocs /\ [d EXCEPT !.backoff = 0] \in TaskDocs
  BY DEF TaskDocs
<1> QED BY <1>2, <1>3, <1>4, <1>5, <1>6, <1>7

\* Only a deletion takes a document away.
LEMMA UpdatesStay ==
  ASSUME NEW d \in TaskDocs, NEW n \in Nat, d.status # "absent"
  PROVE  /\ Released(d).status # "absent" /\ Failed(d, n, Now).status # "absent"
         /\ MarkedFailed(d).status # "absent" /\ BudgetCleared(d).status # "absent"
         /\ [d EXCEPT !.lease = 0].status # "absent"
         /\ [d EXCEPT !.backoff = 0].status # "absent"
BY DEF Released, Failed, FailedAs, MarkedFailed, BudgetCleared, TaskDocs

-----------------------------------------------------------------------------
(* Types *)

\* A worker that starts over.
LEMMA RestartTyped ==
  ASSUME TypeOK, NEW w \in Workers, NEW G, Restart(w, G)
  PROVE  /\ pc' \in [Workers -> Places] /\ job' \in [Workers -> Types \cup {NoType}]
         /\ same' \in [Workers -> BOOLEAN] /\ seen' \in [Workers -> Nat]
         /\ byHand' \in [Workers -> BOOLEAN] /\ batch' \in [Workers -> SUBSET Items]
         /\ chain' \in [Workers -> SUBSET Types]
         /\ writing' \in [Workers \cup {User} -> Types \cup {NoType}]
         /\ pc'[w] = "idle" /\ job'[w] = NoType /\ same'[w] = FALSE /\ byHand'[w] = FALSE
         /\ batch'[w] = {} /\ chain'[w] = {} /\ writing'[w] = NoType
         /\ writing'[User] = writing[User]
         /\ \A v \in Workers \ {w} :
              /\ pc'[v] = pc[v] /\ job'[v] = job[v] /\ batch'[v] = batch[v]
              /\ chain'[v] = chain[v] /\ writing'[v] = writing[v] /\ byHand'[v] = byHand[v]
              /\ same'[v] <=> (same[v] /\ v \notin G)
<1>1. /\ pc' \in [Workers -> Places] /\ job' \in [Workers -> Types \cup {NoType}]
      /\ seen' \in [Workers -> Nat] /\ byHand' \in [Workers -> BOOLEAN]
      /\ batch' \in [Workers -> SUBSET Items] /\ chain' \in [Workers -> SUBSET Types]
  BY DEF TypeOK, Restart, Go, Places
<1>2. writing' \in [Workers \cup {User} -> Types \cup {NoType}] /\ writing'[User] = writing[User]
  BY ChainAssumption DEF TypeOK, Restart
<1>3. same' \in [Workers -> BOOLEAN]
  BY DEF TypeOK, Restart
<1>4. /\ pc'[w] = "idle" /\ job'[w] = NoType /\ same'[w] = FALSE /\ byHand'[w] = FALSE
      /\ batch'[w] = {} /\ chain'[w] = {} /\ writing'[w] = NoType
  BY DEF TypeOK, Restart, Go
<1>5. \A v \in Workers \ {w} :
        /\ pc'[v] = pc[v] /\ job'[v] = job[v] /\ batch'[v] = batch[v]
        /\ chain'[v] = chain[v] /\ writing'[v] = writing[v] /\ byHand'[v] = byHand[v]
  BY DEF TypeOK, Restart, Go
<1>6. \A v \in Workers \ {w} : same'[v] <=> (same[v] /\ v \notin G)
  BY Zenon DEF TypeOK, Restart
<1> QED BY <1>1, <1>2, <1>3, <1>4, <1>5, <1>6

\* An update of the document of w's task, and nothing else in the collection.
LEMMA UpdateTyped ==
  ASSUME TypeOK, NEW w \in Workers, NEW d \in TaskDocs, Update(w, d)
  PROVE  /\ tasks' \in [Types -> TaskDocs]
         /\ \A t \in Types : tasks'[t] = IF same[w] /\ t = job[w] THEN d ELSE tasks[t]
BY DEF TypeOK, Update

\* A document that is written by its key.
LEMMA EnqueueTyped ==
  ASSUME TypeOK, NEW a \in Workers \cup {User}, NEW by \in BOOLEAN, EnqueueWrite(a, by)
  PROVE  /\ writing[a] \in Types
         /\ tasks' \in [Types -> TaskDocs] /\ manual' \in [Types -> BOOLEAN]
         /\ writing' \in [Workers \cup {User} -> Types \cup {NoType}]
         /\ \A t \in Types : /\ tasks'[t] = IF t = writing[a] THEN Enqueued ELSE tasks[t]
                             /\ manual'[t] = IF t = writing[a] THEN by ELSE manual[t]
         /\ writing'[a] = NoType
         /\ \A b \in (Workers \cup {User}) \ {a} : writing'[b] = writing[b]
<1>1. writing[a] \in Types
  BY DEF TypeOK, EnqueueWrite
<1>2. Enqueued \in TaskDocs
  BY DEF Enqueued, TaskDocs, Statuses, Idle, NoLease
<1> QED BY <1>1, <1>2 DEF TypeOK, EnqueueWrite

LEMMA ScenesTyped ==
  ASSUME TypeOK
  PROVE  /\ scene.crew \subseteq Workers /\ scene.items \subseteq Items
         /\ scene.slow \in BOOLEAN
         /\ scene.faults \in Nat /\ scene.errors \in Nat /\ scene.adds \in Nat
         /\ faults \in Nat /\ errors \in Nat /\ adds \in Nat
BY ScenesAssumption DEF TypeOK

\* The bounds after a fault or an error.
LEMMA BoundsTyped ==
  ASSUME TypeOK, Fault \/ Error
  PROVE  /\ scene' = scene /\ faults' \in 0..scene.faults /\ errors' \in 0..scene.errors
         /\ Fault => faults < scene.faults /\ errors' = errors
         /\ Error => errors < scene.errors /\ errors' = errors + 1
BY ScenesTyped DEF TypeOK, Fault, Error

LEMMA RestartSame ==
  ASSUME NEW w \in Workers, NEW G, Restart(w, G), NEW v \in Workers \ {w}, same[v], v \notin G
  PROVE  same'[v]
<1>1. same'[v] = IF v \in G \cup {w} THEN FALSE ELSE same[v]
  BY DEF Restart
<1> QED BY <1>1

\* A step of w leaves the other workers where they are; they may only lose the document
\* that w deletes.
Others(w) ==
  /\ \A v \in Workers \ {w} :
       /\ pc'[v] = pc[v] /\ job'[v] = job[v] /\ batch'[v] = batch[v]
       /\ chain'[v] = chain[v] /\ writing'[v] = writing[v] /\ byHand'[v] = byHand[v]
       /\ same'[v] => same[v]
  /\ scene' = scene /\ adds' = adds /\ writing'[User] = writing[User]

\* A worker that starts over leaves the others where they are.
LEMMA RestartOthers ==
  ASSUME TypeOK, NEW w \in Workers, NEW G, Restart(w, G), scene' = scene, adds' = adds
  PROVE  Others(w)
<1>1. ASSUME NEW v \in Workers \ {w}
      PROVE  /\ pc'[v] = pc[v] /\ job'[v] = job[v] /\ batch'[v] = batch[v]
             /\ chain'[v] = chain[v] /\ writing'[v] = writing[v] /\ byHand'[v] = byHand[v]
             /\ same'[v] => same[v]
  <2>1. /\ pc'[v] = pc[v] /\ job'[v] = job[v] /\ batch'[v] = batch[v]
        /\ chain'[v] = chain[v] /\ writing'[v] = writing[v] /\ byHand'[v] = byHand[v]
    BY DEF TypeOK, Restart, Go
  <2>2. same'[v] => same[v]
    BY DEF TypeOK, Restart
  <2> QED BY <2>1, <2>2
<1>2. writing'[User] = writing[User]
  BY RestartTyped
<1> QED BY <1>1, <1>2 DEF Others

LEMMA OwnStep ==
  ASSUME TInv, NEW w \in Workers, TypeOK', Others(w), Bindings(w)',
         \A v \in Workers \ {w} : same'[v] => Present(job[v])',
         adds = 0 => (\A t \in Types : ~ manual'[t]) /\ ~ byHand'[w]
  PROVE  TInv'
<1>1. ASSUME NEW v \in Workers \ {w} PROVE Bindings(v)'
  <2>1. /\ pc'[v] = pc[v] /\ job'[v] = job[v] /\ batch'[v] = batch[v]
        /\ chain'[v] = chain[v] /\ writing'[v] = writing[v] /\ scene' = scene
        /\ same'[v] => same[v] /\ Present(job[v])'
    BY DEF Others
  <2>2. Bindings(v)
    BY DEF TInv
  <2> QED BY <2>1, <2>2 DEF Bindings
<1>2. NoHand'
  BY DEF TInv, NoHand, Others
<1> QED BY <1>1, <1>2 DEF TInv

\* The document of a worker's task.
LEMMA OwnDoc ==
  ASSUME TInv, NEW w \in Workers, job[w] \in Types
  PROVE  tasks[job[w]] \in TaskDocs /\ (same[w] => tasks[job[w]].status # "absent")
<1>1. tasks[job[w]] \in TaskDocs
  BY DEF TInv, TypeOK
<1>2. Bindings(w)
  BY DEF TInv
<1> QED BY <1>1, <1>2 DEF Bindings, Present

LEMMA IdleBindings ==
  ASSUME TypeOK', NEW w \in Workers, pc'[w] = "idle", job'[w] = NoType, same'[w] = FALSE,
         batch'[w] = {}, chain'[w] = {}, writing'[w] = NoType
  PROVE  Bindings(w)'
BY DEF Bindings

LEMMA LeaveStep ==
  ASSUME TInv, NEW w \in Workers, NEW d \in TaskDocs, same[w] => d.status # "absent",
         LeaveWith(w, d), scene' = scene, faults' \in 0..scene.faults,
         errors' \in 0..scene.errors
  PROVE  TInv'
<1> USE DEF TInv
<1>1. /\ Update(w, d) /\ Restart(w, {})
      /\ manual' = manual /\ item' = item /\ lock' = lock /\ counted' = counted /\ adds' = adds
  BY DEF LeaveWith, itemVars
<1>2. TypeOK'
  BY <1>1, RestartTyped, UpdateTyped DEF TypeOK
<1>3. Others(w)
  BY <1>1, RestartOthers
<1>4. Bindings(w)'
  BY <1>1, <1>2, RestartTyped, IdleBindings
<1>5. \A v \in Workers \ {w} : same'[v] => Present(job[v])'
  <2> SUFFICES ASSUME NEW v \in Workers \ {w}, same'[v] PROVE Present(job[v])'
    OBVIOUS
  <2>1. same[v] /\ job'[v] = job[v]
    BY <1>1, RestartTyped
  <2>2. Present(job[v]) /\ job[v] \in Types
    BY <2>1 DEF Bindings, TypeOK
  <2> QED BY <1>1, <2>1, <2>2, UpdateTyped DEF Present
<1>6. adds = 0 => (\A t \in Types : ~ manual'[t]) /\ ~ byHand'[w]
  BY <1>1, RestartTyped DEF NoHand
<1> QED BY <1>2, <1>3, <1>4, <1>5, <1>6, OwnStep

LEMMA CompleteStep ==
  ASSUME TInv, NEW w \in Workers, Complete(w)
  PROVE  TInv'
<1> USE DEF TInv
<1> DEFINE G == {v \in Workers : same[w] /\ job[v] = job[w]}
<1>1. /\ Update(w, Absent) /\ Restart(w, G) /\ manual' = manual
      /\ item' = item /\ lock' = lock /\ counted' = counted
      /\ scene' = scene /\ faults' = faults /\ errors' = errors /\ adds' = adds
  BY DEF Complete, itemVars, bounds
<1>2. Absent \in TaskDocs
  BY DEF Absent, TaskDocs, Statuses, Idle, NoLease
<1>3. TypeOK'
  <2> HIDE DEF G
  <2> QED BY <1>1, <1>2, RestartTyped, UpdateTyped DEF TypeOK
<1>4. Others(w) /\ Bindings(w)' /\ byHand'[w] = FALSE
  <2> HIDE DEF G
  <2>1. Others(w)
    BY <1>1, RestartOthers
  <2> QED BY <1>1, <1>3, <2>1, RestartTyped, IdleBindings
<1>5. ASSUME NEW v \in Workers \ {w}, same'[v] PROVE Present(job[v])'
  <2>1. same[v] /\ v \notin G /\ job'[v] = job[v]
    <3> HIDE DEF G
    <3> QED BY <1>1, <1>5, RestartTyped
  <2>2. Present(job[v]) /\ job[v] \in Types
    BY <2>1 DEF Bindings, TypeOK
  <2>3. ~ (same[w] /\ job[v] = job[w])
    BY <2>1
  <2>4. tasks'[job[v]] = tasks[job[v]]
    BY <1>1, <1>2, <2>2, <2>3, UpdateTyped
  <2> QED BY <2>1, <2>2, <2>4 DEF Present
<1>6. adds = 0 => (\A t \in Types : ~ manual'[t]) /\ ~ byHand'[w]
  BY <1>1, <1>4 DEF NoHand
<1> QED BY <1>3, <1>4, <1>5, <1>6, OwnStep

LEMMA TInvInit == Init => TInv
<1> SUFFICES ASSUME Init PROVE TInv
  OBVIOUS
<1>1. Enqueued \in TaskDocs /\ Absent \in TaskDocs
  BY DEF Enqueued, Absent, TaskDocs, Statuses, Idle, NoLease
<1>2. scene.faults \in Nat /\ scene.errors \in Nat /\ scene.adds \in Nat
  BY ScenesAssumption DEF Init
<1>3. TypeOK
  BY <1>1, <1>2, ChainAssumption DEF Init, TypeOK, Places
<1>4. NoHand
  BY DEF Init, NoHand
<1>5. \A w \in Workers : Bindings(w)
  BY DEF Init, Bindings
<1> QED BY <1>3, <1>4, <1>5 DEF TInv

\* The steps of a worker that leave the documents alone.
LEMMA PlaceStep ==
  ASSUME TInv, NEW w \in Workers,
         \/ StartWhole(w) \/ FindItems(w) \/ LockItems(w) \/ HandleWhole(w)
         \/ HandleTags(w) \/ CountTags(w) \/ HandleLate(w) \/ HandleRank(w)
         \/ FinishWhole(w)
  PROVE  TInv' /\ Others(w) /\ tasks' = tasks /\ same' = same /\ UNCHANGED bounds
<1> USE DEF TInv
<1>1. /\ tasks' = tasks /\ manual' = manual /\ job' = job /\ same' = same /\ seen' = seen
      /\ byHand' = byHand /\ writing' = writing /\ scene' = scene /\ faults' = faults
      /\ errors' = errors /\ adds' = adds
  BY DEF StartWhole, FindItems, LockItems, HandleWhole, HandleTags, CountTags, HandleLate,
         HandleRank, FinishWhole, copyVars, bounds
<1>2. /\ pc' \in [Workers -> Places] /\ \A v \in Workers \ {w} : pc'[v] = pc[v]
  BY DEF StartWhole, FindItems, LockItems, HandleWhole, HandleTags, CountTags, HandleLate,
         HandleRank, FinishWhole, Go, TypeOK, Places
<1>3. /\ batch' \in [Workers -> SUBSET Items] /\ \A v \in Workers \ {w} : batch'[v] = batch[v]
      /\ \A i \in batch'[w] : TypeOf[i] = job[w]
  <2>1. CASE FindItems(w)
    BY <2>1 DEF FindItems, TypeOK, Lockable, Todo, Bindings
  <2>2. CASE ~ FindItems(w)
    BY <2>2 DEF StartWhole, LockItems, HandleWhole, HandleTags, CountTags, HandleLate,
         HandleRank, FinishWhole, TypeOK, Bindings
  <2> QED BY <2>1, <2>2
<1>4. /\ chain' \in [Workers -> SUBSET Types] /\ \A v \in Workers \ {w} : chain'[v] = chain[v]
  BY ChainAssumption DEF StartWhole, FindItems, LockItems, HandleWhole, HandleTags, CountTags,
         HandleLate, HandleRank, FinishWhole, TypeOK, Bindings
<1>5. /\ item' \in [Items -> {"none", "todo", "done"}]
      /\ lock' \in [Items -> {"free", "held", "stale"}]
      /\ counted' \in [Items -> Nat]
  BY DEF StartWhole, FindItems, LockItems, HandleWhole, HandleTags, CountTags, HandleLate,
         HandleRank, FinishWhole, itemVars, TypeOK
<1>6. TypeOK'
  BY <1>1, <1>2, <1>3, <1>4, <1>5 DEF TypeOK
<1>7. Others(w)
  BY <1>1, <1>2, <1>3, <1>4 DEF Others
<1>8. Bindings(w)'
  <2>1. Bindings(w) /\ pc[w] # "idle" /\ job[w] \in Types /\ w \in scene.crew
    BY DEF StartWhole, FindItems, LockItems, HandleWhole, HandleTags, CountTags, HandleLate,
           HandleRank, FinishWhole, Bindings
  <2>2. same'[w] => Present(job[w])'
    BY <1>1, <2>1 DEF Bindings, Present
  <2>3. CASE StartWhole(w) \/ HandleWhole(w)
    BY <1>1, <1>3, <2>1, <2>2, <2>3 DEF StartWhole, HandleWhole, Go, TypeOK, Bindings
  <2>4. CASE FindItems(w)
    BY <1>1, <1>3, <2>1, <2>2, <2>4 DEF FindItems, Go, TypeOK, Bindings
  <2>5. CASE LockItems(w)
    BY <1>1, <1>3, <2>1, <2>2, <2>5 DEF LockItems, Go, TypeOK, Bindings
  <2>6. CASE HandleTags(w) \/ HandleLate(w) \/ HandleRank(w)
    BY <1>1, <1>3, <2>1, <2>2, <2>6
       DEF HandleTags, HandleLate, HandleRank, Go, TypeOK, Bindings, ItemTypes
  <2>7. CASE CountTags(w)
    BY <1>1, <1>3, <2>1, <2>2, <2>7 DEF CountTags, Go, TypeOK, Bindings
  <2>8. CASE FinishWhole(w)
    BY <1>1, <1>3, <2>1, <2>2, <2>8, ChainAssumption DEF FinishWhole, Go, TypeOK, Bindings
  <2> QED BY <2>3, <2>4, <2>5, <2>6, <2>7, <2>8
<1>9. \A v \in Workers \ {w} : same'[v] => Present(job[v])'
  BY <1>1 DEF Bindings, Present
<1>10. adds = 0 => (\A t \in Types : ~ manual'[t]) /\ ~ byHand'[w]
  BY <1>1 DEF NoHand
<1>11. TInv'
  BY <1>6, <1>7, <1>8, <1>9, <1>10, OwnStep
<1> QED BY <1>1, <1>7, <1>11 DEF bounds

LEMMA ClaimStep ==
  ASSUME TInv, NEW w \in Workers, NEW t \in Types, Claim(w, t)
  PROVE  TInv' /\ Others(w)
<1> USE DEF TInv
<1>1. /\ manual' = manual /\ item' = item /\ lock' = lock /\ counted' = counted
      /\ batch' = batch /\ writing' = writing /\ chain' = chain
      /\ scene' = scene /\ faults' = faults /\ errors' = errors /\ adds' = adds
  BY DEF Claim, itemVars, bounds
<1>2. /\ Claimed(tasks[t], Now, 1) \in TaskDocs
      /\ Claimed(tasks[t], Now, 1).status = "running"
      /\ tasks[t].attempts \in Nat
  <2>1. tasks[t] \in TaskDocs
    BY DEF TypeOK
  <2>2. tasks[t].attempts \in Nat
    BY <2>1 DEF TaskDocs
  <2> QED BY <2>1, <2>2, UpdatesTyped
<1>3. tasks' = [tasks EXCEPT ![t] = Claimed(tasks[t], Now, 1)] /\ tasks' \in [Types -> TaskDocs]
  BY <1>2 DEF Claim, TypeOK
<1>4. TypeOK'
  BY <1>1, <1>2, <1>3 DEF Claim, Go, TypeOK, Places
<1>5. Others(w)
  BY <1>1 DEF Claim, Go, TypeOK, Others
<1>6. Bindings(w)'
  <2>1. Present(t)'
    BY <1>2, <1>3 DEF Present, TypeOK
  <2>2. pc[w] = "idle" /\ batch[w] = {} /\ chain[w] = {} /\ writing[w] = NoType
    BY DEF Claim, Bindings
  <2>3. pc'[w] = "claimed" /\ job'[w] = t /\ w \in scene.crew
    BY DEF Claim, Go, TypeOK
  <2>4. job'[w] = t => Present(job[w])'
    BY <2>1 DEF Present
  <2> QED BY <1>1, <2>2, <2>3, <2>4 DEF Bindings
<1>7. \A v \in Workers \ {w} : same'[v] => Present(job[v])'
  <2> SUFFICES ASSUME NEW v \in Workers \ {w}, same'[v] PROVE Present(job[v])'
    OBVIOUS
  <2>1. same[v] /\ job'[v] = job[v] /\ job[v] \in Types /\ Present(job[v])
    BY <1>5 DEF Others, Bindings, TypeOK
  <2> QED BY <1>2, <1>3, <2>1 DEF Present, TypeOK
<1>8. adds = 0 => (\A s \in Types : ~ manual'[s]) /\ ~ byHand'[w]
  BY <1>1 DEF Claim, TypeOK, NoHand
<1> QED BY <1>4, <1>5, <1>6, <1>7, <1>8, OwnStep

LEMMA ReleaseEarlyStep ==
  ASSUME TInv, NEW w \in Workers, ReleaseEarly(w)
  PROVE  TInv' /\ Others(w)
<1> USE DEF TInv
<1>1. /\ manual' = manual /\ item' = item /\ lock' = lock /\ counted' = counted
      /\ batch' = batch /\ writing' = writing /\ chain' = chain
      /\ job' = job /\ same' = same /\ seen' = seen /\ byHand' = byHand
      /\ scene' = scene /\ faults' = faults /\ errors' = errors /\ adds' = adds
  BY DEF ReleaseEarly, itemVars, bounds, copyVars
<1> DEFINE d == Released(tasks[job[w]])
<1>2. job[w] \in Types /\ pc[w] # "idle" /\ pc[w] = "locked"
  BY DEF ReleaseEarly, Bindings
<1>3. d \in TaskDocs /\ (same[w] => d.status # "absent")
  <2>1. tasks[job[w]] \in TaskDocs /\ (same[w] => tasks[job[w]].status # "absent")
    BY <1>2, OwnDoc
  <2> QED BY <2>1, UpdatesTyped, UpdatesStay
<1>4. Update(w, d)
  BY DEF ReleaseEarly
<1> HIDE DEF d
<1>5. TypeOK'
  BY <1>1, <1>3, <1>4, UpdateTyped DEF ReleaseEarly, Go, TypeOK, Places
<1>6. Others(w)
  BY <1>1 DEF ReleaseEarly, Go, TypeOK, Others
<1>7. \A v \in Workers : same'[v] => Present(job[v])'
  BY <1>1, <1>3, <1>4, UpdateTyped DEF Bindings, Present, TypeOK
<1>8. Bindings(w)'
  BY <1>1, <1>2, <1>7 DEF ReleaseEarly, Go, TypeOK, Bindings
<1>9. adds = 0 => (\A s \in Types : ~ manual'[s]) /\ ~ byHand'[w]
  BY <1>1 DEF NoHand
<1> QED BY <1>5, <1>6, <1>7, <1>8, <1>9, OwnStep

LEMMA FinishItemsStep ==
  ASSUME TInv, NEW w \in Workers, FinishItems(w)
  PROVE  TInv' /\ Others(w)
<1> USE DEF TInv
<1> DEFINE d == BudgetCleared(tasks[job[w]])
<1>1. /\ Update(w, d) /\ Restart(w, {})
      /\ manual' = manual /\ counted' = counted
      /\ scene' = scene /\ faults' = faults /\ errors' = errors /\ adds' = adds
  BY DEF FinishItems, bounds
<1>2. job[w] \in Types
  BY DEF FinishItems, ItemTypes, Types
<1>3. d \in TaskDocs /\ (same[w] => d.status # "absent")
  <2>1. tasks[job[w]] \in TaskDocs /\ (same[w] => tasks[job[w]].status # "absent")
    BY <1>2, OwnDoc
  <2> QED BY <2>1, UpdatesTyped, UpdatesStay
<1> HIDE DEF d
<1>4. /\ item' \in [Items -> {"none", "todo", "done"}]
      /\ lock' \in [Items -> {"free", "held", "stale"}]
  BY DEF FinishItems, TypeOK
<1>5. TypeOK'
  BY <1>1, <1>3, <1>4, RestartTyped, UpdateTyped DEF TypeOK
<1>6. Others(w)
  BY <1>1, RestartOthers
<1>7. Bindings(w)' /\ ~ byHand'[w]
  BY <1>1, <1>5, RestartTyped, IdleBindings
<1>8. \A v \in Workers \ {w} : same'[v] => Present(job[v])'
  <2> SUFFICES ASSUME NEW v \in Workers \ {w}, same'[v] PROVE Present(job[v])'
    OBVIOUS
  <2>1. same[v] /\ job'[v] = job[v]
    BY <1>6 DEF Others
  <2>2. Present(job[v]) /\ job[v] \in Types
    BY <2>1 DEF Bindings, TypeOK
  <2> QED BY <1>1, <1>3, <2>1, <2>2, UpdateTyped DEF Present
<1>9. adds = 0 => (\A s \in Types : ~ manual'[s])
  BY <1>1 DEF NoHand
<1> QED BY <1>5, <1>6, <1>7, <1>8, <1>9, OwnStep

\* The steps of the chain, short of the deletion.
LEMMA ChainStep ==
  ASSUME TInv, NEW w \in Workers, ChainRead(w) \/ ChainWrite(w) \/ ChainFails(w)
  PROVE  TInv' /\ Others(w)
<1> USE DEF TInv
<1>1. /\ item' = item /\ lock' = lock /\ counted' = counted /\ pc' = pc /\ job' = job
      /\ same' = same /\ seen' = seen /\ byHand' = byHand /\ batch' = batch
      /\ scene' = scene /\ faults' = faults /\ adds' = adds
      /\ errors' \in 0..scene.errors
  BY BoundsTyped DEF ChainRead, ChainWrite, ChainFails, itemVars, copyVars, bounds, Error, TypeOK
<1>2. pc[w] \in {"final", "chaining"} /\ job[w] \in Types
  BY DEF ChainRead, ChainWrite, ChainFails, EnqueueWrite, Bindings
<1>3. /\ tasks' \in [Types -> TaskDocs] /\ manual' \in [Types -> BOOLEAN]
      /\ \A t \in Types : (Present(t) => Present(t)') /\ (~ manual[t] => ~ manual'[t])
  <2>1. CASE ChainWrite(w)
    <3>1. EnqueueWrite(w, FALSE)
      BY <2>1 DEF ChainWrite
    <3>2. Enqueued.status # "absent"
      BY DEF Enqueued
    <3>3. /\ tasks' \in [Types -> TaskDocs] /\ manual' \in [Types -> BOOLEAN]
          /\ \A t \in Types : /\ tasks'[t] = IF t = writing[w] THEN Enqueued ELSE tasks[t]
                             /\ manual'[t] = IF t = writing[w] THEN FALSE ELSE manual[t]
      BY <3>1, EnqueueTyped
    <3> QED BY <3>2, <3>3 DEF Present
  <2>2. CASE ChainRead(w) \/ ChainFails(w)
    <3>1. tasks' = tasks /\ manual' = manual
      BY <2>2 DEF ChainRead, ChainFails
    <3> QED BY <3>1 DEF TypeOK, Present
  <2> QED BY <2>1, <2>2
<1>4. /\ writing' \in [Workers \cup {User} -> Types \cup {NoType}]
      /\ chain' \in [Workers -> SUBSET Types]
      /\ \A b \in (Workers \cup {User}) \ {w} : writing'[b] = writing[b]
      /\ \A v \in Workers \ {w} : chain'[v] = chain[v]
      /\ chain'[w] \cup {writing'[w]} \subseteq chain[w] \cup {writing[w]} \cup {NoType}
      /\ writing'[w] \notin chain'[w]
  <2>1. CASE ChainRead(w)
    <3>1. PICK t \in chain[w] : /\ EnqueueRead(w, t)
                                /\ chain' = [chain EXCEPT ![w] = @ \ {t}]
      BY <2>1 DEF ChainRead
    <3>2. t \in Types /\ writing[w] = NoType /\ NoType \notin chain[w]
      BY <2>1, ChainAssumption DEF ChainRead, TypeOK
    <3>3. /\ writing' \in [Workers \cup {User} -> Types \cup {NoType}]
          /\ \A b \in (Workers \cup {User}) \ {w} : writing'[b] = writing[b]
          /\ writing'[w] \in {t, NoType}
      BY <3>1, <3>2 DEF EnqueueRead, TypeOK
    <3> QED BY <3>1, <3>2, <3>3 DEF TypeOK
  <2>2. CASE ChainWrite(w)
    <3>1. EnqueueWrite(w, FALSE) /\ chain' = chain /\ NoType \notin chain[w]
      BY <2>2, ChainAssumption DEF ChainWrite, TypeOK
    <3> QED BY <3>1, EnqueueTyped DEF TypeOK
  <2>3. CASE ChainFails(w)
    BY <2>3, ChainAssumption DEF ChainFails, TypeOK
  <2> QED BY <2>1, <2>2, <2>3
<1>5. TypeOK'
  BY <1>1, <1>3, <1>4 DEF TypeOK
<1>6. Others(w)
  BY <1>1, <1>4, ChainAssumption DEF Others
<1>7. \A v \in Workers : same'[v] => Present(job[v])'
  BY <1>1, <1>3 DEF Bindings, Present, TypeOK
<1>8. Bindings(w)'
  BY <1>1, <1>2, <1>4, <1>7 DEF Bindings
<1>9. adds = 0 => (\A s \in Types : ~ manual'[s]) /\ ~ byHand'[w]
  BY <1>1, <1>3 DEF NoHand
<1> QED BY <1>5, <1>6, <1>7, <1>8, <1>9, OwnStep

\* NothingFound either goes on to the chain or gives the claim back.
LEMMA NothingFoundStep ==
  ASSUME TInv, NEW w \in Workers, NothingFound(w)
  PROVE  TInv' /\ Others(w)
<1> USE DEF TInv
<1>1. pc[w] = "empty" /\ job[w] \in Types /\ batch[w] = {}
  BY DEF NothingFound, Bindings
<1>2. CASE job[w] \in RankTypes \/ Todo(job[w]) = {}
  <2>1. /\ tasks' = tasks /\ manual' = manual /\ item' = item /\ lock' = lock
        /\ counted' = counted /\ job' = job /\ same' = same /\ seen' = seen
        /\ byHand' = byHand /\ batch' = batch /\ writing' = writing
        /\ scene' = scene /\ faults' = faults /\ errors' = errors /\ adds' = adds
        /\ Go(w, "final")
        /\ chain' = [chain EXCEPT ![w] = IF byHand[w] THEN {} ELSE After[job[w]]]
    BY <1>2 DEF NothingFound, itemVars, copyVars, bounds
  <2>2. TypeOK'
    BY <1>1, <2>1, ChainAssumption DEF Go, TypeOK, Places
  <2>3. Others(w)
    BY <2>1 DEF Go, TypeOK, Others
  <2>4. \A v \in Workers : same'[v] => Present(job[v])'
    BY <2>1 DEF Bindings, Present
  <2>5. Bindings(w)'
    BY <1>1, <2>1, <2>4, ChainAssumption DEF Go, TypeOK, Bindings
  <2>6. adds = 0 => (\A s \in Types : ~ manual'[s]) /\ ~ byHand'[w]
    BY <2>1 DEF NoHand
  <2> QED BY <2>2, <2>3, <2>4, <2>5, <2>6, OwnStep
<1>3. CASE ~ (job[w] \in RankTypes \/ Todo(job[w]) = {})
  <2> DEFINE d == Released(tasks[job[w]])
  <2>1. LeaveWith(w, d) /\ scene' = scene /\ faults' = faults /\ errors' = errors
    BY <1>3 DEF NothingFound
  <2>2. d \in TaskDocs /\ (same[w] => d.status # "absent")
    <3>1. tasks[job[w]] \in TaskDocs /\ (same[w] => tasks[job[w]].status # "absent")
      BY <1>1, OwnDoc
    <3> QED BY <3>1, UpdatesTyped, UpdatesStay
  <2>3. faults' \in 0..scene.faults /\ errors' \in 0..scene.errors
    BY <2>1 DEF TypeOK
  <2> HIDE DEF d
  <2>4. Restart(w, {}) /\ adds' = adds
    BY <2>1 DEF LeaveWith
  <2> QED BY <2>1, <2>2, <2>3, <2>4, LeaveStep, RestartOthers
<1> QED BY <1>2, <1>3

LEMMA TroubleStep ==
  ASSUME TInv, NEW w \in Workers, Trouble(w)
  PROVE  TInv' /\ Others(w) /\ scene.faults + scene.errors > 0
<1> USE DEF TInv
<1>0. job[w] \in Types /\ pc[w] # "idle"
  BY DEF Trouble, OwnerMissing, BadScope, FinalFails, HandleFails, ChainFails, Crash, Bindings
<1>1. Fault \/ Error
  BY DEF Trouble, OwnerMissing, BadScope, FinalFails, HandleFails, ChainFails, Crash
<1>2. /\ scene' = scene /\ faults' \in 0..scene.faults /\ errors' \in 0..scene.errors
      /\ scene.faults + scene.errors > 0
  BY <1>1, BoundsTyped, ScenesTyped
<1>3. CASE ChainFails(w)
  BY <1>2, <1>3, ChainStep
<1>4. CASE Crash(w)
  <2>1. /\ Restart(w, {}) /\ tasks' = tasks /\ manual' = manual /\ item' = item
        /\ lock' = lock /\ counted' = counted /\ adds' = adds
    BY <1>4 DEF Crash, itemVars
  <2>2. TypeOK'
    BY <1>2, <2>1, RestartTyped DEF TypeOK
  <2>3. Others(w)
    BY <1>2, <2>1, RestartOthers
  <2>4. Bindings(w)' /\ ~ byHand'[w]
    BY <2>1, <2>2, RestartTyped, IdleBindings
  <2>5. \A v \in Workers \ {w} : same'[v] => Present(job[v])'
    BY <2>1, <2>3 DEF Others, Bindings, Present
  <2>6. adds = 0 => (\A s \in Types : ~ manual'[s])
    BY <2>1 DEF NoHand
  <2> QED BY <1>2, <2>2, <2>3, <2>4, <2>5, <2>6, OwnStep
<1>5. CASE OwnerMissing(w) \/ BadScope(w) \/ FinalFails(w) \/ HandleFails(w)
  <2>1. PICK d \in {Released(tasks[job[w]]), MarkedFailed(tasks[job[w]]), tasks[job[w]],
                    Failed(tasks[job[w]], seen[w], Now)} : LeaveWith(w, d)
    BY <1>5 DEF OwnerMissing, BadScope, FinalFails, HandleFails
  <2>2. /\ tasks[job[w]] \in TaskDocs /\ seen[w] \in Nat
        /\ same[w] => tasks[job[w]].status # "absent"
    BY <1>0 DEF TypeOK, Bindings, Present
  <2>3. d \in TaskDocs /\ (same[w] => d.status # "absent")
    <3> DEFINE e == tasks[job[w]]
               n == seen[w]
    <3>1. /\ Released(e) \in TaskDocs /\ MarkedFailed(e) \in TaskDocs
          /\ Failed(e, n, Now) \in TaskDocs
      BY <2>2, UpdatesTyped
    <3>2. same[w] => /\ Released(e).status # "absent" /\ MarkedFailed(e).status # "absent"
                     /\ Failed(e, n, Now).status # "absent"
      BY <2>2, UpdatesStay
    <3> QED BY <2>1, <2>2, <3>1, <3>2
  <2>4. Restart(w, {}) /\ adds' = adds
    BY <2>1 DEF LeaveWith
  <2> HIDE DEF TInv
  <2>5. TInv' /\ Others(w)
    BY <1>2, <2>1, <2>3, <2>4, LeaveStep, RestartOthers DEF TInv
  <2> QED BY <1>2, <2>5
<1> QED BY <1>3, <1>4, <1>5 DEF Trouble

\* A step of a worker.
LEMMA WorkerStep ==
  ASSUME TInv, NEW w \in Workers,
         Work(w) \/ Trouble(w) \/ \E t \in Types : Claim(w, t)
  PROVE  TInv' /\ Others(w)
<1>1. CASE FinalComplete(w) \/ ChainComplete(w)
  <2>1. Complete(w)
    BY <1>1 DEF FinalComplete, ChainComplete
  <2>2. Restart(w, {v \in Workers : same[w] /\ job[v] = job[w]}) /\ UNCHANGED bounds
    BY <2>1 DEF Complete
  <2> QED BY <2>1, <2>2, CompleteStep, RestartOthers DEF TInv, bounds
<1>2. CASE Trouble(w)
  BY <1>2, TroubleStep
<1>3. CASE \E t \in Types : Claim(w, t)
  BY <1>3, ClaimStep
<1>4. CASE ReleaseEarly(w) \/ FinishItems(w) \/ NothingFound(w)
  BY <1>4, ReleaseEarlyStep, FinishItemsStep, NothingFoundStep
<1>5. CASE ChainRead(w) \/ ChainWrite(w)
  BY <1>5, ChainStep
<1> QED BY <1>1, <1>2, <1>3, <1>4, <1>5, PlaceStep DEF Work

\* The steps of the user and of time.
LEMMA OutsideStep ==
  ASSUME TInv,
         \/ \E t \in Types : AddTask(t) \/ LeaseEnds(t) \/ BackoffEnds(t)
         \/ AddWrite
         \/ \E i \in Items : LockAges(i)
         \/ UNCHANGED vars
  PROVE  /\ TInv' /\ UNCHANGED <<item, counted, pc, job, same, seen, byHand, batch, chain>>
         /\ UNCHANGED scene
         /\ \A w \in Workers : writing'[w] = writing[w]
         /\ \A t \in Types : Present(t) => Present(t)'
<1> USE DEF TInv
<1>1. /\ item' = item /\ counted' = counted /\ pc' = pc /\ job' = job /\ same' = same
      /\ seen' = seen /\ byHand' = byHand /\ batch' = batch /\ chain' = chain
      /\ scene' = scene /\ faults' = faults /\ errors' = errors
  BY DEF AddTask, LeaseEnds, BackoffEnds, AddWrite, LockAges, itemVars, copyVars, workerVars,
         bounds, vars
<1> DEFINE Sound ==
             /\ tasks' \in [Types -> TaskDocs] /\ manual' \in [Types -> BOOLEAN]
             /\ writing' \in [Workers \cup {User} -> Types \cup {NoType}]
             /\ \A w \in Workers : writing'[w] = writing[w]
             /\ \A t \in Types : Present(t) => Present(t)'
<1>2. Sound
  <2>1. CASE AddWrite
    <3>1. EnqueueWrite(User, TRUE) /\ Enqueued.status # "absent"
      BY <2>1 DEF AddWrite, Enqueued
    <3>2. User \in Workers \cup {User} /\ TRUE \in BOOLEAN
      OBVIOUS
    <3>3. /\ tasks' \in [Types -> TaskDocs] /\ manual' \in [Types -> BOOLEAN]
          /\ writing' \in [Workers \cup {User} -> Types \cup {NoType}]
          /\ \A b \in (Workers \cup {User}) \ {User} : writing'[b] = writing[b]
          /\ \A t \in Types : tasks'[t] = IF t = writing[User] THEN Enqueued ELSE tasks[t]
      BY <3>1, <3>2, EnqueueTyped
    <3> QED BY <3>1, <3>3, ChainAssumption DEF Present
  <2>2. ASSUME NEW t \in Types, AddTask(t) PROVE Sound
    BY <2>2, ChainAssumption DEF AddTask, EnqueueRead, TypeOK, Present
  <2>3. ASSUME NEW t \in Types, LeaseEnds(t) \/ BackoffEnds(t) PROVE Sound
    <3>1. tasks[t] \in TaskDocs
      BY DEF TypeOK
    <3>2. PICK d \in TaskDocs : /\ tasks' = [tasks EXCEPT ![t] = d]
                                /\ Present(t) => d.status # "absent"
      BY <2>3, <3>1 DEF LeaseEnds, BackoffEnds, TaskDocs, Present
    <3>3. manual' = manual /\ writing' = writing
      BY <2>3 DEF LeaseEnds, BackoffEnds, workerVars
    <3> QED BY <3>2, <3>3 DEF TypeOK, Present
  <2>4. CASE (\E i \in Items : LockAges(i)) \/ UNCHANGED vars
    BY <2>4 DEF LockAges, workerVars, vars, TypeOK, Present
  <2> QED BY <2>1, <2>2, <2>3, <2>4
<1>3. lock' \in [Items -> {"free", "held", "stale"}] /\ adds' \in 0..scene.adds
  <2>1. CASE \E t \in Types : AddTask(t)
    BY <2>1, ScenesTyped DEF AddTask, itemVars, TypeOK
  <2>2. CASE ~ \E t \in Types : AddTask(t)
    <3>1. adds' = adds /\ (lock' = lock \/ \E i \in Items : LockAges(i))
      BY <2>2 DEF LeaseEnds, BackoffEnds, AddWrite, LockAges, itemVars, bounds, vars
    <3>2. ASSUME NEW i \in Items, LockAges(i)
          PROVE  lock' \in [Items -> {"free", "held", "stale"}]
      BY <3>2 DEF LockAges, TypeOK
    <3> QED BY <3>1, <3>2 DEF TypeOK
  <2> QED BY <2>1, <2>2
<1>4. TypeOK'
  BY <1>1, <1>2, <1>3 DEF TypeOK
<1>5. adds' = 0 => adds = 0 /\ manual' = manual /\ writing'[User] = writing[User]
  <2>1. CASE \E t \in Types : AddTask(t)
    BY <2>1, ScenesTyped DEF AddTask
  <2>2. CASE AddWrite
    BY <2>2 DEF AddWrite, EnqueueWrite, NoHand, bounds
  <2>3. CASE ~ (AddWrite \/ \E t \in Types : AddTask(t))
    BY <2>3 DEF LeaseEnds, BackoffEnds, LockAges, workerVars, bounds, vars
  <2> QED BY <2>1, <2>2, <2>3
<1>6. NoHand'
  BY <1>1, <1>5 DEF NoHand
<1>7. \A w \in Workers : Bindings(w)'
  BY <1>1, <1>2 DEF Bindings, TypeOK
<1> QED BY <1>1, <1>2, <1>4, <1>6, <1>7

LEMMA TInvStep == TInv /\ [Next]_vars => TInv'
BY WorkerStep, OutsideStep DEF Next

-----------------------------------------------------------------------------
(* Exclusion *)

\* In a scene with several workers nothing fails and nobody adds a task.
LEMMA Calm ==
  ASSUME ScenesOrderly, TInv, ~ Lone
  PROVE  /\ OneChain /\ ~ scene.slow /\ adds = 0 /\ errors = 0
         /\ scene.faults = 0 /\ scene.errors = 0 /\ scene.adds = 0
<1>1. OneChain /\ ~ scene.slow /\ scene.faults = 0 /\ scene.errors = 0 /\ scene.adds = 0
  BY DEF ScenesOrderly, Orderly, Lone, TInv, TypeOK
<1> QED BY <1>1, ScenesTyped DEF TInv, TypeOK

LEMMA CalmSteps ==
  ASSUME ScenesOrderly, TInv, ~ Lone
  PROVE  /\ \A w \in Workers : ~ Trouble(w)
         /\ \A t \in Types : ~ AddTask(t)
         /\ ~ AddWrite
<1>1. \A w \in Workers : ~ Trouble(w)
  BY Calm, TroubleStep
<1>2. \A t \in Types : ~ AddTask(t)
  BY Calm DEF AddTask
<1>3. ~ AddWrite
  BY Calm DEF AddWrite, EnqueueWrite, TInv, NoHand
<1> QED BY <1>1, <1>2, <1>3

LEMMA LoneStays == ASSUME scene' = scene PROVE Lone' <=> Lone
BY DEF Lone

\* Where a step takes the worker.
LEMMA Moves ==
  ASSUME TInv, NEW w \in Workers, Work(w)
  PROVE  /\ pc[w] # "idle"
         /\ \/ pc'[w] = "idle" /\ job'[w] = NoType /\ batch'[w] = {}
            \/ /\ job'[w] = job[w] /\ (same'[w] <=> same[w]) /\ pc'[w] # "idle"
               /\ UnderClaim(w)' => UnderClaim(w)
               /\ pc'[w] = "final" => pc[w] \in {"final", "empty"}
               /\ pc'[w] = "chaining" => pc[w] \in {"chaining", "finishing"}
<1> USE DEF TInv
<1>1. CASE FinalComplete(w) \/ ChainComplete(w)
  <2>1. PICK G : Restart(w, G)
    BY <1>1 DEF FinalComplete, ChainComplete, Complete
  <2> QED BY <1>1, <2>1, RestartTyped DEF FinalComplete, ChainComplete
<1>2. CASE FinishItems(w)
  BY <1>2, RestartTyped DEF FinishItems
<1>3. CASE NothingFound(w)
  <2>1. CASE job[w] \in RankTypes \/ Todo(job[w]) = {}
    BY <1>3, <2>1 DEF NothingFound, Go, TypeOK, UnderClaim, copyVars
  <2>2. CASE ~ (job[w] \in RankTypes \/ Todo(job[w]) = {})
    BY <1>3, <2>2, RestartTyped DEF NothingFound, LeaveWith
  <2> QED BY <2>1, <2>2
<1>4. CASE StartWhole(w) \/ FindItems(w) \/ LockItems(w)
  BY <1>4 DEF StartWhole, FindItems, LockItems, Go, TypeOK, UnderClaim, copyVars, bounds
<1>5. CASE ReleaseEarly(w) \/ ChainRead(w) \/ ChainWrite(w)
  <2>1. pc[w] # "idle"
    BY <1>5 DEF ReleaseEarly, ChainRead, ChainWrite, EnqueueWrite, Bindings
  <2> QED BY <1>5, <2>1
       DEF ReleaseEarly, ChainRead, ChainWrite, Go, TypeOK, UnderClaim, copyVars, bounds
<1>6. CASE \/ HandleWhole(w) \/ HandleTags(w) \/ CountTags(w) \/ HandleLate(w)
           \/ HandleRank(w) \/ FinishWhole(w)
  BY <1>6 DEF HandleWhole, HandleTags, CountTags, HandleLate, HandleRank, FinishWhole, Go,
              TypeOK, UnderClaim, copyVars, bounds
<1> QED BY <1>1, <1>2, <1>3, <1>4, <1>5, <1>6 DEF Work

\* The document that a step updates, inserts or deletes.
LEMMA Documents ==
  ASSUME TInv, NEW w \in Workers, Work(w), NEW t \in Types, tasks'[t] # tasks[t]
  PROVE  \/ /\ ChainWrite(w) /\ t = writing[w] /\ t \in After[job[w]]
            /\ tasks'[t] = Enqueued
         \/ /\ t = job[w] /\ same[w]
            /\ \/ FinishItems(w) /\ tasks'[t] = BudgetCleared(tasks[t])
               \/ pc[w] \in {"locked", "empty"} /\ tasks'[t] = Released(tasks[t])
               \/ /\ pc[w] \in {"final", "chaining"} /\ pc'[w] = "idle"
                  /\ Coming(w) = {NoType} /\ tasks'[t] = Absent
                  /\ \A v \in Workers : job[v] = t => ~ same'[v]
<1> USE DEF TInv
<1>1. CASE FinalComplete(w) \/ ChainComplete(w)
  <2> DEFINE G == {v \in Workers : same[w] /\ job[v] = job[w]}
  <2>1. /\ Update(w, Absent) /\ Restart(w, G) /\ pc[w] \in {"final", "chaining"}
        /\ Coming(w) = {NoType}
    BY <1>1 DEF FinalComplete, ChainComplete, Complete, Coming
  <2>2. t = job[w] /\ same[w] /\ tasks'[t] = Absent
    BY <2>1 DEF Update, TypeOK
  <2>3. pc'[w] = "idle" /\ \A v \in G : ~ same'[v]
    BY <2>1 DEF Restart, Go, TypeOK
  <2> QED BY <2>1, <2>2, <2>3
<1>2. CASE FinishItems(w)
  BY <1>2 DEF FinishItems, Update, TypeOK
<1>3. CASE NothingFound(w) \/ ReleaseEarly(w)
  BY <1>3 DEF NothingFound, ReleaseEarly, LeaveWith, Update, TypeOK
<1>4. CASE ChainWrite(w)
  <2>1. EnqueueWrite(w, FALSE)
    BY <1>4 DEF ChainWrite
  <2>2. t = writing[w] /\ tasks'[t] = Enqueued
    BY <2>1, EnqueueTyped
  <2>3. t \in After[job[w]]
    BY <2>2, ChainAssumption DEF Bindings
  <2> QED BY <1>4, <2>2, <2>3
<1>5. CASE ChainRead(w)
  BY <1>5 DEF ChainRead
<1> QED BY <1>1, <1>2, <1>3, <1>4, <1>5, PlaceStep DEF Work

\* A task that a worker has yet to add is not there, nor is any that it leads to.
LEMMA NotYet ==
  ASSUME TInv, Forward, NEW w \in Workers, Held(w), UnderClaim(w), job[w] \in Types,
         \A u \in Workers : pc[u] \in {"final", "chaining"} => UnderClaim(u),
         NEW s \in Coming(w) \cap After[job[w]], NEW t \in Types, s \in Line(t)
  PROVE  ~ Present(t)
<1> SUFFICES ASSUME Present(t) PROVE FALSE
  OBVIOUS
<1>1. Present(job[w])
  BY DEF Held, TInv, Bindings
<1>2. job[w] \in Upstream(t)
  BY Onward, UpOn DEF Line
<1>3. PICK u \in Workers : /\ job[u] = job[w] /\ pc[u] \in {"final", "chaining"}
                           /\ job[w] = t \/ Coming(u) \cap Line(t) = {}
  BY <1>1, <1>2 DEF Forward, Spent
<1>4. u = w
  BY <1>3 DEF Held
<1>5. job[w] # t
  BY <1>2, ChainAssumption
<1> QED BY <1>3, <1>4, <1>5

\* At the end of its task a worker is under its claim, when handlers are not slow.
LEMMA EndsUnderClaim ==
  ASSUME TInv, ~ scene.slow
  PROVE  \A u \in Workers : pc[u] \in {"final", "chaining"} => UnderClaim(u)
BY DEF TInv, Bindings, UnderClaim

\* A claim outlives the steps of the other workers.
LEMMA HeldOther ==
  ASSUME TInv, ~ scene.slow, Forward, \A u \in Workers : Held(u),
         NEW w \in Workers, Work(w), NEW v \in Workers \ {w}
  PROVE  Held(v)'
<1>1. Others(w)
  BY WorkerStep
<1>2. /\ pc'[v] = pc[v] /\ job'[v] = job[v] /\ scene' = scene
      /\ \A u \in Workers \ {w} : pc'[u] = pc[u] /\ job'[u] = job[u]
  BY <1>1 DEF Others
<1> SUFFICES ASSUME UnderClaim(v)'
             PROVE  /\ same'[v] /\ tasks'[job[v]].status = "running"
                    /\ tasks'[job[v]].lease > Now
                    /\ \A u \in Workers \ {v} : UnderClaim(u)' => job'[u] # job[v]
  BY <1>2 DEF Held
<1>3. UnderClaim(v)
  BY <1>2 DEF UnderClaim
<1>4. /\ same[v] /\ tasks[job[v]].status = "running" /\ tasks[job[v]].lease > Now
      /\ \A u \in Workers \ {v} : UnderClaim(u) => job[u] # job[v]
  BY <1>3 DEF Held
<1>5. job[v] \in Types /\ Present(job[v])
  BY <1>4 DEF TInv, TypeOK, Bindings
<1>6. ~ (UnderClaim(w) /\ job[w] = job[v])
  BY <1>4
<1>7. same'[v]
  <2>1. CASE FinalComplete(w) \/ ChainComplete(w)
    <3>1. UnderClaim(w)
      BY <2>1, EndsUnderClaim DEF FinalComplete, ChainComplete
    <3>2. v \notin {u \in Workers : same[w] /\ job[u] = job[w]}
      BY <3>1, <1>6
    <3>3. Restart(w, {u \in Workers : same[w] /\ job[u] = job[w]})
      BY <2>1 DEF FinalComplete, ChainComplete, Complete
    <3> QED BY <3>2, <3>3, <1>4, RestartSame
  <2>2. CASE FinishItems(w) \/ NothingFound(w)
    <3>1. Restart(w, {}) \/ same' = same
      BY <2>2 DEF FinishItems, NothingFound, LeaveWith, copyVars
    <3> QED BY <3>1, <1>4, RestartSame
  <2>3. CASE ~ (FinalComplete(w) \/ ChainComplete(w) \/ FinishItems(w) \/ NothingFound(w))
    BY <2>3, <1>4, PlaceStep DEF Work, ReleaseEarly, ChainRead, ChainWrite, copyVars
  <2> QED BY <2>1, <2>2, <2>3
<1>8. tasks'[job[v]].status = "running" /\ tasks'[job[v]].lease > Now
  <2>1. CASE tasks'[job[v]] = tasks[job[v]]
    BY <2>1, <1>4
  <2>2. CASE tasks'[job[v]] # tasks[job[v]]
    <3>1. CASE ChainWrite(w) /\ job[v] = writing[w] /\ job[v] \in After[job[w]]
      <4>1. pc[w] \in {"final", "chaining"} /\ job[w] \in Types
        BY <3>1 DEF ChainWrite, EnqueueWrite, TInv, Bindings
      <4>2. UnderClaim(w)
        BY <4>1, EndsUnderClaim
      <4>3. ~ Present(job[v])
        BY <3>1, <4>1, <4>2, <1>5, EndsUnderClaim, NotYet DEF Coming, Line
      <4> QED BY <4>3, <1>5
    <3>2. CASE job[v] = job[w]
      <4>1. FinishItems(w) /\ tasks'[job[v]] = BudgetCleared(tasks[job[v]])
        <5>1. pc[w] \notin {"locked", "empty", "final", "chaining"}
          BY <3>2, <1>6, EndsUnderClaim DEF UnderClaim
        <5>2. ~ (ChainWrite(w) /\ job[v] \in After[job[w]])
          BY <3>2, <1>5, Onward
        <5> QED BY <5>1, <5>2, <2>2, <1>5, Documents
      <4>2. /\ BudgetCleared(tasks[job[v]]).status = tasks[job[v]].status
            /\ BudgetCleared(tasks[job[v]]).lease = tasks[job[v]].lease
        BY <1>5, UpdatesTyped DEF TInv, TypeOK
      <4> QED BY <4>1, <4>2, <1>4
    <3> QED BY <3>1, <3>2, <2>2, <1>5, Documents
  <2> QED BY <2>1, <2>2
<1>9. ASSUME NEW u \in Workers \ {v}, UnderClaim(u)' PROVE job'[u] # job[v]
  <2>1. CASE u = w
    <3>1. CASE job'[w] = NoType
      BY <3>1, <2>1, <1>5, ChainAssumption
    <3>2. CASE job'[w] = job[w] /\ (UnderClaim(w)' => UnderClaim(w))
      BY <3>2, <2>1, <1>9, <1>6
    <3> QED BY <3>1, <3>2, Moves
  <2>2. CASE u # w
    <3>1. UnderClaim(u)
      BY <2>2, <1>2, <1>9 DEF UnderClaim
    <3> QED BY <3>1, <2>2, <1>2, <1>4
  <2> QED BY <2>1, <2>2
<1> QED BY <1>7, <1>8, <1>9

\* A worker keeps its own claim while it needs it.
LEMMA HeldOwn ==
  ASSUME TInv, ~ scene.slow, Forward, \A u \in Workers : Held(u),
         NEW w \in Workers, Work(w)
  PROVE  Held(w)'
<1>1. /\ scene' = scene
      /\ \A u \in Workers \ {w} : pc'[u] = pc[u] /\ job'[u] = job[u]
  BY WorkerStep DEF Others
<1> SUFFICES ASSUME UnderClaim(w)'
             PROVE  /\ same'[w] /\ tasks'[job'[w]].status = "running"
                    /\ tasks'[job'[w]].lease > Now
                    /\ \A u \in Workers \ {w} : UnderClaim(u)' => job'[u] # job'[w]
  BY DEF Held
<1>2. pc'[w] # "idle" \/ job'[w] # NoType
  BY ChainAssumption DEF UnderClaim, Types
<1>3. job'[w] = job[w] /\ (same'[w] <=> same[w]) /\ UnderClaim(w) /\ pc'[w] # "idle"
  BY <1>2, Moves
<1>4. /\ same[w] /\ tasks[job[w]].status = "running" /\ tasks[job[w]].lease > Now
      /\ \A u \in Workers \ {w} : UnderClaim(u) => job[u] # job[w]
  BY <1>3 DEF Held
<1>5. job[w] \in Types
  BY <1>3, <1>4 DEF TInv, Bindings, TypeOK
<1>6. tasks'[job[w]] = tasks[job[w]]
  <2> SUFFICES ASSUME tasks'[job[w]] # tasks[job[w]] PROVE FALSE
    OBVIOUS
  <2>1. job[w] \notin After[job[w]]
    BY <1>5, Onward
  <2>2. CASE FinishItems(w)
    BY <2>2, <1>3, RestartTyped DEF FinishItems, TInv
  <2>3. CASE pc[w] \in {"locked", "empty"}
    <3>1. CASE ReleaseEarly(w)
      BY <3>1, <1>1, <1>3, ChainAssumption
         DEF ReleaseEarly, UnderClaim, Go, TInv, TypeOK, Bindings, Types, ItemTypes
    <3>2. CASE NothingFound(w)
      <4>1. CASE job[w] \in RankTypes \/ Todo(job[w]) = {}
        BY <3>2, <4>1 DEF NothingFound
      <4>2. CASE ~ (job[w] \in RankTypes \/ Todo(job[w]) = {})
        BY <3>2, <4>2, <1>3, RestartTyped DEF NothingFound, LeaveWith, TInv
      <4> QED BY <4>1, <4>2
    <3> QED BY <2>3, <3>1, <3>2, PlaceStep
         DEF Work, ChainRead, ChainWrite, EnqueueWrite, FinalComplete, ChainComplete, FinishItems,
             TInv, Bindings
  <2> QED BY <2>1, <2>2, <2>3, <1>3, <1>5, Documents
<1>7. ASSUME NEW u \in Workers \ {w}, UnderClaim(u)' PROVE job'[u] # job'[w]
  <2>1. UnderClaim(u)
    BY <1>1, <1>7 DEF UnderClaim
  <2> QED BY <2>1, <1>1, <1>3, <1>4
<1> QED BY <1>3, <1>4, <1>6, <1>7

\* A claim does not take a task from a worker that is under its own.
LEMMA HeldClaim ==
  ASSUME TInv, \A u \in Workers : Held(u), NEW w \in Workers, NEW t \in Types, Claim(w, t)
  PROVE  \A v \in Workers : Held(v)'
<1>1. /\ scene' = scene
      /\ \A u \in Workers \ {w} : pc'[u] = pc[u] /\ job'[u] = job[u]
  BY ClaimStep DEF Others
<1>2. /\ tasks' = [tasks EXCEPT ![t] = Claimed(tasks[t], Now, 1)]
      /\ job'[w] = t /\ same' = [same EXCEPT ![w] = TRUE] /\ Claimable(tasks[t], Now)
  BY DEF Claim, TInv, TypeOK
<1>3. ASSUME NEW v \in Workers \ {w}, UnderClaim(v)
      PROVE  job[v] # t /\ job[v] \in Types
  <2>1. same[v] /\ tasks[job[v]].status = "running" /\ tasks[job[v]].lease > Now
    BY <1>3 DEF Held
  <2>2. job[v] \in Types
    BY <2>1 DEF TInv, Bindings, TypeOK
  <2>3. tasks[t] \in TaskDocs
    BY DEF TInv, TypeOK
  <2> QED BY <2>1, <2>2, <2>3, <1>2 DEF Claimable, TaskDocs, Now
<1>4. ASSUME NEW v \in Workers \ {w} PROVE Held(v)'
  <2> SUFFICES ASSUME UnderClaim(v)' PROVE Held(v)'
    BY DEF Held
  <2>1. UnderClaim(v)
    BY <1>1 DEF UnderClaim
  <2>2. /\ same[v] /\ tasks[job[v]].status = "running" /\ tasks[job[v]].lease > Now
        /\ \A u \in Workers \ {v} : UnderClaim(u) => job[u] # job[v]
    BY <2>1 DEF Held
  <2>3. same'[v] = same[v] /\ job'[v] = job[v]
    BY <1>1, <1>2 DEF TInv, TypeOK
  <2>4. tasks'[job[v]] = tasks[job[v]]
    BY <1>2, <1>3, <2>1 DEF TInv, TypeOK
  <2>5. ASSUME NEW u \in Workers \ {v}, UnderClaim(u)' PROVE job'[u] # job[v]
    <3>1. CASE u = w
      BY <3>1, <2>1, <1>2, <1>3
    <3>2. CASE u # w
      <4>1. UnderClaim(u)
        BY <1>1, <2>5, <3>2 DEF UnderClaim
      <4> QED BY <4>1, <3>2, <2>2, <1>1
    <3> QED BY <3>1, <3>2
  <2> QED BY <2>2, <2>3, <2>4, <2>5 DEF Held
<1>5. Held(w)'
  <2>1. tasks[t] \in TaskDocs
    BY DEF TInv, TypeOK
  <2>2. tasks'[t] = Claimed(tasks[t], Now, 1) /\ same'[w]
    BY <1>2 DEF TInv, TypeOK
  <2>3. tasks'[t].status = "running" /\ tasks'[t].lease > Now
    BY <2>1, <2>2, UpdatesTyped
  <2>4. ASSUME NEW u \in Workers \ {w}, UnderClaim(u)' PROVE job'[u] # t
    <3>1. UnderClaim(u)
      BY <1>1, <2>4 DEF UnderClaim
    <3> QED BY <3>1, <1>1, <1>3
  <2> QED BY <2>2, <2>3, <2>4, <1>2 DEF Held
<1> QED BY <1>4, <1>5

\* A document comes with an enqueue, and goes with a deletion by a worker at the end of
\* its task.
LEMMA Presence ==
  ASSUME TInv, NEW w \in Workers, Work(w), NEW t \in Types
  PROVE  /\ Present(t)' /\ ~ Present(t) =>
              /\ ChainWrite(w) /\ t = writing[w] /\ t \in After[job[w]] /\ job[w] \in Types
              /\ \A u \in Types \ {t} : tasks'[u] = tasks[u]
         /\ Present(t) /\ ~ Present(t)' =>
              /\ t = job[w] /\ same[w] /\ pc[w] \in {"final", "chaining"}
              /\ Coming(w) = {NoType} /\ \A v \in Workers : job[v] = t => ~ same'[v]
<1>1. CASE tasks'[t] = tasks[t]
  BY <1>1 DEF Present
<1>2. CASE tasks'[t] # tasks[t]
  <2>1. CASE ChainWrite(w) /\ t = writing[w] /\ t \in After[job[w]] /\ tasks'[t] = Enqueued
    <3>1. EnqueueWrite(w, FALSE) /\ Enqueued.status # "absent"
      BY <2>1 DEF ChainWrite, Enqueued
    <3>2. job[w] \in Types
      BY <3>1 DEF EnqueueWrite, TInv, Bindings
    <3>3. \A u \in Types \ {t} : tasks'[u] = tasks[u]
      BY <2>1, <3>1 DEF EnqueueWrite, TInv, TypeOK
    <3> QED BY <2>1, <3>1, <3>2, <3>3 DEF Present
  <2>2. CASE t = job[w] /\ same[w]
    <3>1. tasks[t] \in TaskDocs /\ Present(t)
      BY <2>2, OwnDoc DEF Present
    <3>2. BudgetCleared(tasks[t]).status # "absent" /\ Released(tasks[t]).status # "absent"
      BY <3>1, UpdatesStay DEF Present
    <3>3. ~ (ChainWrite(w) /\ t \in After[job[w]])
      BY <2>2, Onward
    <3> QED BY <3>1, <3>2, <3>3, <2>2, <1>2, Documents DEF Present
  <2> QED BY <2>1, <2>2, <1>2, Documents
<1> QED BY <1>1, <1>2

\* A task that has passed on what it had to has done so for good.
LEMMA SpentStays ==
  ASSUME TInv, NEW w \in Workers, Work(w), NEW p \in Types, NEW t \in Types,
         Spent(p, t), Present(p)'
  PROVE  Spent(p, t)'
<1>1. PICK u \in Workers : /\ job[u] = p /\ same[u] /\ pc[u] \in {"final", "chaining"}
                           /\ p = t \/ Coming(u) \cap Line(t) = {}
  BY DEF Spent
<1>2. Others(w)
  BY WorkerStep
<1>3. Present(p)
  BY <1>1 DEF TInv, Bindings
<1>4. CASE u # w
  <2>1. job'[u] = p /\ pc'[u] = pc[u] /\ Coming(u)' = Coming(u)
    BY <1>1, <1>2, <1>4 DEF Others, Coming
  <2>2. same'[u]
    <3>1. CASE FinalComplete(w) \/ ChainComplete(w)
      <4> DEFINE G == {v \in Workers : same[w] /\ job[v] = job[w]}
      <4>1. Restart(w, G) /\ Update(w, Absent)
        BY <3>1 DEF FinalComplete, ChainComplete, Complete
      <4>2. u \notin G
        <5> SUFFICES ASSUME same[w] /\ p = job[w] PROVE FALSE
          BY <1>1
        <5>1. tasks'[p] = Absent
          BY <4>1 DEF Update, TInv, TypeOK
        <5> QED BY <5>1 DEF Present, Absent
      <4> HIDE DEF G
      <4> QED BY <1>1, <1>4, <4>1, <4>2, RestartSame
    <3>2. CASE FinishItems(w) \/ NothingFound(w)
      <4>1. Restart(w, {}) \/ same' = same
        BY <3>2 DEF FinishItems, NothingFound, LeaveWith, copyVars
      <4> QED BY <4>1, <1>1, <1>4, RestartSame
    <3>3. CASE ~ (FinalComplete(w) \/ ChainComplete(w) \/ FinishItems(w) \/ NothingFound(w))
      BY <3>3, <1>1, PlaceStep DEF Work, ReleaseEarly, ChainRead, ChainWrite, copyVars
    <3> QED BY <3>1, <3>2, <3>3
  <2> QED BY <1>1, <2>1, <2>2 DEF Spent
<1>5. CASE u = w
  <2>1. CASE ChainRead(w) \/ ChainWrite(w)
    <3>1. /\ job' = job /\ same' = same /\ pc' = pc
          /\ Coming(w)' \subseteq Coming(w) \cup {NoType}
      <4>1. CASE ChainRead(w)
        BY <4>1 DEF ChainRead, EnqueueRead, copyVars, Coming, TInv, TypeOK
      <4>2. CASE ChainWrite(w)
        BY <4>2 DEF ChainWrite, EnqueueWrite, copyVars, Coming, TInv, TypeOK
      <4> QED BY <2>1, <4>1, <4>2
    <3>2. NoType \notin Line(t)
      BY ChainAssumption DEF Line, Upstream
    <3> QED BY <1>1, <1>5, <3>1, <3>2 DEF Spent
  <2>2. CASE FinalComplete(w) \/ ChainComplete(w)
    <3>1. tasks'[p] = Absent
      BY <2>2, <1>1, <1>5 DEF FinalComplete, ChainComplete, Complete, Update, TInv, TypeOK
    <3> QED BY <3>1 DEF Present, Absent
  <2> QED BY <2>1, <2>2, <1>1, <1>5
       DEF Work, StartWhole, FindItems, LockItems, ReleaseEarly, NothingFound, HandleWhole,
           HandleTags, CountTags, HandleLate, HandleRank, FinishItems, FinishWhole
<1> QED BY <1>4, <1>5

\* On one chain, the task that is added comes after everything that is there.
LEMMA ForwardStep ==
  ASSUME ScenesOrderly, TInv, ~ Lone, Forward, \A u \in Workers : Held(u),
         NEW w \in Workers, Work(w)
  PROVE  Forward'
<1>0. OneChain /\ \A u \in Workers : pc[u] \in {"final", "chaining"} => UnderClaim(u)
  BY Calm, EndsUnderClaim
<1> SUFFICES ASSUME NEW t \in Types, Present(t)'
             PROVE  /\ Reached(t)
                    /\ \A p \in Upstream(t) : Present(p)' => Spent(p, t)'
  BY DEF Forward, Reached
<1>1. CASE Present(t)
  <2>1. Reached(t)
    BY <1>1 DEF Forward
  <2>2. ASSUME NEW p \in Upstream(t), Present(p)' PROVE Spent(p, t)'
    <3>1. p \in Types
      BY DEF Upstream
    <3>2. CASE Present(p)
      BY <1>1, <2>2, <3>1, <3>2, SpentStays DEF Forward
    <3>3. CASE ~ Present(p)
      <4>1. ChainWrite(w) /\ p = writing[w] /\ p \in After[job[w]] /\ job[w] \in Types
        BY <2>2, <3>1, <3>3, Presence
      <4>2. UnderClaim(w)
        BY <4>1, <1>0 DEF ChainWrite, EnqueueWrite, TInv, Bindings
      <4> QED BY <1>0, <1>1, <4>1, <4>2, NotYet DEF Coming, Line
    <3> QED BY <3>2, <3>3
  <2> QED BY <2>1, <2>2
<1>2. CASE ~ Present(t)
  <2> DEFINE q == job[w]
  <2>1. /\ ChainWrite(w) /\ t = writing[w] /\ t \in After[q] /\ q \in Types
        /\ \A u \in Types \ {t} : tasks'[u] = tasks[u]
    BY <1>2, Presence
  <2>2. pc[w] \in {"final", "chaining"} /\ UnderClaim(w)
    BY <2>1, <1>0 DEF ChainWrite, EnqueueWrite, TInv, Bindings
  <2>3. /\ same[w] /\ Present(q)
        /\ \A u \in Workers \ {w} : UnderClaim(u) => job[u] # q
    BY <2>2 DEF Held, TInv, Bindings
  <2>4. Reached(q) /\ Reached(t)
    BY <2>1, <2>3, ReachedNext DEF Forward
  <2>5. ASSUME NEW p \in Upstream(t), Present(p)' PROVE Spent(p, t)'
    <3>1. p \in Types /\ p # t
      BY ChainAssumption DEF Upstream
    <3>2. Present(p)
      BY <2>1, <2>5, <3>1 DEF Present
    <3>3. Reached(p) /\ p \in Line(q)
      BY <1>0, <2>1, <2>4, <3>1, <3>2, OneBefore DEF Forward
    <3>4. Spent(p, t)' \/ Spent(p, t)
      <4>1. CASE p = q
        <5>1. /\ job' = job /\ same' = same /\ pc' = pc /\ chain' = chain /\ writing'[w] = NoType
          BY <2>1 DEF ChainWrite, EnqueueWrite, copyVars, TInv, TypeOK
        <5>2. ASSUME NEW x \in chain[w] PROVE x \notin Line(t)
          <6>1. x \in After[q] /\ x # t
            BY <2>1, <2>2, ChainAssumption DEF TInv, TypeOK, Bindings
          <6>2. Reached(x) /\ x # q /\ x \notin Upstream(q)
            BY <2>1, <2>4, <6>1, ReachedNext, Onward
          <6>3. x \in Upstream(t) => x \in Line(q)
            BY <1>0, <2>1, <2>4, <6>2, OneBefore
          <6> QED BY <6>1, <6>2, <6>3 DEF Line
        <5>3. NoType \notin Line(t)
          BY ChainAssumption DEF Line, Upstream
        <5> QED BY <2>2, <2>3, <4>1, <5>1, <5>2, <5>3 DEF Spent, Coming
      <4>2. CASE p # q
        <5>1. p \in Upstream(q)
          BY <3>3, <4>2 DEF Line
        <5>2. Spent(p, q)
          BY <2>1, <2>3, <3>2, <5>1 DEF Forward
        <5>3. PICK u \in Workers : /\ job[u] = p /\ same[u] /\ pc[u] \in {"final", "chaining"}
                                   /\ Coming(u) \cap Line(q) = {}
          BY <4>2, <5>2 DEF Spent
        <5>4. ASSUME NEW x \in Coming(u), x \in Line(t) PROVE FALSE
          <6>1. x \in After[p]
            BY <5>3, <5>4, ChainAssumption DEF Coming, Line, Upstream, TInv, Bindings
          <6>2. CASE x = t
            BY <1>0, <2>1, <2>4, <3>1, <3>3, <4>2, <6>1, <6>2 DEF OneChain
          <6>3. CASE x \in Upstream(t)
            <7>1. Reached(x)
              BY <3>1, <3>3, <6>1, ReachedNext
            <7> QED BY <1>0, <2>1, <2>4, <5>3, <6>3, <7>1, OneBefore
          <6> QED BY <5>4, <6>2, <6>3 DEF Line
        <5> QED BY <5>3, <5>4 DEF Spent
      <4> QED BY <4>1, <4>2
    <3> QED BY <2>5, <3>1, <3>4, SpentStays
  <2> QED BY <2>4, <2>5
<1> QED BY <1>1, <1>2

LEMMA EInvInit == ASSUME ScenesOrderly, Init PROVE EInv
<1> SUFFICES ASSUME ~ Lone PROVE Forward /\ \A w \in Workers : Held(w)
  BY DEF EInv
<1>1. OneChain
  BY TInvInit, Calm
<1>2. \A t \in Types : Present(t) => t \in FirstTasks
  BY DEF Init, Present, Absent
<1>3. Forward
  BY <1>1, <1>2 DEF Forward, Reached, OneChain, Upstream
<1>4. \A w \in Workers : ~ UnderClaim(w)
  BY ChainAssumption DEF Init, UnderClaim, Types
<1> QED BY <1>3, <1>4 DEF Held

LEMMA EInvStep == ASSUME ScenesOrderly, TInv, EInv, [Next]_vars PROVE EInv'
<1>1. scene' = scene
  BY WorkerStep, OutsideStep DEF Next, Others
<1> SUFFICES ASSUME ~ Lone PROVE (Forward /\ \A w \in Workers : Held(w))'
  BY <1>1, LoneStays DEF EInv
<1>2. Forward /\ \A w \in Workers : Held(w)
  BY DEF EInv
<1>3. ~ scene.slow
  BY Calm
<1>4. ASSUME NEW w \in Workers, Work(w) PROVE (Forward /\ \A u \in Workers : Held(u))'
  BY <1>2, <1>3, <1>4, ForwardStep, HeldOther, HeldOwn
<1>5. ASSUME NEW w \in Workers, NEW t \in Types, Claim(w, t)
      PROVE  (Forward /\ \A u \in Workers : Held(u))'
  <2>1. \A u \in Workers : Held(u)'
    BY <1>2, <1>5, HeldClaim
  <2>2. \A s \in Types : Present(s)' => Present(s)
    <3>1. Present(t)
      BY <1>5 DEF Claim, Claimable, Present
    <3> QED BY <1>5, <3>1 DEF Claim, Present, TInv, TypeOK
  <2>3. ASSUME NEW p \in Types, NEW s \in Types, Spent(p, s) PROVE Spent(p, s)'
    <3>1. PICK u \in Workers : /\ job[u] = p /\ same[u] /\ pc[u] \in {"final", "chaining"}
                               /\ p = s \/ Coming(u) \cap Line(s) = {}
      BY <2>3 DEF Spent
    <3>2. u # w
      BY <1>5, <3>1 DEF Claim
    <3>3. job'[u] = p /\ same'[u] /\ pc'[u] = pc[u] /\ Coming(u)' = Coming(u)
      BY <1>5, <3>1, <3>2 DEF Claim, Go, Coming, TInv, TypeOK
    <3> QED BY <3>1, <3>3 DEF Spent
  <2>4. Forward'
    BY <1>2, <2>2, <2>3 DEF Forward, Reached, Upstream
  <2> QED BY <2>1, <2>4
<1>6. ASSUME \/ \E t \in Types : LeaseEnds(t) \/ BackoffEnds(t)
             \/ \E i \in Items : LockAges(i)
             \/ UNCHANGED vars
      PROVE  (Forward /\ \A u \in Workers : Held(u))'
  <2>1. /\ pc' = pc /\ job' = job /\ same' = same /\ chain' = chain /\ scene' = scene
        /\ \A w \in Workers : writing'[w] = writing[w]
    BY <1>6, OutsideStep
  <2>2. \A s \in Types : Present(s)' => Present(s)
    <3>1. CASE tasks' = tasks
      BY <3>1 DEF Present
    <3>2. ASSUME NEW t \in Types, LeaseEnds(t) \/ BackoffEnds(t)
          PROVE  \A s \in Types : Present(s)' => Present(s)
      <4>1. tasks[t] \in TaskDocs
        BY DEF TInv, TypeOK
      <4>2. PICK d : tasks' = [tasks EXCEPT ![t] = d] /\ d.status = tasks[t].status
        BY <3>2, <4>1 DEF LeaseEnds, BackoffEnds, TaskDocs
      <4> QED BY <4>2 DEF Present, TInv, TypeOK
    <3> QED BY <1>6, <3>1, <3>2 DEF LockAges, vars, workerVars
  <2>3. \A p, s \in Types : Spent(p, s) => Spent(p, s)'
    BY <2>1 DEF Spent, Coming
  <2>4. Forward'
    BY <1>2, <2>2, <2>3 DEF Forward, Reached, Upstream
  <2>5. ASSUME NEW w \in Workers PROVE Held(w)'
    <3> SUFFICES ASSUME UnderClaim(w)
                 PROVE  tasks'[job[w]] = tasks[job[w]]
      BY <1>2, <2>1 DEF Held, UnderClaim
    <3>1. same[w]
      BY <1>2 DEF Held
    <3>2. CASE tasks' = tasks
      BY <3>2
    <3>3. ASSUME NEW t \in Types, LeaseEnds(t) \/ BackoffEnds(t)
          PROVE  tasks'[job[w]] = tasks[job[w]]
      <4>1. job[w] # t /\ job[w] \in Types
        BY <3>1, <3>3, ChainAssumption DEF LeaseEnds, BackoffEnds, TInv, Bindings
      <4> QED BY <3>3, <4>1 DEF LeaseEnds, BackoffEnds, TInv, TypeOK
    <3> QED BY <1>6, <3>2, <3>3 DEF LockAges, vars, workerVars
  <2> QED BY <2>4, <2>5
<1> QED BY <1>4, <1>5, <1>6, CalmSteps DEF Next

-----------------------------------------------------------------------------
(* Batches *)

\* A single worker has nobody to share a batch with.
LEMMA LoneApart == ASSUME TInv, Lone PROVE Apart
BY DEF TInv, Bindings, Lone, Apart

LEMMA XInvInit == ASSUME Init PROVE XInv
BY DEF Init, XInv, Apart, BatchLocked

\* What the steps of a worker do to the batches and the locks.
LEMMA RestartBatch ==
  ASSUME TypeOK, NEW w \in Workers, NEW G, Restart(w, G)
  PROVE  batch'[w] = {} /\ \A v \in Workers \ {w} : batch'[v] = batch[v]
BY DEF Restart, TypeOK

LEMMA Batches ==
  ASSUME TInv, NEW w \in Workers, Work(w)
  PROVE  /\ ~ FindItems(w) => \A v \in Workers : batch'[v] \subseteq batch[v]
         /\ \A i \in Items :
              \/ lock'[i] = lock[i]
              \/ lock'[i] = "held"
              \/ TypeOf[i] \in RankTypes
              \/ FinishItems(w) /\ i \in batch[w]
         /\ LockItems(w) => \A i \in batch[w] : lock'[i] = "held"
         /\ pc'[w] \in {"locked", "handling", "counting", "finishing"} =>
              \/ LockItems(w)
              \/ pc[w] \in {"locked", "handling", "counting", "finishing"} /\ ~ FinishItems(w)
              \/ batch'[w] = {}
<1> USE DEF TInv
<1>1. CASE FinalComplete(w) \/ ChainComplete(w)
  <2>1. PICK G : Restart(w, G) /\ lock' = lock
    BY <1>1 DEF FinalComplete, ChainComplete, Complete, itemVars
  <2>2. batch'[w] = {} /\ \A v \in Workers \ {w} : batch'[v] = batch[v]
    BY <2>1, RestartBatch
  <2> QED BY <1>1, <2>1, <2>2
       DEF FinalComplete, ChainComplete, LockItems
<1>2. CASE FinishItems(w)
  <2>1. batch'[w] = {} /\ \A v \in Workers \ {w} : batch'[v] = batch[v]
    BY <1>2, RestartBatch DEF FinishItems
  <2> QED BY <1>2, <2>1 DEF FinishItems, LockItems, TypeOK
<1>3. CASE NothingFound(w)
  <2>1. lock' = lock
    BY <1>3 DEF NothingFound, LeaveWith, itemVars
  <2>2. batch'[w] = {} /\ \A v \in Workers \ {w} : batch'[v] = batch[v]
    <3>1. CASE job[w] \in RankTypes \/ Todo(job[w]) = {}
      BY <1>3, <3>1 DEF NothingFound, Bindings
    <3>2. CASE ~ (job[w] \in RankTypes \/ Todo(job[w]) = {})
      BY <1>3, <3>2, RestartTyped DEF NothingFound, LeaveWith
    <3> QED BY <3>1, <3>2
  <2> QED BY <1>3, <2>1, <2>2 DEF NothingFound, LockItems
<1>4. CASE LockItems(w)
  BY <1>4 DEF LockItems, TypeOK
<1>5. CASE FindItems(w)
  BY <1>5 DEF FindItems, Go, LockItems, itemVars, TypeOK, Bindings
<1>6. CASE StartWhole(w)
  BY <1>6 DEF StartWhole, Go, LockItems, itemVars, TypeOK, Bindings
<1>7. CASE ReleaseEarly(w) \/ ChainRead(w) \/ ChainWrite(w)
  BY <1>7 DEF ReleaseEarly, ChainRead, ChainWrite, EnqueueWrite, LockItems, FinishItems,
              itemVars, Bindings
<1>8. CASE \/ HandleWhole(w) \/ HandleTags(w) \/ CountTags(w) \/ HandleLate(w)
           \/ HandleRank(w) \/ FinishWhole(w)
  <2>1. batch' = batch /\ ~ LockItems(w)
    BY <1>8 DEF HandleWhole, HandleTags, CountTags, HandleLate, HandleRank, FinishWhole,
                LockItems
  <2>2. \A i \in Items : lock'[i] = lock[i] \/ TypeOf[i] \in RankTypes
    BY <1>8 DEF HandleWhole, HandleTags, CountTags, HandleLate, HandleRank, FinishWhole,
                itemVars, TypeOK
  <2>3. CASE ~ FinishWhole(w)
    <3>1. pc[w] \in {"handling", "counting"}
      BY <1>8, <2>3 DEF HandleWhole, HandleTags, CountTags, HandleLate, HandleRank
    <3> QED BY <2>1, <2>2, <3>1 DEF FinishItems
  <2>4. CASE FinishWhole(w)
    BY <2>1, <2>2, <2>4 DEF FinishWhole, Go, TypeOK
  <2> QED BY <2>3, <2>4
<1> QED BY <1>1, <1>2, <1>3, <1>4, <1>5, <1>6, <1>7, <1>8 DEF Work

LEMMA XInvWork ==
  ASSUME ScenesOrderly, TInv, EInv, XInv, ~ Lone, NEW w \in Workers, Work(w)
  PROVE  Apart' /\ \A v \in Workers : BatchLocked(v)'
<1>1. Others(w)
  BY WorkerStep
<1>2. Apart'
  <2>1. CASE ~ FindItems(w)
    BY <2>1, Batches DEF XInv, Apart
  <2>2. CASE FindItems(w)
    <3> SUFFICES ASSUME NEW v \in Workers \ {w}, NEW i \in batch'[w], i \in batch[v],
                        TypeOf[i] \in CountedTypes
                 PROVE  FALSE
      BY <1>1 DEF Others, XInv, Apart
    <3>1. pc[w] = "claimed" /\ (i \in batch[w] \/ i \in Lockable(job[w]))
      BY <2>2 DEF FindItems, TInv, TypeOK
    <3>2. i \in Lockable(job[w])
      BY <3>1 DEF TInv, Bindings
    <3>3. job[w] = job[v] /\ lock[i] # "held"
      BY <3>2 DEF Lockable, Todo, TInv, Bindings
    <3>4. UnderClaim(w) /\ ~ UnderClaim(v)
      <4>1. UnderClaim(w)
        BY <3>1 DEF UnderClaim
      <4> QED BY <4>1, <3>3 DEF EInv, Held
    <3>5. pc[v] \in {"handling", "counting", "finishing"}
      BY <3>4 DEF UnderClaim, TInv, TypeOK, Bindings, Places
    <3> QED BY <3>3, <3>5 DEF XInv, BatchLocked
  <2> QED BY <2>1, <2>2
<1>3. ASSUME NEW v \in Workers PROVE BatchLocked(v)'
  <2> SUFFICES ASSUME pc'[v] \in {"locked", "handling", "counting", "finishing"},
                      NEW i \in batch'[v], TypeOf[i] \in CountedTypes
               PROVE  lock'[i] = "held"
    BY DEF BatchLocked
  <2>0. TypeOf[i] \notin RankTypes /\ i \in batch[v] /\ i \in Items
    <3>1. ~ FindItems(w) \/ v # w
      BY DEF FindItems, Go, TInv, TypeOK
    <3>2. i \in batch[v]
      BY <3>1, <1>1, Batches DEF Others
    <3> QED BY <3>2, ChainAssumption DEF TInv, TypeOK
  <2>1. CASE v = w
    BY <2>0, <2>1, Batches DEF XInv, BatchLocked
  <2>2. CASE v # w
    <3>1. lock[i] = "held"
      BY <2>0, <2>2, <1>1 DEF Others, XInv, BatchLocked
    <3>2. i \notin batch[w]
      BY <2>0, <2>2 DEF XInv, Apart
    <3> QED BY <2>0, <3>1, <3>2, Batches
  <2> QED BY <2>1, <2>2
<1> QED BY <1>2, <1>3

LEMMA XInvStep == ASSUME ScenesOrderly, TInv, EInv, XInv, [Next]_vars PROVE XInv'
<1>1. scene' = scene
  BY WorkerStep, OutsideStep DEF Next, Others
<1>2. CASE Lone
  <2>1. Lone' /\ TInv'
    BY <1>1, <1>2, LoneStays, TInvStep
  <2>2. ASSUME NEW w \in Workers, NEW v \in Workers, w # v
        PROVE  batch'[w] = {} \/ batch'[v] = {}
    <3>1. Bindings(w)' /\ Bindings(v)'
      BY <2>1 DEF TInv
    <3> QED BY <2>1, <2>2, <3>1 DEF Bindings, Lone
  <2> QED BY <2>1, <2>2 DEF XInv, Apart
<1>3. CASE ~ Lone
  <2> SUFFICES Apart' /\ \A v \in Workers : BatchLocked(v)'
    BY <1>1, <1>3, LoneStays DEF XInv
  <2>1. ASSUME NEW w \in Workers, Work(w) PROVE Apart' /\ \A v \in Workers : BatchLocked(v)'
    BY <1>3, <2>1, XInvWork
  <2>2. ASSUME NEW w \in Workers, NEW t \in Types, Claim(w, t)
        PROVE  Apart' /\ \A v \in Workers : BatchLocked(v)'
    BY <1>3, <2>2 DEF Claim, Go, itemVars, XInv, Apart, BatchLocked, TInv, TypeOK
  <2>3. ASSUME NEW i \in Items, LockAges(i) PROVE Apart' /\ \A v \in Workers : BatchLocked(v)'
    <3>1. \A v \in Workers : i \notin batch[v]
      BY <1>3, <2>3, Calm DEF LockAges
    <3>2. batch' = batch /\ pc' = pc
      BY <2>3 DEF LockAges, workerVars
    <3>3. \A v \in Workers : \A j \in batch[v] : lock'[j] = lock[j]
      BY <2>3, <3>1 DEF LockAges, TInv, TypeOK
    <3> QED BY <1>3, <3>2, <3>3 DEF XInv, Apart, BatchLocked
  <2>4. ASSUME (\E t \in Types : LeaseEnds(t) \/ BackoffEnds(t)) \/ UNCHANGED vars
        PROVE  Apart' /\ \A v \in Workers : BatchLocked(v)'
    BY <1>3, <2>4 DEF LeaseEnds, BackoffEnds, vars, itemVars, workerVars, XInv, Apart, BatchLocked
  <2> QED BY <1>3, <2>1, <2>2, <2>3, <2>4, CalmSteps DEF Next
<1> QED BY <1>2, <1>3

-----------------------------------------------------------------------------
(* Counting *)

LEMMA NInvInit == ASSUME Init PROVE NInv
BY DEF Init, NInv, Once, Uncounted

\* The tags of a post are counted once it has been marked, by the worker that has it.
LEMMA NInvCount ==
  ASSUME TInv, Apart, NInv, NEW w \in Workers, CountTags(w)
  PROVE  NInv'
<1> USE DEF TInv
<1>1. /\ pc[w] = "counting" /\ job[w] \in CountedTypes
      /\ \A i \in batch[w] : /\ TypeOf[i] \in CountedTypes /\ TypeOf[i] \notin RankTypes
                             /\ counted[i] = 0 /\ item[i] = "done" /\ i \in Items
  BY ChainAssumption DEF CountTags, Bindings, NInv, Uncounted, TypeOK
<1>2. /\ \A i \in Items : /\ counted'[i] = IF i \in batch[w] THEN 1 ELSE counted[i]
                          /\ TypeOf[i] \notin RankTypes => item'[i] = item[i]
      /\ batch' = batch /\ pc'[w] = "finishing" /\ \A v \in Workers \ {w} : pc'[v] = pc[v]
  <2>1. \A i \in Items : counted[i] \in {0, 1}
    BY DEF NInv, Once
  <2> QED BY <1>1, <2>1 DEF CountTags, Go, TypeOK
<1>3. Once'
  BY <1>1, <1>2, ChainAssumption DEF NInv, Once
<1>4. ASSUME NEW v \in Workers PROVE Uncounted(v)'
  <2>1. CASE v = w
    BY <2>1, <1>2 DEF Uncounted
  <2>2. CASE v # w
    <3>1. \A i \in batch[v] : i \notin batch[w] /\ i \in Items
      BY <2>2, <1>1 DEF Apart, TypeOK
    <3>2. pc[v] = "counting" => \A i \in batch[v] : TypeOf[i] \notin RankTypes
      BY ChainAssumption DEF Bindings
    <3> QED BY <2>2, <1>2, <3>1, <3>2 DEF NInv, Uncounted
  <2> QED BY <2>1, <2>2
<1> QED BY <1>3, <1>4 DEF NInv

LEMMA NInvWork ==
  ASSUME TInv, Apart, NInv, NEW w \in Workers, Work(w)
  PROVE  NInv'
<1> USE DEF TInv
<1>1. CASE CountTags(w)
  BY <1>1, NInvCount
<1>2. CASE ~ CountTags(w)
  <2>1. counted' = counted
    BY <1>2 DEF Work, StartWhole, FindItems, LockItems, ReleaseEarly, NothingFound, LeaveWith,
       ChainRead, ChainWrite, FinalComplete, ChainComplete, Complete, HandleWhole, HandleTags,
       HandleLate, HandleRank, FinishItems, FinishWhole, itemVars
  <2>2. \A i \in Items : /\ item[i] = "done" => item'[i] = "done"
                         /\ counted[i] # 0 => item'[i] = "done"
    BY <1>2 DEF Work, StartWhole, FindItems, LockItems, ReleaseEarly, NothingFound, LeaveWith,
       ChainRead, ChainWrite, FinalComplete, ChainComplete, Complete, HandleWhole, HandleTags,
       HandleLate, HandleRank, FinishItems, FinishWhole, itemVars, TypeOK, NInv, Once
  <2>3. Once'
    BY <2>1, <2>2 DEF NInv, Once
  <2>4. ASSUME NEW v \in Workers PROVE Uncounted(v)'
    <3>1. CASE v # w
      BY <3>1, <2>1, <2>2, WorkerStep DEF Others, NInv, Uncounted, TypeOK
    <3>2. CASE v = w /\ FindItems(w)
      BY <3>2, <2>1 DEF FindItems, Go, Lockable, Todo, TypeOK, NInv, Once, Uncounted
    <3>3. CASE v = w /\ HandleTags(w)
      BY <3>3, <2>1 DEF HandleTags, Go, TypeOK, NInv, Uncounted
    <3>4. CASE v = w /\ ~ FindItems(w) /\ ~ HandleTags(w)
      <4>1. batch'[w] \subseteq batch[w]
        BY <3>4, Batches
      <4>2. /\ pc'[w] # "counting" /\ pc'[w] # "found"
            /\ \/ pc'[w] \notin {"locked", "handling"}
               \/ pc[w] \in {"found", "locked"} \/ batch'[w] = {}
        <5>1. CASE FinalComplete(w) \/ ChainComplete(w)
          <6>1. PICK G : Restart(w, G)
            BY <5>1 DEF FinalComplete, ChainComplete, Complete
          <6> QED BY <6>1, RestartTyped
        <5>2. CASE FinishItems(w)
          BY <5>2, RestartTyped DEF FinishItems
        <5>3. CASE NothingFound(w)
          <6>1. CASE job[w] \in RankTypes \/ Todo(job[w]) = {}
            BY <5>3, <6>1 DEF NothingFound, Go, TypeOK
          <6>2. CASE ~ (job[w] \in RankTypes \/ Todo(job[w]) = {})
            BY <5>3, <6>2, RestartTyped DEF NothingFound, LeaveWith
          <6> QED BY <6>1, <6>2
        <5>4. CASE ChainRead(w) \/ ChainWrite(w)
          BY <5>4 DEF ChainRead, ChainWrite, EnqueueWrite, Bindings
        <5> QED BY <3>4, <1>2, <5>1, <5>2, <5>3, <5>4
             DEF Work, StartWhole, LockItems, ReleaseEarly, HandleWhole, HandleLate, HandleRank,
                 FinishWhole, Go, TypeOK, Bindings
      <4> QED BY <3>4, <2>1, <4>1, <4>2 DEF NInv, Uncounted
    <3> QED BY <3>1, <3>2, <3>3, <3>4
  <2> QED BY <2>3, <2>4 DEF NInv
<1> QED BY <1>1, <1>2

\* Where trouble takes the worker.
LEMMA Troubles ==
  ASSUME TInv, NEW w \in Workers, Trouble(w)
  PROVE  /\ item' = item /\ counted' = counted /\ lock' = lock /\ manual' = manual
         /\ adds' = adds
         /\ \/ pc'[w] = "idle" /\ batch'[w] = {}
            \/ ChainFails(w) /\ pc' = pc /\ batch' = batch
<1>1. CASE ChainFails(w)
  BY <1>1 DEF ChainFails, itemVars
<1>2. CASE Crash(w)
  BY <1>2, RestartTyped DEF Crash, itemVars, TInv
<1>3. CASE OwnerMissing(w) \/ BadScope(w) \/ FinalFails(w) \/ HandleFails(w)
  <2>1. PICK d : LeaveWith(w, d)
    BY <1>3 DEF OwnerMissing, BadScope, FinalFails, HandleFails
  <2> QED BY <2>1, RestartTyped DEF LeaveWith, itemVars, TInv
<1> QED BY <1>1, <1>2, <1>3 DEF Trouble

LEMMA NInvStep == ASSUME TInv, Apart, NInv, [Next]_vars PROVE NInv'
<1>1. ASSUME NEW w \in Workers, Trouble(w) PROVE NInv'
  <2>1. /\ item' = item /\ counted' = counted
        /\ pc'[w] = "idle" \/ (pc' = pc /\ batch' = batch)
    BY <1>1, Troubles
  <2>2. \A v \in Workers \ {w} : pc'[v] = pc[v] /\ batch'[v] = batch[v]
    BY <1>1, WorkerStep DEF Others
  <2> QED BY <2>1, <2>2 DEF NInv, Once, Uncounted
<1>2. ASSUME NEW w \in Workers, NEW t \in Types, Claim(w, t) PROVE NInv'
  BY <1>2 DEF Claim, Go, itemVars, NInv, Once, Uncounted, TInv, TypeOK
<1>3. ASSUME \/ \E t \in Types : AddTask(t) \/ LeaseEnds(t) \/ BackoffEnds(t)
             \/ AddWrite
             \/ \E i \in Items : LockAges(i)
             \/ UNCHANGED vars
      PROVE  NInv'
  <2>1. item' = item /\ counted' = counted /\ pc' = pc /\ batch' = batch
    BY <1>3, OutsideStep
  <2> QED BY <2>1 DEF NInv, Once, Uncounted
<1> QED BY <1>1, <1>2, <1>3, NInvWork DEF Next

-----------------------------------------------------------------------------
(* The chain reaches every post *)

LEMMA MineInit == ASSUME Init PROVE Mine
BY DEF Init, Mine

LEMMA MineStep == ASSUME TInv, Mine, [Next]_vars PROVE Mine'
<1>1. scene' = scene
  BY WorkerStep, OutsideStep DEF Next, Others
<1> SUFFICES ASSUME Lone, NEW v \in Workers, pc'[v] # "idle" PROVE same'[v]
  BY <1>1, LoneStays DEF Mine
<1>2. ASSUME NEW w \in Workers, Work(w) \/ Trouble(w) \/ \E t \in Types : Claim(w, t)
      PROVE  v = w
  <2>1. w \in scene.crew
    BY <1>2, Moves DEF Trouble, OwnerMissing, BadScope, FinalFails, HandleFails, ChainFails, Crash,
                       Claim, TInv, Bindings
  <2>2. v # w => pc[v] # "idle"
    BY <1>2, WorkerStep DEF Others
  <2> QED BY <2>1, <2>2 DEF Lone, TInv, Bindings
<1>3. CASE Work(v)
  BY <1>3, Moves DEF Mine
<1>4. CASE Trouble(v)
  BY <1>4, Troubles DEF ChainFails, copyVars, Mine
<1>5. ASSUME NEW t \in Types, Claim(v, t) PROVE same'[v]
  BY <1>5 DEF Claim, TInv, TypeOK
<1>6. ASSUME \/ \E t \in Types : AddTask(t) \/ LeaseEnds(t) \/ BackoffEnds(t)
             \/ AddWrite
             \/ \E i \in Items : LockAges(i)
             \/ UNCHANGED vars
      PROVE  same'[v]
  BY <1>6, OutsideStep DEF Mine
<1> QED BY <1>2, <1>3, <1>4, <1>5, <1>6 DEF Next

\* A worker that is under its claim, or handles a whole task, has the document, and no
\* other worker ends the same task.
LEMMA Sole ==
  ASSUME ScenesOrderly, TInv, EInv, Mine, NEW w \in Workers, pc[w] # "idle",
         \/ pc[w] \in {"claimed", "found", "locked", "empty", "final"}
         \/ job[w] \in WholeTypes
  PROVE  /\ same[w] /\ job[w] \in Types /\ Present(job[w])
         /\ \A u \in Workers \ {w} : pc[u] \in {"final", "chaining"} => job[u] # job[w] /\ ~ Lone
         /\ ~ Lone => /\ UnderClaim(w) /\ Held(w) /\ Forward
                      /\ \A u \in Workers : pc[u] \in {"final", "chaining"} => UnderClaim(u)
<1>1. job[w] \in Types /\ w \in scene.crew
  BY DEF TInv, Bindings
<1>2. CASE Lone
  <2>1. same[w]
    BY <1>2 DEF Mine
  <2>2. \A u \in Workers \ {w} : pc[u] = "idle"
    BY <1>1, <1>2 DEF Lone, TInv, Bindings
  <2> QED BY <1>1, <1>2, <2>1, <2>2 DEF TInv, Bindings
<1>3. CASE ~ Lone
  <2>1. UnderClaim(w) /\ \A u \in Workers : pc[u] \in {"final", "chaining"} => UnderClaim(u)
    BY <1>3, Calm, EndsUnderClaim DEF UnderClaim
  <2>2. Held(w) /\ Forward
    BY <1>3 DEF EInv
  <2> QED BY <1>1, <1>3, <2>1, <2>2 DEF Held, TInv, Bindings
<1> QED BY <1>2, <1>3

\* Without a failing enqueue, and without the user.
LEMMA Quiet ==
  ASSUME TInv, [Next]_vars, adds' + errors' = 0
  PROVE  /\ adds = 0 /\ errors = 0
         /\ \A t \in Types : ~ AddTask(t)
         /\ ~ AddWrite
         /\ \A w \in Workers : ~ FinalFails(w) /\ ~ ChainFails(w)
<1>1. /\ adds \in Nat /\ errors \in Nat /\ adds' \in Nat /\ errors' \in Nat
  BY TInvStep, ScenesTyped, ScenesAssumption DEF TInv, TypeOK
<1>2. adds' = 0 /\ errors' = 0
  <2>1. \A a, e \in Nat : a + e = 0 => a = 0 /\ e = 0
    OBVIOUS
  <2> QED BY <1>1, <2>1
<1>3. \A w \in Workers : ~ FinalFails(w) /\ ~ ChainFails(w)
  BY <1>1, <1>2 DEF FinalFails, ChainFails, Error
<1>4. \A t \in Types : ~ AddTask(t)
  BY <1>1, <1>2 DEF AddTask
<1>5. adds = 0
  <2>1. ASSUME NEW w \in Workers, Work(w) \/ Trouble(w) \/ \E t \in Types : Claim(w, t)
        PROVE  adds' = adds
    BY <2>1, WorkerStep DEF Others
  <2> QED BY <1>2, <1>4, <2>1 DEF Next, LeaseEnds, BackoffEnds, AddWrite, LockAges, bounds, vars
<1>6. ~ AddWrite
  BY <1>5 DEF AddWrite, EnqueueWrite, TInv, NoHand
<1>7. errors = 0
  <2>1. ASSUME NEW w \in Workers, Trouble(w) PROVE errors' = errors
    BY <1>3, <2>1 DEF Trouble, OwnerMissing, BadScope, HandleFails, Crash, Fault
  <2>2. ASSUME NEW w \in Workers, Work(w) PROVE errors' = errors
    BY <2>2, PlaceStep DEF Work, ReleaseEarly, NothingFound, ChainRead, ChainWrite, FinalComplete,
       ChainComplete, Complete, FinishItems, bounds
  <2> QED BY <1>2, <1>4, <2>1, <2>2
       DEF Next, Claim, LeaseEnds, BackoffEnds, AddWrite, LockAges, bounds, vars
<1> QED BY <1>3, <1>4, <1>5, <1>6, <1>7

\* Trouble takes no document away.
LEMMA TroubleDocuments ==
  ASSUME TInv, NEW w \in Workers, Trouble(w), NEW t \in Types, Present(t)
  PROVE  Present(t)'
<1> USE DEF TInv
<1>1. CASE ChainFails(w) \/ Crash(w)
  BY <1>1 DEF ChainFails, Crash, Present
<1>2. CASE OwnerMissing(w) \/ BadScope(w) \/ FinalFails(w) \/ HandleFails(w)
  <2>1. job[w] \in Types
    BY <1>2 DEF OwnerMissing, BadScope, FinalFails, HandleFails, Bindings
  <2>2. tasks[job[w]] \in TaskDocs /\ seen[w] \in Nat
    BY <2>1 DEF TypeOK
  <2> DEFINE e == tasks[job[w]]
             n == seen[w]
  <2>3. PICK d \in {Released(e), MarkedFailed(e), e, Failed(e, n, Now)} : LeaveWith(w, d)
    BY <1>2 DEF OwnerMissing, BadScope, FinalFails, HandleFails
  <2>4. e.status # "absent" => d.status # "absent"
    BY <2>2, <2>3, UpdatesStay
  <2>5. t = job[w] => d.status # "absent"
    BY <2>4 DEF Present
  <2> HIDE DEF e
  <2> QED BY <2>1, <2>3, <2>5 DEF LeaveWith, Update, Present, TypeOK
<1> QED BY <1>1, <1>2 DEF Trouble

\* The task that brings a post keeps it, until it has passed it on.
LEMMA KeptBrought ==
  ASSUME ScenesOrderly, TInv, EInv, Mine, NEW w \in Workers, HandleWhole(w),
         NEW t \in CountedTypes, NEW i \in Brings[job[w]], TypeOf[i] = t
  PROVE  Kept(t)'
<1>1. pc[w] # "idle" /\ job[w] \in WholeTypes /\ tasks' = tasks /\ job' = job
  BY DEF HandleWhole, copyVars
<1>2. /\ same[w] /\ job[w] \in Types /\ Present(job[w])
      /\ \A u \in Workers \ {w} : pc[u] \in {"final", "chaining"} => job[u] # job[w]
  BY <1>1, Sole
<1>3. job[w] \in Line(t)
  BY <1>1, ChainAssumption DEF Line
<1>4. ~ Spent(job[w], t)'
  <2> SUFFICES ASSUME NEW u \in Workers, job[u] = job[w], pc'[u] \in {"final", "chaining"}
               PROVE  FALSE
    BY <1>1 DEF Spent
  <2>1. u = w
    BY <1>2 DEF HandleWhole, Go, TInv, TypeOK
  <2> QED BY <2>1 DEF HandleWhole, Go, TInv, TypeOK
<1> QED BY <1>1, <1>2, <1>3, <1>4 DEF Kept, Present

\* A worker that passes a post on leaves it to the next task on its line.
LEMMA KeptNext ==
  ASSUME ScenesOrderly, TInv, EInv, Mine, NEW w \in Workers,
         job[w] \in Types, pc[w] \in {"final", "chaining"},
         NEW t \in Types, NEW s \in Coming(w) \cap Line(t),
         Present(s)', UNCHANGED <<pc, job, same>>
  PROVE  Kept(t)' \/ (~ Lone /\ Present(s))
<1>1. s \in After[job[w]] /\ s \in Types /\ s # job[w]
  BY ChainAssumption, Onward DEF TInv, Bindings, Coming, Line, Upstream
<1>2. \/ pc[w] \in {"claimed", "found", "locked", "empty", "final"}
      \/ job[w] \in WholeTypes
  BY DEF TInv, Bindings
<1>3. CASE Spent(s, t)'
  <2>1. PICK v \in Workers : job[v] = s /\ same[v] /\ pc[v] \in {"final", "chaining"}
    BY <1>3 DEF Spent
  <2> QED BY <1>1, <1>2, <2>1, Sole DEF TInv, Bindings
<1>4. CASE ~ Spent(s, t)'
  BY <1>4 DEF Kept, Line, Upstream
<1> QED BY <1>3, <1>4

\* A worker that comes to the end of its task, or goes on with it.
LEMMA KeptWork ==
  ASSUME ScenesOrderly, TInv, EInv, Mine, adds = 0, NEW w \in Workers, Work(w),
         NEW t \in CountedTypes, Todo(t) # {}, Kept(t)
  PROVE  Kept(t)'
<1> USE DEF TInv
<1>0. t \in Types /\ t \notin RankTypes /\ t \notin WholeTypes /\ ~ byHand[w]
  BY ChainAssumption DEF Types, ItemTypes, NoHand
<1>1. PICK p \in Line(t) : Present(p) /\ ~ Spent(p, t)
  BY DEF Kept
<1>2. p \in Types
  BY <1>0 DEF Line, Upstream
<1>3. Present(p)'
  <2> SUFFICES ASSUME ~ Present(p)' PROVE Spent(p, t)
    BY <1>1
  <2>1. /\ p = job[w] /\ same[w] /\ pc[w] \in {"final", "chaining"} /\ Coming(w) = {NoType}
    BY <1>1, <1>2, Presence
  <2>2. NoType \notin Line(t)
    BY <1>0, ChainAssumption DEF Line, Upstream
  <2> QED BY <2>1, <2>2 DEF Spent
<1> SUFFICES ASSUME Spent(p, t)' PROVE Kept(t)'
  BY <1>3 DEF Kept, Line, Upstream
<1>4. PICK u \in Workers : /\ job'[u] = p /\ same'[u] /\ pc'[u] \in {"final", "chaining"}
                           /\ p = t \/ Coming(u)' \cap Line(t) = {}
  BY DEF Spent, Line, Upstream
<1>5. u = w
  <2> SUFFICES ASSUME u # w PROVE Spent(p, t)
    BY <1>1
  <2>1. /\ job[u] = p /\ same[u] /\ pc[u] \in {"final", "chaining"} /\ Coming(u)' = Coming(u)
    BY <1>4, WorkerStep DEF Others, Coming
  <2> QED BY <1>4, <2>1 DEF Spent
<1>6. /\ job[w] = p /\ same[w]
      /\ pc'[w] = "final" => pc[w] \in {"final", "empty"}
      /\ pc'[w] = "chaining" => pc[w] \in {"chaining", "finishing"}
  BY <1>4, <1>5, Moves
<1>7. pc[w] \in {"final", "chaining"} => p \in Upstream(t) /\ Coming(w) \cap Line(t) # {}
  BY <1>1, <1>6 DEF Spent, Line
<1>8. CASE NothingFound(w) \/ FinishWhole(w)
  <2>1. chain' = [chain EXCEPT ![w] = After[p]] /\ (p = t => FALSE)
    <3>1. CASE NothingFound(w)
      <4>1. p \in RankTypes \/ Todo(p) = {}
        <5> SUFFICES ASSUME ~ (p \in RankTypes \/ Todo(p) = {}) PROVE FALSE
          OBVIOUS
        <5> QED BY <1>4, <1>5, <1>6, <3>1, RestartTyped DEF NothingFound, LeaveWith
      <4> QED BY <1>0, <1>6, <3>1, <4>1 DEF NothingFound
    <3>2. CASE FinishWhole(w)
      BY <1>0, <1>6, <3>2 DEF FinishWhole
    <3> QED BY <1>8, <3>1, <3>2
  <2>2. p \in Upstream(t)
    BY <2>1 DEF Line
  <2>3. After[p] \cap Line(t) # {}
    BY <1>0, <2>2, UpGoesOn
  <2>4. Coming(w)' \cap Line(t) # {}
    BY <2>1, <2>3 DEF Coming, TypeOK
  <2> QED BY <1>4, <1>5, <2>1, <2>4
<1>9. CASE ChainRead(w)
  <2>1. PICK s \in chain[w] : EnqueueRead(w, s) /\ chain' = [chain EXCEPT ![w] = @ \ {s}]
    BY <1>9 DEF ChainRead
  <2>2. /\ pc' = pc /\ job' = job /\ same' = same /\ tasks' = tasks /\ writing[w] = NoType
        /\ pc[w] \in {"final", "chaining"}
    BY <1>9 DEF ChainRead, copyVars
  <2>3. NoType \notin Line(t) /\ p # t
    BY <1>0, <1>7, <2>2, ChainAssumption DEF Line, Upstream
  <2>4. s \in Line(t) /\ Coming(w)' \cap Line(t) = {}
    BY <1>4, <1>5, <1>7, <2>1, <2>2, <2>3 DEF Coming, TypeOK
  <2>5. LiveRunning(tasks[s], Now)
    <3> SUFFICES ASSUME ~ LiveRunning(tasks[s], Now) PROVE FALSE
      OBVIOUS
    <3>1. writing'[w] = s
      BY <2>1 DEF EnqueueRead, TypeOK
    <3> QED BY <2>4, <3>1 DEF Coming
  <2>6. Present(s)' /\ Present(s)
    BY <2>2, <2>5 DEF LiveRunning, Present
  <2>7. s \in Coming(w) \cap Line(t)
    BY <2>1, <2>4 DEF Coming
  <2>8. Kept(t)' \/ ~ Lone
    BY <1>0, <1>2, <1>6, <2>2, <2>6, <2>7, KeptNext
  <2>9. CASE ~ Lone
    <3>1. /\ UnderClaim(w) /\ Held(w) /\ Forward
          /\ \A v \in Workers : pc[v] \in {"final", "chaining"} => UnderClaim(v)
      BY <2>2, <2>9, Sole DEF Bindings
    <3>2. s \in Types /\ s \in After[job[w]] /\ s \in Coming(w)
      BY <2>2, <2>1, ChainAssumption DEF TypeOK, Bindings, Coming
    <3> QED BY <1>2, <1>6, <2>6, <3>1, <3>2, NotYet DEF Line
  <2> QED BY <2>8, <2>9
<1>10. CASE ChainWrite(w)
  <2>0. PICK s : s = writing[w]
    OBVIOUS
  <2>1. /\ pc' = pc /\ job' = job /\ same' = same /\ chain' = chain /\ writing'[w] = NoType
        /\ EnqueueWrite(w, FALSE)
    BY <1>10 DEF ChainWrite, EnqueueWrite, copyVars, TypeOK
  <2>2. pc[w] \in {"final", "chaining"}
    BY <1>4, <1>5, <2>1
  <2>3. NoType \notin Line(t) /\ p # t
    BY <1>0, <1>7, <2>2, ChainAssumption DEF Line, Upstream
  <2>4. s \in Coming(w) \cap Line(t)
    BY <2>0, <1>4, <1>5, <1>7, <2>1, <2>2, <2>3 DEF Coming
  <2>5. Present(s)'
    <3>1. s \in Types /\ tasks'[s] = Enqueued
      BY <2>0, <2>1, EnqueueTyped
    <3> QED BY <3>1 DEF Present, Enqueued
  <2>6. Kept(t)' \/ (~ Lone /\ Present(s))
    BY <1>0, <1>2, <1>6, <2>1, <2>2, <2>4, <2>5, KeptNext
  <2>7. CASE ~ Lone
    <3>1. /\ UnderClaim(w) /\ Held(w) /\ Forward
          /\ \A v \in Workers : pc[v] \in {"final", "chaining"} => UnderClaim(v)
      BY <2>2, <2>7, Sole DEF Bindings
    <3>2. s \in Types /\ s \in After[job[w]]
      BY <2>0, <2>1, <2>2, EnqueueTyped, ChainAssumption DEF Bindings
    <3>3. ~ Present(s)
      BY <1>2, <1>6, <2>4, <3>1, <3>2, NotYet DEF Line
    <3> QED BY <2>6, <3>3
  <2> QED BY <2>6, <2>7
<1>11. CASE FinalComplete(w) \/ ChainComplete(w) \/ FinishItems(w)
  <2>1. PICK G : Restart(w, G)
    BY <1>11 DEF FinalComplete, ChainComplete, Complete, FinishItems
  <2> QED BY <1>4, <1>5, <2>1, RestartTyped
<1> QED BY <1>4, <1>5, <1>8, <1>9, <1>10, <1>11
     DEF Work, StartWhole, FindItems, LockItems, ReleaseEarly, HandleWhole, HandleTags, CountTags,
         HandleLate, HandleRank, Go, TypeOK

\* Only a download brings posts.
LEMMA Waiting ==
  ASSUME TInv, NEW w \in Workers, Work(w), NEW t \in CountedTypes, Todo(t)' # {}
  PROVE  \/ Todo(t) # {}
         \/ HandleWhole(w) /\ \E i \in Brings[job[w]] : TypeOf[i] = t
<1>1. PICK i \in Items : TypeOf[i] = t /\ item'[i] = "todo"
  BY DEF Todo
<1>2. CASE item[i] = "todo"
  BY <1>1, <1>2 DEF Todo
<1>3. CASE item[i] # "todo" /\ HandleWhole(w)
  BY <1>1, <1>3 DEF HandleWhole, TInv, TypeOK
<1>4. CASE item[i] # "todo" /\ ~ HandleWhole(w)
  <2>0. TypeOf[i] \notin RankTypes
    BY <1>1, ChainAssumption
  <2>1. CASE item' = item
    BY <1>1, <1>4, <2>1
  <2>2. CASE HandleTags(w) \/ HandleRank(w) \/ FinishItems(w)
    BY <1>1, <1>4, <2>2 DEF HandleTags, HandleRank, FinishItems
  <2>3. CASE CountTags(w)
    BY <1>1, <1>4, <2>0, <2>3 DEF CountTags
  <2> QED BY <1>4, <2>1, <2>2, <2>3
     DEF Work, StartWhole, FindItems, LockItems, ReleaseEarly, NothingFound, LeaveWith,
         ChainRead, ChainWrite, FinalComplete, ChainComplete, Complete, HandleLate,
         FinishWhole, itemVars
<1> QED BY <1>2, <1>3, <1>4

LEMMA OInvInit == ASSUME Init PROVE OInv
BY DEF Init, OInv, Todo

LEMMA OInvStep ==
  ASSUME ScenesOrderly, TInv, EInv, Mine, OInv, [Next]_vars
  PROVE  OInv'
<1> SUFFICES ASSUME adds' + errors' = 0, NEW t \in CountedTypes, Todo(t)' # {}
             PROVE  Kept(t)'
  BY DEF OInv
<1>1. /\ adds = 0 /\ errors = 0
      /\ \A s \in Types : ~ AddTask(s)
      /\ ~ AddWrite
      /\ \A w \in Workers : ~ FinalFails(w) /\ ~ ChainFails(w)
  BY Quiet
<1>2. Todo(t) # {} => Kept(t)
  BY <1>1 DEF OInv
<1>3. t \in Types
  BY DEF Types
<1>4. ASSUME NEW w \in Workers, Work(w) PROVE Kept(t)'
  BY <1>1, <1>2, <1>4, Waiting, KeptBrought, KeptWork
<1>5. ASSUME item' = item, \A p \in Types : Present(p) => Present(p)',
             \A p \in Types : Spent(p, t)' => Spent(p, t)
      PROVE  Kept(t)'
  <2>1. PICK p \in Line(t) : Present(p) /\ ~ Spent(p, t)
    BY <1>2, <1>5 DEF Todo, Kept
  <2> QED BY <1>3, <1>5, <2>1 DEF Kept, Line, Upstream
<1>6. ASSUME NEW w \in Workers, Trouble(w) PROVE Kept(t)'
  <2>1. item' = item /\ pc'[w] = "idle"
    BY <1>1, <1>6, Troubles
  <2>2. \A p \in Types : Spent(p, t)' => Spent(p, t)
    BY <1>6, <2>1, WorkerStep DEF Others, Spent, Coming
  <2> QED BY <1>5, <1>6, <2>1, <2>2, TroubleDocuments
<1>7. ASSUME NEW w \in Workers, NEW s \in Types, Claim(w, s) PROVE Kept(t)'
  <2>1. item' = item /\ pc'[w] = "claimed"
    BY <1>7 DEF Claim, Go, itemVars, TInv, TypeOK
  <2>2. \A p \in Types : Present(p) => Present(p)'
    <3>1. Claimed(tasks[s], Now, 1).status = "running"
      BY UpdatesTyped DEF TInv, TypeOK
    <3> QED BY <1>7, <3>1 DEF Claim, Present, TInv, TypeOK
  <2>3. \A p \in Types : Spent(p, t)' => Spent(p, t)
    BY <1>7, <2>1, WorkerStep DEF Others, Spent, Coming
  <2> QED BY <1>5, <2>1, <2>2, <2>3
<1>8. ASSUME \/ \E s \in Types : LeaseEnds(s) \/ BackoffEnds(s)
             \/ \E i \in Items : LockAges(i)
             \/ UNCHANGED vars
      PROVE  Kept(t)'
  <2>1. /\ item' = item /\ pc' = pc /\ job' = job /\ same' = same /\ chain' = chain
        /\ \A w \in Workers : writing'[w] = writing[w]
        /\ \A p \in Types : Present(p) => Present(p)'
    BY <1>8, OutsideStep
  <2>2. \A p \in Types : Spent(p, t)' => Spent(p, t)
    BY <2>1 DEF Spent, Coming
  <2> QED BY <1>5, <2>1, <2>2
<1> QED BY <1>1, <1>4, <1>6, <1>7, <1>8 DEF Next

-----------------------------------------------------------------------------
(* The theorems *)

IInv == TInv /\ EInv /\ XInv /\ NInv /\ Mine /\ OInv

\* Every variable of the queue has its type, whatever the scenes.
THEOREM TypeCorrect == Spec => []TypeOK
<1>1. TInv => TypeOK
  BY DEF TInv
<1> QED BY <1>1, TInvInit, TInvStep, PTL DEF Spec

\* Where the scenes are orderly, the invariants above hold in every reachable state.
LEMMA IInvHolds == ScenesOrderly => (Spec => []IInv)
<1> SUFFICES ASSUME ScenesOrderly PROVE Spec => []IInv
  OBVIOUS
<1>1. Init => IInv
  BY TInvInit, EInvInit, XInvInit, NInvInit, MineInit, OInvInit DEF IInv
<1>2. IInv /\ [Next]_vars => IInv'
  BY TInvStep, EInvStep, XInvStep, NInvStep, MineStep, OInvStep DEF IInv, XInv
<1> QED BY <1>1, <1>2, PTL DEF Spec

\* Two workers never have the same post in a batch that is locked: find and update_many
\* are two operations and the claim goes back before the batch is done, but the next
\* claimant looks for items only when the locks are there.
THEOREM ItemsExclude == ScenesOrderly => (Spec => []ItemExclusion)
<1> SUFFICES ASSUME ScenesOrderly PROVE Spec => []ItemExclusion
  OBVIOUS
<1>1. IInv => ItemExclusion
  <2> SUFFICES ASSUME IInv, NEW v \in Workers, NEW w \in Workers, v # w,
                      NEW i \in batch[v] \cap batch[w]
               PROVE  TypeOf[i] \in RankTypes
    BY DEF ItemExclusion
  <2>1. TypeOf[i] \notin CountedTypes
    BY DEF IInv, XInv, Apart
  <2> QED BY <2>1, ChainAssumption DEF IInv, TInv, TypeOK, ItemTypes
<1> QED BY <1>1, IInvHolds, PTL

\* The counters of a post's tags count it once: a batch that fails between the marks and
\* the counts is not done again, and no other worker has its posts.
THEOREM CountedOnce == ScenesOrderly => (Spec => []NoDoubleCount)
<1> SUFFICES ASSUME ScenesOrderly PROVE Spec => []NoDoubleCount
  OBVIOUS
<1>1. IInv => NoDoubleCount
  BY DEF IInv, NInv, Once, NoDoubleCount
<1> QED BY <1>1, IInvHolds, PTL

\* No post is left waiting for a task that is gone: at every moment some task on its line
\* is there and has not passed on what it has to.
THEOREM NothingOrphaned == ScenesOrderly => (Spec => []NoOrphans)
<1> SUFFICES ASSUME ScenesOrderly PROVE Spec => []NoOrphans
  OBVIOUS
<1>1. IInv => NoOrphans
  <2> SUFFICES ASSUME IInv, adds + errors = 0, NEW t \in CountedTypes, Todo(t) # {}
               PROVE  Awaited(t)
    BY DEF NoOrphans
  <2>1. PICK p \in Line(t) : Present(p)
    BY DEF IInv, OInv, Kept
  <2>2. adds = 0
    <3>1. adds \in Nat /\ errors \in Nat
      BY ScenesTyped DEF IInv, TInv
    <3>2. \A a, e \in Nat : a + e = 0 => a = 0
      OBVIOUS
    <3> QED BY <3>1, <3>2
  <2>3. \A q \in Types : ~ manual[q]
    BY <2>2 DEF IInv, TInv, NoHand
  <2> QED BY <2>1, <2>3 DEF Awaited, Line, Upstream
<1> QED BY <1>1, IInvHolds, PTL
=============================================================================
