----------------------------- MODULE ItemClaims -----------------------------
(***************************************************************************)
(* The items (posts to group, tags to classify) of one user's item task when *)
(* external workers share it with the program's own worker:                  *)
(*  - an external worker claims one item over HTTP (claim_external_task), an  *)
(*    atomic find_one_and_update that leaves the worker's token on the item,  *)
(*    and submits a result (submit_external_task_result), which the server    *)
(*    handles in several writes while the client may have timed out;          *)
(*  - the program's worker finds and locks an item in two operations           *)
(*    (get_task), saves the grouping, and marks the item (the handler, and     *)
(*    then finish_task once more);                                             *)
(*  - a clean-up deletes the groupings and opens the task again.               *)
(* An item is locked by the time of the claim.  Times are identities here: a   *)
(* lock is a stamp that nobody else holds, and a step makes it stale.          *)
(***************************************************************************)
EXTENDS Naturals, FiniteSets

CONSTANTS
  Items,
  Workers,        \* external workers
  Tokens, TokenOf,
  Stamps,         \* enough of them: one per actor and per item, and one more
  Scenes          \* the bounds; each behaviour keeps to those of one scene

NoItem == "no item"
NoToken == "no token"
Unlocked == "unlocked"
Inside == "inside"        \* the program's own worker

ASSUME TokensAssumption == TokenOf \in [Workers -> Tokens] /\ NoToken \notin Tokens
ASSUME NamesAssumption == NoItem \notin Items /\ Unlocked \notin Stamps

\* There is always a time that no lock and no request has.
ASSUME StampsAssumption ==
  \A l \in [Items -> Stamps \cup {Unlocked}], r \in [Workers -> Stamps \cup {Unlocked}] :
    \E s \in Stamps : (\A i \in Items : l[i] # s) /\ \A w \in Workers : r[w] # s

\* The items there are; is there a worker of the program's own for them; how many
\* failures, lost requests, crashes and slow workers; how many clean-ups.
ASSUME ScenesAssumption ==
  Scenes \subseteq [items: SUBSET Items, inside: BOOLEAN, faults: Nat, cleanups: Nat]

VARIABLES
  scene,      \* one of Scenes, for good
  open,       \* is the task document there?
  lock,       \* `processing` of an item: Unlocked or a stamp
  stale,      \* is the lock over age?
  token,      \* external_claim_worker_token_id
  saved,      \* is there a grouping of the item in post_grouping?
  done,       \* the item's `grouping` field
  work,       \* the item an external worker has claimed
  fresh,      \* history: is that claim younger than the age limit?
  last,       \* history: the external worker that claimed an item last
  srv,        \* the server's thread for a worker's request
  srvItem, srvStamp, srvOk,
  pc, mine,   \* the program's worker
  cleaning,   \* where the clean-up is
  faults, cleanups

srvVars == <<srv, srvItem, srvStamp, srvOk>>
workVars == <<work, fresh, last>>
itemVars == <<lock, stale, token, saved, done>>
bounds == <<scene, faults, cleanups>>
vars == <<scene, open, lock, stale, token, saved, done, work, fresh, last, srv,
          srvItem, srvStamp, srvOk, pc, mine, cleaning, faults, cleanups>>

TypeOK ==
  /\ scene \in Scenes
  /\ open \in BOOLEAN
  /\ lock \in [Items -> Stamps \cup {Unlocked}]
  /\ stale \in [Items -> BOOLEAN]
  /\ token \in [Items -> Tokens \cup {NoToken}]
  /\ saved \in [Items -> BOOLEAN]
  /\ done \in [Items -> BOOLEAN]
  /\ work \in [Workers -> Items \cup {NoItem}]
  /\ fresh \in [Workers -> BOOLEAN]
  /\ last \in [Items -> Workers \cup {Inside}]
  /\ srv \in [Workers -> {"none", "accepted", "saved", "counting", "deleting"}]
  /\ srvItem \in [Workers -> Items \cup {NoItem}]
  /\ srvStamp \in [Workers -> Stamps \cup {Unlocked}]
  /\ srvOk \in [Workers -> BOOLEAN]
  /\ pc \in {"idle", "found", "working", "saved", "marked", "empty"}
  /\ mine \in Items \cup {NoItem}
  /\ cleaning \in {"no", "deleted", "reset"}
  /\ faults \in 0..scene.faults
  /\ cleanups \in 0..scene.cleanups

Init ==
  /\ scene \in Scenes
  /\ open = TRUE
  /\ lock = [i \in Items |-> Unlocked]
  /\ stale = [i \in Items |-> FALSE]
  /\ token = [i \in Items |-> NoToken]
  /\ saved = [i \in Items |-> FALSE]
  /\ done = [i \in Items |-> FALSE]
  /\ work = [w \in Workers |-> NoItem]
  /\ fresh = [w \in Workers |-> FALSE]
  /\ last = [i \in Items |-> Inside]
  /\ srv = [w \in Workers |-> "none"]
  /\ srvItem = [w \in Workers |-> NoItem]
  /\ srvStamp = [w \in Workers |-> Unlocked]
  /\ srvOk = [w \in Workers |-> FALSE]
  /\ pc = "idle" /\ mine = NoItem
  /\ cleaning = "no"
  /\ faults = 0 /\ cleanups = 0
-----------------------------------------------------------------------------
Fault ==
  faults < scene.faults /\ faults' = faults + 1 /\ UNCHANGED <<scene, cleanups>>

Pending == {i \in scene.items : ~ done[i]}

\* mutant: a lock never goes stale
ClaimableIdle == {i \in Pending : lock[i] = Unlocked}

\* claimable_item_processing, on items that are not done.
Claimable == {i \in Pending : lock[i] = Unlocked \/ stale[i]}

\* A time that no lock and no request in progress has.
FreshStamp ==
  CHOOSE s \in Stamps : (\A i \in Items : lock[i] # s) /\ \A w \in Workers : srvStamp[w] # s

Stamp(i) ==
  /\ lock' = [lock EXCEPT ![i] = FreshStamp]
  /\ stale' = [stale EXCEPT ![i] = FALSE]

Unlock(i) ==
  /\ lock' = [lock EXCEPT ![i] = Unlocked]
  /\ stale' = [stale EXCEPT ![i] = FALSE]

\* The server's thread is done with its item.
Leave(w, place) ==
  /\ srv' = [srv EXCEPT ![w] = place]
  /\ srvItem' = [srvItem EXCEPT ![w] = NoItem]
  /\ srvStamp' = [srvStamp EXCEPT ![w] = Unlocked]
  /\ srvOk' = [srvOk EXCEPT ![w] = FALSE]

GoOn(w, place) ==
  /\ srv' = [srv EXCEPT ![w] = place]
  /\ UNCHANGED <<srvItem, srvStamp, srvOk>>

\* The document is deleted by its _id: whoever else is about to delete it will
\* delete nothing, not even a task enqueued in the meantime.
DeleteTask ==
  /\ open' = FALSE
  /\ srv' = [w \in Workers |-> IF srv[w] = "deleting" THEN "none" ELSE srv[w]]
  /\ UNCHANGED <<srvItem, srvStamp, srvOk>>
  /\ pc' = IF pc = "empty" THEN "idle" ELSE pc

DropWork(w) ==
  /\ work' = [work EXCEPT ![w] = NoItem]
  /\ fresh' = [fresh EXCEPT ![w] = FALSE]
  /\ UNCHANGED last
-----------------------------------------------------------------------------
(* External workers and the server's threads *)

\* claim_external_task: the item gets a time and the worker's token.
ClaimExternal(w) ==
  /\ work[w] = NoItem /\ open
  /\ \E i \in Claimable :
       /\ Stamp(i)
       /\ token' = [token EXCEPT ![i] = TokenOf[w]]
       /\ work' = [work EXCEPT ![w] = i]
       /\ fresh' = [fresh EXCEPT ![w] = TRUE]
       /\ last' = [last EXCEPT ![i] = w]
  /\ UNCHANGED <<open, saved, done, srvVars, pc, mine, cleaning, bounds>>

\* claim_external_task finds no item: _complete_user_task_if_done.
ClaimNothing(w) ==
  /\ work[w] = NoItem /\ open /\ srv[w] = "none"
  /\ Claimable = {}
  /\ GoOn(w, "counting")
  /\ UNCHANGED <<open, itemVars, workVars, pc, mine, cleaning, bounds>>

\* mutant: any token will do
AcceptsAny(w, i) == ~ done[i] /\ lock[i] # Unlocked

\* submit_filter
Accepts(w, i) == ~ done[i] /\ lock[i] # Unlocked /\ token[i] = TokenOf[w]

\* submit_external_task_result, first write.  The client does not act on the
\* answer, so it is free at once; a later request of its own waits for the thread.
Submit(w) ==
  /\ work[w] # NoItem /\ srv[w] = "none"
  /\ Accepts(w, work[w])
  /\ Stamp(work[w])
  /\ srv' = [srv EXCEPT ![w] = "accepted"]
  /\ srvItem' = [srvItem EXCEPT ![w] = work[w]]
  /\ srvStamp' = [srvStamp EXCEPT ![w] = FreshStamp]
  /\ \/ srvOk' = [srvOk EXCEPT ![w] = TRUE] /\ UNCHANGED bounds
     \/ srvOk' = srvOk /\ Fault
  /\ DropWork(w)
  /\ UNCHANGED <<open, token, saved, done, pc, mine, cleaning>>

SubmitRejected(w) ==
  /\ work[w] # NoItem /\ srv[w] = "none"
  /\ ~ Accepts(w, work[w])
  /\ DropWork(w)
  /\ UNCHANGED <<open, itemVars, srvVars, pc, mine, cleaning, bounds>>

\* The request is lost, or the worker dies.
LoseWork(w) ==
  /\ work[w] # NoItem
  /\ Fault
  /\ DropWork(w)
  /\ UNCHANGED <<open, itemVars, srvVars, pc, mine, cleaning>>

\* save_grouped_posts
SaveResult(w) ==
  /\ srv[w] = "accepted" /\ srvOk[w]
  /\ saved' = [saved EXCEPT ![srvItem[w]] = TRUE]
  /\ GoOn(w, "saved")
  /\ UNCHANGED <<open, lock, stale, token, done, workVars, pc, mine, cleaning, bounds>>

\* mutant: the item is unlocked whoever has locked it since
FailResultAnyway(w) ==
  /\ srv[w] = "accepted"
  /\ IF srvOk[w] THEN Fault ELSE UNCHANGED bounds
  /\ Unlock(srvItem[w])
  /\ token' = [token EXCEPT ![srvItem[w]] = NoToken]
  /\ Leave(w, "none")
  /\ UNCHANGED <<open, saved, done, workVars, pc, mine, cleaning>>

\* A failure, or a result that is malformed or cannot be saved: the item is
\* unlocked, if the lock is still this request's.
FailResult(w) ==
  /\ srv[w] = "accepted"
  /\ IF srvOk[w] THEN Fault ELSE UNCHANGED bounds
  /\ IF lock[srvItem[w]] = srvStamp[w]
     THEN Unlock(srvItem[w]) /\ token' = [token EXCEPT ![srvItem[w]] = NoToken]
     ELSE UNCHANGED <<lock, stale, token>>
  /\ Leave(w, "none")
  /\ UNCHANGED <<open, saved, done, workVars, pc, mine, cleaning>>

\* mutant: the item is marked whoever has locked or reset it since
MarkResultAnyway(w) ==
  /\ srv[w] = "saved"
  /\ Unlock(srvItem[w])
  /\ token' = [token EXCEPT ![srvItem[w]] = NoToken]
  /\ done' = [done EXCEPT ![srvItem[w]] = TRUE]
  /\ Leave(w, "counting")
  /\ UNCHANGED <<open, saved, workVars, pc, mine, cleaning, bounds>>

\* The result is saved: the item is marked and unlocked, if the lock is still
\* this request's.
MarkResult(w) ==
  /\ srv[w] = "saved"
  /\ IF lock[srvItem[w]] = srvStamp[w]
     THEN /\ Unlock(srvItem[w])
          /\ token' = [token EXCEPT ![srvItem[w]] = NoToken]
          /\ done' = [done EXCEPT ![srvItem[w]] = TRUE]
     ELSE UNCHANGED <<lock, stale, token, done>>
  /\ Leave(w, "counting")
  /\ UNCHANGED <<open, saved, workVars, pc, mine, cleaning, bounds>>

\* mutant: nothing is counted
CountNot(w) ==
  /\ srv[w] = "counting"
  /\ GoOn(w, "deleting")
  /\ UNCHANGED <<open, itemVars, workVars, pc, mine, cleaning, bounds>>

\* _complete_user_task_if_done: count, then delete_one.
Count(w) ==
  /\ srv[w] = "counting"
  /\ IF open /\ Pending = {} THEN GoOn(w, "deleting") ELSE GoOn(w, "none")
  /\ UNCHANGED <<open, itemVars, workVars, pc, mine, cleaning, bounds>>

Delete(w) ==
  /\ srv[w] = "deleting"
  /\ DeleteTask
  /\ UNCHANGED <<itemVars, workVars, mine, cleaning, bounds>>
-----------------------------------------------------------------------------
(* The program's own worker *)

\* get_task: find(...).limit(1) ...
Find ==
  /\ scene.inside /\ pc = "idle" /\ open
  /\ \/ \E i \in Claimable : pc' = "found" /\ mine' = i
     \/ Pending = {} /\ pc' = "empty" /\ UNCHANGED mine
  /\ UNCHANGED <<open, itemVars, workVars, srvVars, cleaning, bounds>>

\* ... and update_many.  The token stays.
Lock ==
  /\ pc = "found"
  /\ Stamp(mine)
  /\ pc' = "working"
  /\ UNCHANGED <<open, token, saved, done, workVars, srvVars, mine, cleaning, bounds>>

\* make_post_grouping: save_grouped_posts ...
Save ==
  /\ pc = "working"
  /\ saved' = [saved EXCEPT ![mine] = TRUE]
  /\ pc' = "saved"
  /\ UNCHANGED <<open, lock, stale, token, done, workVars, srvVars, mine, cleaning, bounds>>

\* ... the post's own update; finish_task makes it a second time.
Mark ==
  /\ pc \in {"saved", "marked"}
  /\ Unlock(mine)
  /\ done' = [done EXCEPT ![mine] = TRUE]
  /\ pc' = IF pc = "marked" THEN "idle" ELSE "marked"
  /\ mine' = IF pc = "marked" THEN NoItem ELSE mine
  /\ UNCHANGED <<open, token, saved, workVars, srvVars, cleaning, bounds>>

\* The handler fails, or the process dies: the lock stays.
GiveUp ==
  /\ pc \notin {"idle", "empty"}
  /\ Fault
  /\ pc' = "idle" /\ mine' = NoItem
  /\ UNCHANGED <<open, itemVars, workVars, srvVars, cleaning>>

\* get_task has counted nothing left.
Complete ==
  /\ pc = "empty"
  /\ DeleteTask
  /\ UNCHANGED <<itemVars, workVars, mine, cleaning, bounds>>
-----------------------------------------------------------------------------
(* make_post_grouping_cleanup: the groupings are deleted, the posts reset (their
   tokens stay), the task enqueued. *)

DeleteGroupings ==
  /\ cleaning = "no" /\ cleanups < scene.cleanups
  /\ cleanups' = cleanups + 1
  /\ saved' = [i \in Items |-> FALSE]
  /\ cleaning' = "deleted"
  /\ UNCHANGED <<open, lock, stale, token, done, workVars, srvVars, pc, mine, scene, faults>>

ResetPosts ==
  /\ cleaning = "deleted"
  /\ done' = [i \in Items |-> FALSE]
  /\ lock' = [i \in Items |-> Unlocked]
  /\ stale' = [i \in Items |-> FALSE]
  /\ cleaning' = "reset"
  /\ UNCHANGED <<open, token, saved, workVars, srvVars, pc, mine, bounds>>

Reopen ==
  /\ cleaning = "reset"
  /\ open' = TRUE
  /\ cleaning' = "no"
  /\ UNCHANGED <<itemVars, workVars, srvVars, pc, mine, bounds>>

Busy(i) == mine = i \/ \E w \in Workers : work[w] = i \/ srvItem[w] = i

\* An hour passes since the item was locked, and so since every claim on it: a
\* fault if somebody is still busy with it.
Age(i) ==
  /\ lock[i] # Unlocked /\ ~ stale[i]
  /\ IF Busy(i) THEN Fault ELSE UNCHANGED bounds
  /\ stale' = [stale EXCEPT ![i] = TRUE]
  /\ fresh' = [w \in Workers |-> fresh[w] /\ work[w] # i]
  /\ UNCHANGED <<open, lock, token, saved, done, work, last, srvVars, pc, mine, cleaning>>
-----------------------------------------------------------------------------
External(w) ==
  \/ ClaimExternal(w) \/ ClaimNothing(w) \/ Submit(w) \/ SubmitRejected(w)

Server(w) ==
  SaveResult(w) \/ FailResult(w) \/ MarkResult(w) \/ Count(w) \/ Delete(w)

Internal == Find \/ Lock \/ Save \/ Mark \/ Complete

Cleanup == DeleteGroupings \/ ResetPosts \/ Reopen

Next ==
  \/ \E w \in Workers : External(w) \/ LoseWork(w) \/ Server(w)
  \/ Internal \/ GiveUp
  \/ Cleanup
  \/ \E i \in Items : Age(i)

Spec == Init /\ [][Next]_vars

\* The processes run and time passes.
Fairness ==
  /\ \A w \in Workers : WF_vars(External(w)) /\ WF_vars(Server(w))
  /\ WF_vars(Internal) /\ WF_vars(ResetPosts \/ Reopen)
  /\ \A i \in Items : WF_vars(Age(i))

FairSpec == Spec /\ Fairness
-----------------------------------------------------------------------------
(* Properties *)

\* A post that says it is grouped has its grouping: the two collections are
\* written in that order by both kinds of worker, whatever fails between.  An
\* external result survives a clean-up too, because the mark is refused once the
\* lock has been reset; the program's own worker marks without looking.
DoneSaved ==
  (cleaning = "no" /\ (scene.inside => cleanups = 0)) =>
    \A i \in scene.items : done[i] => saved[i]

\* Two external workers never hold claims younger than the age limit on the
\* same item, even while an older request for it is still being handled, unless
\* the user has the grouping started over.
ClaimsExclude ==
  cleanups = 0 => \A w1, w2 \in Workers :
    (work[w1] # NoItem /\ work[w1] = work[w2] /\ fresh[w1] /\ fresh[w2]) => w1 = w2

\* A result is accepted only from the external worker that claimed the item
\* last: one that was too slow cannot overwrite the work of its successor.
LateResultRejected ==
  [][\A w \in Workers : srv[w] = "none" /\ srv'[w] = "accepted" => last[work[w]] = w]_vars

\* The task is deleted only when nothing is left to do, by whichever of the
\* workers notices (a clean-up between the count and the deletion is lost).
TaskOutlivesItems == (~ open /\ cleanups = 0) => Pending = {}

\* Every item is done in the end: no claim, crash or lost request keeps it.
EveryItemDone == <>[](cleanups = 0 => Pending = {})
=============================================================================
