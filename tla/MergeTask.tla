----------------------------- MODULE MergeTask -----------------------------
(***************************************************************************)
(* The TOPIC_MERGE task of one user around the runs of TopicMerge: when a   *)
(* run is started, and when the task is deleted.  Nothing but a document of *)
(* db.tasks makes a worker start a run.  The end of a POST_GROUPING task    *)
(* that nobody added by hand enqueues one, and so may a user; a worker       *)
(* deletes it when it counts no document left, before a run (get_task) or    *)
(* after one (finish_task).  Groupings are saved whether or not there is a   *)
(* task.                                                                     *)
(*                                                                         *)
(* The task is not paused or removed by hand, its claim lasts as long as the  *)
(* run, and the retry budget is TaskState's: a run that raises may or may    *)
(* not have been the last one that is tried.                                 *)
(***************************************************************************)
EXTENDS TopicMerge

VARIABLES
  task,      \* the document, and how far the worker that claimed it is
  since      \* history: the documents saved since nothing was left to merge

taskVars == <<task, since>>
allVars == <<vars, task, since>>

TaskTypeOK ==
  /\ task \in {"none", "waiting", "claimed", "running", "done", "counted", "dead"}
  /\ since \subseteq Docs

TaskInit == Init /\ task = "none" /\ since = {}
-----------------------------------------------------------------------------
\* add_next_tasks after POST_GROUPING, or add_task: enqueue leaves a task alone
\* that a worker has.
Enqueue ==
  /\ task \in {"none", "dead"}
  /\ task' = "waiting" /\ since' = {}
  /\ UNCHANGED vars

\* The number of documents left decides: none, and the worker is about to delete
\* the task; some, and it goes on (a run, or the next claim).
Count(goOn) ==
  /\ task' = IF Pending = {} THEN "counted" ELSE goOn
  /\ since' = {}
  /\ UNCHANGED vars

\* get_task: the claim and the count.
Claim == task = "waiting" /\ Count("claimed")

\* mutant: finish_task does not know the type and removes the task
FinishAnyway == task = "done" /\ task' = "counted" /\ since' = {} /\ UNCHANGED vars

\* finish_task after a run that did not fail.
Finish == task = "done" /\ Count("waiting")

\* complete: delete_one.
Delete ==
  /\ task = "counted" /\ task' = "none"
  /\ UNCHANGED <<vars, since>>

\* What becomes of a task whose worker stops: fail counts the failure and gives it
\* back or declares it dead; if the process died, the lease ends.
GivenBack == task' \in {"waiting", "dead"} /\ since' = {}

\* A step of the run.  One that ends with the marks is done, one that raises is not.
RunStep ==
  /\ task \in {"claimed", "running"} /\ (pc = "idle" <=> task = "claimed")
  /\ Run
  /\ \/ pc' # "idle" /\ task' = "running" /\ UNCHANGED since
     \/ pc' = "idle" /\ faults' = faults /\ task' = "done" /\ UNCHANGED since
     \/ pc' = "idle" /\ faults' # faults /\ GivenBack

\* The worker fails or dies between two steps, in the run or around it.
Stop == task \in {"claimed", "running", "done", "counted"} /\ Fail /\ GivenBack

\* The saves of TopicMerge; those after a count that found nothing are kept.
Save ==
  /\ \/ \E d \in Docs, paths \in Groupings : BeginSave(d, paths) /\ UNCHANGED since
     \/ \E s \in saving :
          /\ EndSave(s)
          /\ since' = IF task = "counted" THEN since \cup {s.doc} ELSE since
     \/ \E d \in Docs : DeleteDoc(d) /\ UNCHANGED since
  /\ UNCHANGED task
-----------------------------------------------------------------------------
TaskNext == Enqueue \/ Claim \/ RunStep \/ Finish \/ Delete \/ Stop \/ Save

TaskSpec == TaskInit /\ [][TaskNext]_allVars

\* A task that is there is claimed and worked on to the end.  Nothing makes
\* anybody enqueue one.
FairSpec == TaskSpec /\ WF_allVars(Claim \/ RunStep \/ Finish \/ Delete)

\* Every document that is pending while there is a task is marked in the end, or
\* deleted: each failed or interrupted run, and each save during a run, leaves it
\* to a later run of the same task.  Only a document saved after the last count
\* may be left behind when the task is deleted, since the enqueue that came with it
\* found a task that a worker had.  (And a task that is dead does nothing.)
EveryDocMerged == \A d \in Docs :
  (d \in Pending /\ task \notin {"none", "dead"}) ~>
    \/ d \notin Pending
    \/ task = "dead"
    \/ task = "none" /\ d \in since
=============================================================================
