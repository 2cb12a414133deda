------------------------------ MODULE Anthology ------------------------------
(***************************************************************************)
(* The anthology of one tag: its document, the workers that build it, the    *)
(* savers of the groupings it is built from, the handlers of the web API and  *)
(* the detail page, which polls the API while the document is in progress.    *)
(*                                                                         *)
(* A grouping is known by its version, a result by the version it was built   *)
(* from.  The unique index on the seed makes the documents of one tag follow   *)
(* each other: they are numbered.  An answer of the API is the status it       *)
(* found.  The queue's own document is in TaskQueue: here it is there or not.  *)
(***************************************************************************)
EXTENDS Naturals, Sequences, SequencesExt

CONSTANTS
  Workers,
  MaxDocs,        \* bound: documents made for the tag
  MaxRuns,        \* bound: runs of the agent
  MaxSaves,       \* bound: saves of the groupings
  MaxLoads,       \* bound: loads of the detail page
  MaxRetries,     \* bound: retries asked, by the page or by another tab
  MaxFlight,      \* bound: answers on their way to the page
  MaxFaults       \* bound: crashes of workers and failed inserts

ASSUME BoundsAssumption ==
  /\ {MaxDocs, MaxRuns, MaxSaves, MaxLoads, MaxRetries, MaxFlight, MaxFaults} \subseteq Nat
  /\ MaxDocs > 0

VARIABLES
  made,           \* how many documents the tag had so far
  doc,            \* the document, or NoDoc
  runs,           \* the records of anthology_runs, by number
  task,           \* is there a task of type TASK_ANTHOLOGY?
  workers,
  version,        \* of the groupings
  marking,        \* a saver is between its save and mark_stale_for_source_change
  resetting,      \* the documents whose retry another tab asked for and was let
  page,           \* what the detail page shows, does it poll, was it crowded?
  asked,          \* its requests the server has not answered, by where they are
  answers,        \* the answers, in the order they were given
  loads, retries, faults

serverVars == <<made, doc, runs, task>>
sourceVars == <<version, marking>>
pageVars == <<page, asked, answers>>
budget == <<loads, retries, faults>>
vars == <<serverVars, workers, sourceVars, resetting, pageVars, budget>>

Statuses == {"pending", "processing", "done", "failed"}
InProgress == {"pending", "processing"}     \* isProcessing
NoResult == [from |-> 0, against |-> 0]     \* against: the version it was stored beside
Fresh(n) == [id |-> n, status |-> "pending", stale |-> FALSE, result |-> NoResult, run |-> 0]
NoDoc == [id |-> 0, status |-> "none", stale |-> FALSE, result |-> NoResult, run |-> 0]
NoPage == [id |-> 0, shown |-> "done", polling |-> FALSE, crowded |-> FALSE]
With(id, step) == [at |-> step, doc |-> id, run |-> 0, from |-> 0]
Idle == With(0, "idle")

Ids == 0..MaxDocs
Versions == 0..MaxSaves + 1
Docs == [id: Ids, status: Statuses \cup {"none"}, stale: BOOLEAN, run: 0..MaxRuns,
         result: [from: Versions, against: Versions]]
\* left: the agent was left by an exception that did not close the run (the code keeps
\* no such mark; the model does, to tell these runs).
Runs == [doc: Ids, status: {"processing", "done", "failed", "deleted"}, left: BOOLEAN]
Places == {"idle", "claimed", "running", "read", "saved", "failing", "runFailed", "built",
           "counted"}
WorkerStates == [at: Places, doc: Ids, run: 0..MaxRuns, from: Versions]
Pages == [id: Ids, shown: Statuses, polling: BOOLEAN, crowded: BOOLEAN]
Answers == [kind: {"poll", "retry", "read"}, status: Statuses \cup {"error"}]

\* Every part of the state has its type.
TypeOK ==
  /\ made \in Ids /\ doc \in Docs /\ runs \in Seq(Runs) /\ Len(runs) <= MaxRuns
  /\ task \in BOOLEAN
  /\ workers \in [Workers -> WorkerStates]
  /\ version \in Versions /\ marking \in BOOLEAN /\ resetting \subseteq Ids
  /\ page \in Pages
  /\ asked \subseteq {"poll", "retry", "reset", "read", "mark"}
  /\ answers \in Seq(Answers) /\ Len(answers) <= MaxFlight
  /\ loads \in 0..MaxLoads /\ retries \in 0..MaxRetries /\ faults \in 0..MaxFaults

Init ==
  /\ made = 0 /\ doc = NoDoc /\ runs = <<>> /\ task = FALSE
  /\ workers = [w \in Workers |-> Idle]
  /\ version = 1 /\ marking = FALSE /\ resetting = {}
  /\ page = NoPage
  /\ asked = {} /\ answers = <<>>
  /\ loads = 0 /\ retries = 0 /\ faults = 0

----------------------------------------------------------------------------
(* Writes of RssTagAnthologies and RssTagAnthologyRuns: one that finds no      *)
(* document with the id changes nothing.                                      *)

Exists(id) == id # 0 /\ doc.id = id

UpdateStatus(id, status) ==
  doc' = IF Exists(id) THEN [doc EXCEPT !.status = status] ELSE doc

UpdateResult(run, from) ==
  doc' = [doc EXCEPT !.status = "done", !.stale = FALSE, !.run = run,
                     !.result = [from |-> from, against |-> version]]

ResetForRetry ==
  doc' = [doc EXCEPT !.status = "pending", !.result = NoResult, !.run = 0]

FinishRun(run, status) ==
  runs' = IF runs[run].status = "deleted" THEN runs
          ELSE [runs EXCEPT ![run].status = status]

----------------------------------------------------------------------------
(* The web API for other tabs.                                                *)

\* startTagAnthology and on_anthologies_api_create_post: find or insert, and a task
\* when it is pending.
Create ==
  /\ IF doc = NoDoc
     THEN made < MaxDocs /\ made' = made + 1 /\ doc' = Fresh(made + 1)
     ELSE UNCHANGED <<made, doc>>
  /\ task' = (task \/ doc'.status = "pending")
  /\ UNCHANGED <<runs, workers, sourceVars, resetting, pageVars, budget>>

\* The browser goes to the detail page, from wherever it was: it drops the answers to
\* the page it leaves, the server ends what it has begun.
Open ==
  /\ doc # NoDoc
  /\ loads < MaxLoads /\ loads' = loads + 1
  /\ page' = [id |-> doc.id, shown |-> doc.status,
              polling |-> doc.status \in InProgress, crowded |-> FALSE]
  /\ asked' = {} /\ answers' = <<>>
  /\ resetting' = IF "reset" \in asked THEN resetting \cup {page.id} ELSE resetting
  /\ UNCHANGED <<serverVars, workers, sourceVars, retries, faults>>

\* on_anthologies_api_delete: the document, then its runs.
Delete ==
  /\ doc # NoDoc
  /\ doc' = NoDoc
  /\ runs' = [n \in DOMAIN runs |->
                IF runs[n].doc = doc.id THEN [runs[n] EXCEPT !.status = "deleted"] ELSE runs[n]]
  /\ UNCHANGED <<made, task, workers, sourceVars, resetting, pageVars, budget>>

\* on_anthologies_api_retry_post reads the document, refuses while it is
\* processing, and resets it in a second step.
MayRetry(id) == Exists(id) /\ doc.status # "processing"

Reset(id) ==
  /\ IF Exists(id) THEN ResetForRetry /\ task' = TRUE ELSE UNCHANGED <<doc, task>>
  /\ UNCHANGED <<made, runs>>

RetryInTab ==
  /\ doc # NoDoc /\ MayRetry(doc.id) /\ doc.id \notin resetting
  /\ retries < MaxRetries /\ retries' = retries + 1
  /\ resetting' = resetting \cup {doc.id}
  /\ UNCHANGED <<serverVars, workers, sourceVars, pageVars, loads, faults>>

ResetInTab(id) ==
  /\ id \in resetting
  /\ resetting' = resetting \ {id}
  /\ Reset(id)
  /\ page' = [page EXCEPT !.crowded = @ \/ asked # {} \/ answers # <<>>]
  /\ UNCHANGED <<workers, sourceVars, asked, answers, budget>>

----------------------------------------------------------------------------
(* The detail page.                                                           *)

\* A request goes out beside those that are under way: nothing holds it back.
Ask(kind) ==
  /\ asked' = asked \cup {kind}
  /\ page' = [page EXCEPT !.crowded = @ \/ asked # {} \/ answers # <<>>]
  /\ UNCHANGED <<serverVars, workers, sourceVars, resetting, answers, loads, faults>>

\* The interval of startPolling, and a return to the page (visibilitychange).
Refresh ==
  /\ page.polling \/ page.shown \in InProgress
  /\ "poll" \notin asked /\ Len(answers) < MaxFlight
  /\ Ask("poll") /\ UNCHANGED retries

Tick == page.polling /\ Refresh

ClickRetry ==
  /\ page.id # 0 /\ asked \cap {"retry", "reset"} = {}
  /\ retries < MaxRetries /\ retries' = retries + 1
  /\ Ask("retry")

\* The buttons of a finding; each use makes another request.
ClickRead ==
  /\ page.shown = "done" /\ asked \cap {"read", "mark"} = {}
  /\ Len(answers) < MaxFlight
  /\ Ask("read") /\ UNCHANGED retries

Answer(request, kind, status) ==
  /\ Len(answers) < MaxFlight
  /\ answers' = Append(answers, [kind |-> kind, status |-> status])
  /\ asked' = asked \ {request}

Detail == IF Exists(page.id) THEN doc.status ELSE "error"

\* on_anthologies_api_detail_get.
ServePoll ==
  /\ "poll" \in asked
  /\ Answer("poll", "poll", Detail)
  /\ UNCHANGED <<serverVars, workers, sourceVars, resetting, page, budget>>

\* The check of a retry, and its reset with the detail it answers.
ServeRetry ==
  /\ "retry" \in asked
  /\ IF MayRetry(page.id)
     THEN asked' = (asked \ {"retry"}) \cup {"reset"} /\ UNCHANGED answers
     ELSE Answer("retry", "retry", "error")
  /\ UNCHANGED <<serverVars, workers, sourceVars, resetting, page, budget>>

ServeReset ==
  /\ "reset" \in asked
  /\ Reset(page.id)
  /\ Answer("reset", "retry", IF Exists(page.id) THEN "pending" ELSE "error")
  /\ UNCHANGED <<workers, sourceVars, resetting, page, budget>>

\* on_anthologies_api_read_post: the result it saw is marked, then it answers the
\* detail as it is by then.
ServeRead ==
  /\ "read" \in asked
  /\ IF Exists(page.id) /\ doc.result # NoResult
     THEN asked' = (asked \ {"read"}) \cup {"mark"} /\ UNCHANGED answers
     ELSE Answer("read", "read", "error")
  /\ UNCHANGED <<serverVars, workers, sourceVars, resetting, page, budget>>

ServeMark ==
  /\ "mark" \in asked
  /\ Answer("mark", "read", Detail)
  /\ UNCHANGED <<serverVars, workers, sourceVars, resetting, page, budget>>

\* mutant: the first answer stops the interval
PollsUntilAnswered(kind, status) == page.polling /\ kind # "poll"

\* mutant: a retry does not start it
PollsAsBefore(kind, status) ==
  page.polling /\ (kind = "poll" => status \in InProgress)

\* What each kind of answer does to the page: a poll may stop the interval, a retry
\* may start it, a read leaves it.
Polls(kind, status) ==
  CASE kind = "poll" -> page.polling /\ status \in InProgress
    [] kind = "retry" -> page.polling \/ status \in InProgress
    [] kind = "read" -> page.polling

\* An error leaves the payload alone; any other answer replaces it.
Render(a) ==
  page' = IF a.status = "error" THEN page
          ELSE [page EXCEPT !.shown = a.status, !.polling = Polls(a.kind, a.status)]

\* Answers arrive in any order.
Receive(n) ==
  /\ n \in DOMAIN answers
  /\ answers' = RemoveAt(answers, n)
  /\ Render(answers[n])
  /\ UNCHANGED <<serverVars, workers, sourceVars, resetting, asked, budget>>

----------------------------------------------------------------------------
(* The groupings: RssTagPostGrouping saves one, then marks the anthologies      *)
(* whose result refers to its posts.                                          *)

SaveGrouping ==
  /\ version <= MaxSaves /\ ~marking
  /\ version' = version + 1 /\ marking' = TRUE
  /\ UNCHANGED <<serverVars, workers, resetting, pageVars, budget>>

\* mutant: only documents that are done are marked
MarkDoneStale ==
  /\ marking /\ marking' = FALSE
  /\ doc' = IF doc.status = "done" THEN [doc EXCEPT !.stale = TRUE] ELSE doc
  /\ UNCHANGED <<made, runs, task, workers, version, resetting, pageVars, budget>>

MarkStale ==
  /\ marking /\ marking' = FALSE
  /\ doc' = IF doc.result # NoResult THEN [doc EXCEPT !.stale = TRUE] ELSE doc
  /\ UNCHANGED <<made, runs, task, workers, version, resetting, pageVars, budget>>

----------------------------------------------------------------------------
(* A worker: get_task, _AnthologyWorker.handle_anthology, AnthologyAgent.run    *)
(* and finish_task.                                                           *)

At(w, step) == workers[w].at = step
Go(w, step) == workers' = [workers EXCEPT ![w].at = step]
WorkerLeavesAlone == UNCHANGED <<made, sourceVars, resetting, pageVars, loads, retries>>

\* The pending document becomes processing in one operation; the task is let go.
Claim(w) ==
  /\ At(w, "idle") /\ task
  /\ doc.status = "pending" /\ Len(runs) < MaxRuns
  /\ UpdateStatus(doc.id, "processing")
  /\ workers' = [workers EXCEPT ![w] = With(doc.id, "claimed")]
  /\ UNCHANGED <<runs, task, faults>> /\ WorkerLeavesAlone

\* Nothing is pending: the count, and below the deletion of the task.
FindNothing(w) ==
  /\ At(w, "idle") /\ task
  /\ doc.status # "pending"
  /\ Go(w, "counted")
  /\ UNCHANGED <<doc, runs, task, faults>> /\ WorkerLeavesAlone

Missing(w) ==
  /\ At(w, "claimed") /\ ~Exists(workers[w].doc)
  /\ workers' = [workers EXCEPT ![w] = Idle]
  /\ UNCHANGED <<doc, runs, task, faults>> /\ WorkerLeavesAlone

StartRun(w) ==
  /\ At(w, "claimed") /\ Exists(workers[w].doc) /\ Len(runs) < MaxRuns
  /\ runs' = Append(runs, [doc |-> workers[w].doc, status |-> "processing", left |-> FALSE])
  /\ workers' = [workers EXCEPT ![w].at = "running", ![w].run = Len(runs) + 1]
  /\ UNCHANGED <<doc, task, faults>> /\ WorkerLeavesAlone

RunNotCreated(w) ==
  /\ At(w, "claimed") /\ Exists(workers[w].doc)
  /\ faults < MaxFaults /\ faults' = faults + 1
  /\ UpdateStatus(workers[w].doc, "failed")
  /\ workers' = [workers EXCEPT ![w] = Idle]
  /\ UNCHANGED <<runs, task>> /\ WorkerLeavesAlone

\* The tools read the groupings; the model's answer is made of what they read.
Research(w) ==
  /\ At(w, "running")
  /\ workers' = [workers EXCEPT ![w].at = "read", ![w].from = version]
  /\ UNCHANGED <<doc, runs, task, faults>> /\ WorkerLeavesAlone

\* Inside the try: the model fails, or its answer cannot be used.
ModelFails(w) ==
  /\ At(w, "running") \/ At(w, "read")
  /\ Go(w, "failing")
  /\ UNCHANGED <<doc, runs, task, faults>> /\ WorkerLeavesAlone

\* An exception outside the try, while the first topics are fetched or in the except
\* branch itself: handle_anthology's except knows the document and not the run.
EscapesRun(w) ==
  /\ workers[w].at \in {"running", "failing"}
  /\ UpdateStatus(workers[w].doc, "failed")
  /\ runs' = [runs EXCEPT ![workers[w].run].left = TRUE]
  /\ workers' = [workers EXCEPT ![w] = Idle]
  /\ UNCHANGED <<task, faults>> /\ WorkerLeavesAlone

\* _finalize_result: update_result, and an exception when the document is gone.
SaveResult(w) ==
  /\ At(w, "read")
  /\ IF Exists(workers[w].doc)
     THEN UpdateResult(workers[w].run, workers[w].from) /\ Go(w, "saved")
     ELSE Go(w, "failing") /\ UNCHANGED doc
  /\ UNCHANGED <<runs, task, faults>> /\ WorkerLeavesAlone

RunDone(w) ==
  /\ At(w, "saved")
  /\ FinishRun(workers[w].run, "done")
  /\ Go(w, "built")
  /\ UNCHANGED <<doc, task, faults>> /\ WorkerLeavesAlone

\* The except branch of run: the run's record, then the document.
RunFailed(w) ==
  /\ At(w, "failing")
  /\ FinishRun(workers[w].run, "failed")
  /\ Go(w, "runFailed")
  /\ UNCHANGED <<doc, task, faults>> /\ WorkerLeavesAlone

\* mutant: the document is forgotten when the run has failed
DocLeftProcessing(w) ==
  /\ At(w, "runFailed")
  /\ workers' = [workers EXCEPT ![w] = Idle]
  /\ UNCHANGED <<doc, runs, task, faults>> /\ WorkerLeavesAlone

DocFailed(w) ==
  /\ At(w, "runFailed")
  /\ UpdateStatus(workers[w].doc, "failed")
  /\ workers' = [workers EXCEPT ![w] = Idle]
  /\ UNCHANGED <<runs, task, faults>> /\ WorkerLeavesAlone

\* finish_task counts what is pending; with nothing left it deletes the task.
CountPending(w) ==
  /\ At(w, "built")
  /\ workers' = [workers EXCEPT
       ![w] = IF doc.status # "pending" THEN With(0, "counted") ELSE Idle]
  /\ UNCHANGED <<doc, runs, task, faults>> /\ WorkerLeavesAlone

DeleteTask(w) ==
  /\ At(w, "counted")
  /\ task' = FALSE
  /\ workers' = [workers EXCEPT ![w] = Idle]
  /\ UNCHANGED <<doc, runs, faults>> /\ WorkerLeavesAlone

\* A worker dies; another takes its place.
Crash(w) ==
  /\ ~At(w, "idle")
  /\ faults < MaxFaults /\ faults' = faults + 1
  /\ workers' = [workers EXCEPT ![w] = Idle]
  /\ UNCHANGED <<doc, runs, task>> /\ WorkerLeavesAlone

Work(w) ==
  \/ Claim(w) \/ FindNothing(w) \/ Missing(w) \/ StartRun(w) \/ RunNotCreated(w)
  \/ Research(w) \/ ModelFails(w) \/ EscapesRun(w) \/ SaveResult(w) \/ RunDone(w)
  \/ RunFailed(w) \/ DocFailed(w) \/ CountPending(w) \/ DeleteTask(w)

Serve == ServePoll \/ ServeRetry \/ ServeReset \/ ServeRead \/ ServeMark

Next ==
  \/ Create \/ Open \/ Delete \/ RetryInTab \/ SaveGrouping \/ MarkStale
  \/ \E id \in 1..MaxDocs : ResetInTab(id)
  \/ Refresh \/ ClickRetry \/ ClickRead \/ Serve
  \/ \E n \in 1..MaxFlight : Receive(n)
  \/ \E w \in Workers : Work(w) \/ Crash(w)

Spec == Init /\ [][Next]_vars

\* Workers go on, requests are answered and answers arrive, the interval fires, a
\* saver finishes.  Nothing makes a user click or an agent succeed.
Fairness ==
  /\ \A w \in Workers : WF_vars(Work(w))
  /\ WF_vars(Tick) /\ WF_vars(Receive(1)) /\ WF_vars(MarkStale)
  /\ WF_vars(ServePoll) /\ WF_vars(ServeRetry) /\ WF_vars(ServeReset)
  /\ WF_vars(ServeRead) /\ WF_vars(ServeMark)
  /\ \A id \in 1..MaxDocs : WF_vars(ResetInTab(id))

FairSpec == Spec /\ Fairness

----------------------------------------------------------------------------
(* Properties.                                                                *)

Holds(w, id) == /\ workers[w].doc = id
                /\ workers[w].at \notin {"idle", "built", "counted"}

\* A document that is processing, and a run that is, are in a worker's hands, however
\* retries, deletions and failures of the agent fall together, unless a worker crashed
\* or an insert failed: nothing but its worker takes them out of that status.  The runs
\* the agent left by an exception outside its try (anthology_agent.py:84-90 and the
\* except branch) are the exception: they stay processing with nobody at them.  Their
\* document does not.
ProcessingIsHeld ==
  faults = 0 =>
    /\ doc.status = "processing" => \E w \in Workers : Holds(w, doc.id)
    /\ \A n \in DOMAIN runs : runs[n].status = "processing" /\ ~ runs[n].left =>
         \E w \in Workers : Holds(w, runs[n].doc) /\ workers[w].run = n

\* Once the groupings have been saved and the saver has marked, a result that was
\* stored before that save is known to be stale (mark_stale_for_source_change).
LaterSaveIsKnown ==
  ~marking =>
    doc.result = NoResult \/ doc.stale \/ doc.result.against = version

\* The docstring of mark_stale_for_source_change says "Mark anthologies stale when
\* source post ids change": a result that is not stale was built from the groupings
\* as they are.
FreshResult ==
  ~marking =>
    doc.result = NoResult \/ doc.stale \/ doc.result.from = version

\* A page that shows a document in progress polls: its note says so.
PollsInProgress == page.shown \in InProgress => page.polling

\* It does when the requests of the page never overlapped since it was opened and no
\* other tab reset the document beside one.
PollsUncrowded == page.crowded \/ PollsInProgress

\* Who retries a failed or finished anthology sees the end of the new run: a page
\* that polls does not show progress for ever once the document has settled.
PageCatchesUp ==
  <>[](Exists(page.id) /\ doc.status \notin InProgress)
    => <>[](page.crowded \/ page.shown \notin InProgress)
=============================================================================
