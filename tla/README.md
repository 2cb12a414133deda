# A verification project for rsstag

rsstag downloads posts from feeds, mail and chats, tags and groups them, and lets a user read
them by tags and topics. It is a Python web application and a pool of Python worker processes
over one MongoDB, with a JavaScript front end. MongoDB is the only thing the processes share:
nothing is transactional, an update of one document is atomic, an `update_many` or a
`bulk_write` is not. Most of what is hard in this program comes from that.

These modules model the parts of rsstag where steps of several processes interleave, fail or
stop half-way, state what should hold of them, check it with TLC on small instances, and prove
the safety of every one of these parts (task documents, the task queue, item claims, the topic merge,
the raw archive, anthologies, read state and its pages, chats and batches) for every instance.

## 1. The system

| Part | State | Operations | What is hard |
| --- | --- | --- | --- |
| Task state machine (`task_state.py`) | `db.tasks`: status, processing, lease, attempts, backoff | claim, renew, release, complete, fail, enqueue, pause, resume | leases that end under a worker, unguarded deletes, find-then-update |
| Task queue (`tasks.py`, `workers/dispatcher.py`, `tag_worker.py`) | tasks, locks on posts, tags and bi-grams, counters | get_task, handlers, finish_task, add_task, add_next_tasks | the claim goes back before the batch is done; chains; crashes |
| External workers (`tasks.py`, `external_worker.py`) | item locks and tokens | claim_external_task, submit_external_task_result | late and repeated results, races with the program's own worker and the clean-up |
| Topic merge (`topic_merge.py`, `topic_aliases.py`, `post_grouping.py`) | aliases, groupings and their marks | a run by levels and buckets, redirects, marks | long runs against concurrent saves, half-done rewrites |
| Raw archive (`provider_worker.py`, `providers/telegram.py`) | raw messages, cursors, posts | download, conversion | paging backwards, interruptions, requests that fail |
| Anthologies (`anthologies.py`, `anthology_agent.py`, `anthology-detail.js`) | anthologies, runs, what the page shows | create, run, retry, delete, stale marks, polls | crashes, retries during a run, answers out of order |
| Batch requests (`llm/batch.py`, `llm_worker.py`) | batch state in a task | submit, poll, store, process | polls that count as failures, crashes around remote calls |
| Read state (`read_state.py`, `posts.py`, `tags.py`, seven kinds of page) | read flags, unread counters, what pages show | mark sentences and posts | several collections written one by one, pages that learn of their own changes only, in one of the places that show them |
| Worker pool (`workers_db.py`, `dispatcher.py`) | heartbeats, commands | spawn, kill, heartbeat | commands consumed before they are executed |
| Chats (`chats.py`, `web/chats.py`, `global-chat.js`, `chat-storage.js`) | conversations, a panel's and a storage's copy of one | send, fork, rename, delete, open | a slow model between two writes, several tabs, answers out of order |
| Paths, context filter, users, tokens | one document each | web handlers | read-modify-write of a whole document |
| Other browser storages, event bus (`static/js`) | copies of server data | load, change, events | answers out of order, handlers that leave during delivery |
| Providers, language models, analyses, pages | none of their own | remote calls, computations, rendering | not protocols |

How they interact: a web handler or a worker enqueues a task (a document); a worker process
claims it, runs the handler registered for its type, and finishes or fails it, which may enqueue
successors. Handlers lock items (posts, tags, bi-grams) by a time stamp in their `processing`
field. External workers take single items over HTTP. Grouping a post writes `post_grouping`,
which the topic merge reads and marks, and makes anthologies stale. The front end asks the web
handlers. `PROJECT.json` lists all components, and the hazards at their lines.

## 2. The modules

| Module | Models | Depends on |
| --- | --- | --- |
| `TaskDoc` | one task document: the filters and the update each operation applies | |
| `LeaseLock` | abstract: a lease per task that excludes | |
| `TaskState` | workers and clients on the task collection, operation by operation | `TaskDoc`, implements `LeaseLock` |
| `TaskQueue` | the worker loop over a chain of tasks and the items they are about | `TaskDoc` |
| `ItemClaims` | external workers, the program's worker and the clean-up on items | |
| `TopicMerge` | runs of the topic merge against savers of groupings | |
| `MergeTask` | the task that starts these runs, from its enqueue to its deletion | `TopicMerge` |
| `RawDownload` | downloads and the conversion of a chat archive | |
| `Anthology` | an anthology, the workers that build it, savers of its sources, its page | |
| `ReadState` | the requests that mark posts and sentences, operation by operation | |
| `ReadPages` | the pages that send them, composed with the server | `ReadState` |
| `Chat` | conversations, their handlers, and panel and storage in several tabs | |
| `BatchTask` | the task that groups posts in batches, and the provider | `TaskDoc` |
| `TaskStateProofs`, `TaskQueueProofs`, `ItemClaimsProofs`, `TopicMergeProofs`, `RawDownloadProofs`, `AnthologyProofs`, `BatchTaskProofs` | theorems and proofs | the module of that name; `TaskStateProofs` also has those about `LeaseLock`, `TopicMergeProofs` those about `MergeTask` |
| `PagesProofs` | theorems and proofs about pages in the browser | `ReadPages` (with `ReadState`) and `Chat` |
| `MC...` | values of the constants for TLC | the module of that name |

`TaskState`, `TaskQueue` and `BatchTask` share `TaskDoc`, so that they do the same to a document.
They look at it at two grains: `TaskState` has the sampling, the compare-and-set and the clock of a single
claim, the other two make a claim one step and have everything around it.

### TaskDoc, TaskState, LeaseLock

A document is a record of the fields the code reads: `status` (with a value for documents of
older versions without one), `processing`, `lease_until`, `attempts`, `backoff_until`.
`Claimable`, `Claimed`, `Renewed`, `Released`, `Failed`, `Enqueued`, `Paused`, `Resumed`,
`BudgetCleared`, `MarkedFailed`, `StaleReleased` and `Refreshed` are the filter and the updates of
`task_state.py`, the three that `tasks.py` makes on its own, and `_refresh_claim` of the topic merge. Dates are natural
numbers, the clock is `now`.

A step of `TaskState` is one MongoDB operation on one document. A claim is a sample (one step,
which remembers the time it started with) and one compare-and-set per candidate. Enqueue is a
look-up and a write. `pause` and `resume` take a document at a time. A worker holds a stale copy
of `attempts` (`seen`), because `fail` computes from it. `claims` and `until` are history: the
claims that nobody revoked, and how long the worker believes it has the task. A worker may crash
in any state. `OwnTaskStep` is what a worker does to get a task and to the one it got; the successors
it enqueues (`add_next_tasks`) are written by `enqueue` as for any client, and are in `ClientStep`. Old documents may be there at the start.

`LeaseLock` says what that is good for: between obtaining a lease and its end no other worker has
the task, unless it was revoked (enqueued anew, paused, failed by another, deleted). `TaskState`
implements it with `holders <- claims`.

### TaskQueue

Variables are the tasks by type, `manual`, the state of each item (`none`, `todo`, `done`), its
lock, how often it was counted into the counters, and each worker's place in
`get_task` / handler / `finish_task`. The three classes of task are those that `get_task` tells
apart: whole tasks (the claim is kept), counted item tasks (the claim goes back before the
handler runs; the task is completed by a later `get_task` that counts nothing left), and rank
tasks (the same without the count). A lease, a backoff or a lock runs out in a step of its own.
The variable `scene` never changes: it is one of `Scenes`, the bounds that a behaviour keeps to
(who works, which items there are, whether a lease or a lock may run out under a running handler,
how many faults, failing enqueues and tasks added by the user). One run then covers several
instances whose product would be too large.

### ItemClaims

One item task: external workers claim an item (`find_one_and_update`, with a token), compute and
submit; the server's thread checks the claim, saves, marks with a compare-and-set on the stamp,
counts and deletes the task. The client may time out and submit again, or crash. The program's own
worker finds and locks in two steps and marks without looking. A clean-up deletes the groupings,
resets the posts, and opens the task again. Locks are stamps; age is a step. `scene` is as in
`TaskQueue`.

### TopicMerge, MergeTask

Labels are numbers, a canonical id is the sequence of labels it is made of. A run collects the
pending groupings, and for each level and each parent id opens a bucket: known aliases first, then
the pre-pass (same or nearly same spelling), then the model in chunks, whose answer is any mapping
of the chunk's labels to labels and anchors, at most `Verdicts` groups of it. Anchors that lose
are redirected (`redirect_canonical`: the exact ids, then the ids below, document by document, with
collisions on the unique index left alone). At the end the collected documents are marked, if they
were not saved since. A failure or crash can come between any two writes. Of a time stamp only
"after the start of the run or not" is kept; `save_grouped_posts` reads it in one step and writes
in another.

`TopicMerge` leaves open when a run starts. `MergeTask` says it: a task is enqueued at any time (by the
end of a `POST_GROUPING` task, by a user), a worker claims it and counts the pending documents, starts a
run or deletes the task, and counts again after a run. The deletion is a step of its own after the
count, and `since` is what was saved in between. `MergeTask` adds its variables to those of
`TopicMerge` and no step to its runs.

### RawDownload

Messages of a chat are numbered. A download has its snapshot of the cursors, its place in the
history (`from`), the new part of the page and the running maximum; each page is stored in one
step and the cursor moves only with `chat_done`. Two downloads overlap after a lost lease. The
conversion takes a batch of unmarked documents, stores the posts that are missing, and marks the
batch. An exception parks the task until the user asks again; a crash is followed by another run.
Either can leave a part of a page, batch or mark behind. A request may fail for good.

### Anthology

The unique index makes the anthologies of one tag follow each other, so there is one document at a
time, with a number. Groupings have a version; a result has the version it was built `from` and the
one it was stored `against`. A worker claims the oldest pending document, creates a run, reads the
sources, and stores the result and closes the run in two steps; failing inside the agent's `try` it
writes run and document in two steps, and it can crash anywhere. An exception outside that `try`
(`EscapesRun`: while the first topics are fetched, or in its `except`) is handled by `handle_anthology`,
which fails the document and does not know the run; `left` in a run's record is history and tells these runs. A saver of groupings saves and then marks. The page
(`anthology-detail.js`) has a status it shows and whether it polls; its requests wait in `asked`
and its answers in `answers`, in the order the server gave them. `retry` is asked for by the page or by another tab, and is
two steps on the server (read the status, reset). `crowded` is history: requests of the page have
overlapped, or another tab's retry came beside one.

### ReadState, ReadPages

`ReadState` is the server: `/read/posts` (find the posts that differ, change them, change the counters,
then the sentences post by post) and `/read/snippets` (`mark_sentences`: post by post the sentences are
read and written back, then the post is looked up, changed and counted). Each step is one operation,
any may fail, and requests interleave. One counter stands for tags, bi-grams and letters, which are
changed alike. `crossed` is history: two requests about one post have been under way together.

`ReadPages` has the pages: `storage` is what `PostsStorage` or the canvas holds as read, `label` is
`PostsStorage.readed`, `buttons` what the grouped page's own buttons say, `shown` what it shows as read
besides posts. That is not always sentences: the grouped page and the Original dialog of
the hierarchy have a state for each sentence, but the snippets page, a cluster and the mind map have one
for each snippet (`dataset.read`, `range.read`, `snippet.read`), which an answer changes for the snippets
it names: the one object in the mind map, every range with the same key in a cluster
(`buildRangeKey`), the first element with the id on the snippets page (`updateUIForSelections`), whence
`Changed`. Another snippet that has the sentence too is left as it was. A click sends a request, which on some
pages needs a button that is not disabled.

`FeedHierarchy.topics` is `loaded`: an answer changes the item in the dialog and never the topics, and
`showOriginal` renders the dialog from them, so `ReopenOriginal` shows the old states again, and the
answer to a request made before goes to an item that is no longer there. `behind` is history: the snippets whose
sentences another snippet changed after them, and the sentences over whose change the dialog was opened
again. One dialog with every sentence stands for those of the single topics, and one list of snippets for
that of a mind map's node or of a chosen cluster; to choose another one loads it from the server.

### Chat

A conversation is its messages and title. A click starts a job, which is the chain of requests of its
handler: a message is a read of the conversation, the title if it is the first, an append of the
question, the model, an append of the answer, then a fetch of the conversation. Jobs of several tabs
interleave, requests are served and answered in any order and may fail. `active` is the panel's copy
(state of React), `storeActive` that of `ChatStorage`; they meet in the events `CHAT_UPDATED` and
`CHAT_LIST_UPDATED`. `copy` is what a handler or page has read and not used yet.

### BatchTask

`batch` is the field of the task that carries the work from one run of the handler to the next;
`mine` a worker's copy of it, which replaces the whole field at each write. The claim is given back
before the handler runs, so two workers may have one state. A run submits (for the posts that have
room, the others are `pending`), or polls, or fetches the raw result, or processes it (save the
groupings, mark and unlock, store the next state, delete the raw document), or handles a batch that
failed; all but the last of a batch return `False`, which the loop counts as a failure. The provider completes a batch, or denies it in one of three
ways. `lock` is the set of posts locked by one update, because these become stale together.

## 3. The runs

| Run | Question | Bounds |
| --- | --- | --- |
| `task_state` | do dual-written fields agree, leases exclude and end, budgets last, and tasks parked under a worker stay parked, and does it implement `LeaseLock`? | 2 workers, 1 client, a merge task and a mark task, clock to 2, leases of 0 and 1, 2 attempts |
| `no_double_run` | *expected violation*: pause and resume of a running task | 2 workers, one task |
| `task_queue` | is no item orphaned, do item locks exclude, are items counted once, is every item done and does every task end, or is a task of the chain parked? | chain of 5 types, 4 items; scenes: 1 worker, 2 faults, slow handlers; 2 workers, no faults; 1 worker, a fault, a failing enqueue and a task the user adds |
| `item_claims` | do claims exclude, is an item marked only if its grouping is there, is a late result refused, does the task outlive its items, is every item done? | scenes: 2 external workers and the program's own, 2 items, 2 faults; 2 external workers, 1 item, 2 clean-ups, 2 faults |
| `topic_merge` | do aliases stay rooted, does a marked document resolve, does what resolves go on to, is every document marked that is pending while there is a task? | 2 documents, 4 labels, 4 groupings of up to 3 levels, 2 saves or deletions, 1 fault |
| `raw_download` | does the cursor never pass a hole, are posts stored once, are converted messages there, do downloads complete? | 1 chat, 2 messages, pages of 2, 2 downloads, 1 fault, 1 error |
| `raw_skips` | *expected violation*: a request that fails for good | 1 chat, 2 messages, 1 download |
| `anthology` | is what is in progress in a worker's hands, does a result learn of later saves, does the page follow the document to its end? | 2 workers, 1 document, 2 runs, 1 save, 1 load, 1 retry, 2 answers in flight, 1 fault |
| `read_pages` | do counter, posts and sentences agree, and the pages with them? | 2 posts with 2 and 1 sentences, 2 requests, 1 fault; each of 7 pages alone, and 2 pairs; 4 snippets, of which two have the same sentences and share one with a third |
| `chat` | do conversations only grow, is what is shown how they begin, and a fork what was clicked? | 2 tabs, 3 conversations, 3 jobs (2 at a time), 3 messages, 1 fault |
| `batch_task` | has what is marked its grouping, is the state that of one batch, are answers kept, paid for once, and every post grouped? | 2 posts, room for 1 in a batch, 3 attempts; scenes: 1 worker, a fault, a denial, 2 resumes; 1 worker, a post without text, a fault, a resume; 2 workers without faults |
| `batch_budget` | *expected violation*: a slow batch uses up the failure budget | 1 worker, no faults |

Why these bounds are enough for what they ask: two workers are the smallest number that can
interfere, and the properties relate two at a time; a worker that outlived its lease, the one that
took over, and the client are three actors on one document. Clock 2 with leases of 0 and 1 lets a
lease be claimed, end, be claimed again by the other worker, and be renewed late by the first. Two items with a batch of one give a batch
that leaves work behind. Three levels give redirects something below
them, and a rewrite that collides with something that has more below it. Two messages with pages of
one or two give chats of several pages, pages that contain stored messages, and messages that arrive
during paging. Two runs of an anthology are a run and its retry; a page with two answers in flight
is the first that can apply them against each other. A post with two sentences is the smallest that
can be half read, and two requests the fewest that mix posts and sentences. A job of each of two
tabs and a third after them see every order of two writers on a conversation. Two posts with room
for one in a batch give a state with posts that are pending, and a second batch. One or two faults
are enough to interrupt a run and its successor's clean-up, and without the bound nothing would ever
complete. Deadlock is not checked: all of these systems may come to rest when the clock, the faults
and the work are used up.

`MCAnthology` splits the initial states in two, with and without a page, because a page and a crash
together exceed what can be searched in minutes (`AnthologyProofs` has them together). Each module has a type invariant; a run checks it
for `TaskState`, and it is proved for all of them.

### What the expected violations show

- `no_double_run`: `resume` says that running tasks are untouched "to prevent double-runs". It looks
  at the status; a `pause` in between has already turned `running` into `paused`, so the pair makes
  a running task pending.
- `raw_skips`: `download_raw` takes a failed request for the top of the history. The cursor passes
  messages that were never fetched, and no later run asks for them.
- `batch_budget`: `finish_task` says that "Intermittent failures during a long batch run must not
  accumulate toward the dead-letter threshold". The handler of a batch that is not ready returns
  `False`, which is counted as a failure, and `finish_task` is not reached before the last batch is
  over. Submitting, one poll and one look that comes too soon make three failures: the task is dead.

### What is known not to hold

These are consequences of the code as it is, met while modelling; the properties that hold are stated
so that they exclude them, and say how. They are not runs of their own, but each can be seen by
dropping the condition named.

- `TaskState`: `_refresh_claim` of the topic merge writes `processing` by `_id` alone. When the task was
  paused, enqueued again, given back or declared dead while the merge runs, its document has the time stamp of a running
  task and another status: the status page shows it at work (`DualWriteAgrees` allows this for
  merges, and nothing else). A paused or dead successor is made pending when a worker that finishes its
  predecessor enqueues it (`LateUpdatesNeverUnpark` is about the operations on a worker's own task).
- `TaskQueue`: `enqueue` leaves a running task alone. With two downloads and two workers, the worker
  of the next task may have counted nothing left and be about to delete it: the new items have no
  task until something else enqueues that type. And `enqueue` may reset a task that was claimed since it looked; with two
  workers the same posts are then tagged twice and `make_tags` increments the counters twice. It
  needs a task that is added twice, by two downloads, by a task that runs again (after a fault, or
  because a slow handler outlived its lease), or by the user. (`Orderly` excludes these for two workers; see `TaskQueueProofs`.)
- `ItemClaims`: the program's own worker marks a post without looking at its lock, so that it may
  mark one whose grouping a clean-up has deleted. (The scene with clean-ups has external workers only.)
- `TopicMerge`: `redirect_canonical` leaves an id that it cannot rewrite because the winner has an
  alias of that label already, with a warning. When the winner's leads elsewhere, whatever is below
  the loser's is rewritten without it: the labels below are stranded, and a document that was marked
  no longer resolves (`Splits`; `StaysResolved` excludes it). It takes three levels; with groupings of
  two, everything that was marked goes on resolving. A save that read the clock before the run
  started, and ended after it had collected, is marked with the paths the run knew.
- `MergeTask`: the task is deleted when a count finds no pending document, and only the end of a
  `POST_GROUPING` task that was not added by hand, or a user, enqueues it again. A grouping saved by the batch
  task or by a manual task has no task unless somebody adds one; one saved between the last count and the
  deletion loses the task that was there (its `enqueue` left a running task alone). Such documents stay pending
  without a task; `EveryDocMerged` is about those that have one, and allows the second case.
- `Anthology`: a save that falls between the agent's reading and `update_result` goes unnoticed
  (`FreshResult` fails; `LaterSaveIsKnown` is what is left of it). Of two answers in flight the
  later one may show progress on a page that has stopped polling (`PollsInProgress` fails;
  `PollsUncrowded` is what is left). A worker that dies leaves its document in progress for good.
  An exception of the agent outside its `try` leaves the run's record in `processing` for good, with its
  document failed (`ProcessingIsHeld` excepts these runs, and no document).
- `ReadState`: two overlapping requests about one post count it twice, and of two lists of sentences
  that are written back one is lost. The grouped page does not learn that a post became read with its
  last sentence. (`Undisturbed`, and the exception in `PageAgrees`.)
- `ReadPages`: with one page and no fault, the Original dialog opened again shows a sentence as it was when
  the hierarchy was loaded, whatever was marked since. On the pages of snippets, one that shares a
  sentence with another shows its old state when the other is marked; on the snippets page this is so even for
  one with the same sentences, since both have one id and the first is changed. `PageAgrees` excepts both by `behind`,
  and claims the rest: what is excepted is right again once it is marked itself.
- `Chat`: a chat deleted in the panel stays in `ChatStorage`, and the next event of the storage shows
  it again. `CHAT_UPDATED` always carries `activeChat` without `isOpen`, so the panel never
  takes `isOpen` from it, and opening the panel by the button replaces its chat by the storage's. The
  title made from the first message overwrites one the user gave in between. When the model fails,
  the question stays without an answer.
- `BatchTask`: a completed batch deletes the task although posts of a denied batch, or under locks of
  a run that stopped, are not grouped; they wait until the task is added again (`EveryPostGrouped`
  excludes denials; locks age and another claim finds the posts only while the task lives). Two
  workers may submit the same posts (`PaidOnce` is about one), and a crash between `create_batch` and
  the note of it pays twice (it allows one per fault). The result of `save_grouped_posts` is not
  looked at: the post is marked (`unsaved`). With posts without text alone, each claim unlocks what it
  locked, and the task neither fails nor ends.

### Fairness

Only liveness properties use it. Worker processes and the dispatcher loop run for ever, so a step
that stays possible is taken (weak fairness of a worker's steps). The sample of a claim is random, so
a task that is claimable again and again is picked at some time (strong fairness of a claim per
type). Leases, backoffs and locks run out because time passes (weak fairness). The interval of a page
ticks, and requests are served and answered (weak fairness of the polls, the server and the first
answer in flight). A provider keeps to its completion window (weak fairness of `Complete`). Nothing is
assumed about users, faults, messages that arrive, or saves. A handler that does not fail ends. A merge task that is there is claimed, run, counted and deleted (weak fairness of its worker); nothing makes anybody
enqueue one, and no run is started without it. In `RawDownload` a run that stopped is started again, which is what `TaskState` (lease
ends) and `TaskQueue` show; one that was parked by an exception is not, and the properties say so.

## 4. What is proved

`TaskStateProofs`, for every set of documents, keys, workers and clients, every
lease, retry budget and backoff (the assumptions are the `ASSUME`s of `TaskDoc` and `TaskState`: times
and budgets are naturals, the budget is not 0, the names that stand for "none" are not names of
something):

| Theorem | Statement |
| --- | --- |
| `TypeCorrect` | `Spec => []TypeOK` |
| `DualWrite` | `Spec => []DualWriteAgrees` |
| `LeasesEnd` | `Spec => []RunningExpires` |
| `BudgetKept` | `Spec => []BudgetLeft` |
| `LeasesExclude` | `Spec => []LeaseExclusion` |
| `NoUnpark` | `Spec => LateUpdatesNeverUnpark` |
| `ClaimsAreFresh` | `Spec => ClaimsOnlyClaimable` |
| `Implements` | `Spec => ImplementsLeases` (`TaskState` implements `LeaseLock`) |
| `LeaseExcludes` | `LL!Spec => []LL!Exclusion` |

The argument has three layers, each inductive given the ones before.

1. `TInv` is `TypeOK` with `Bindings`: what a worker's place says about its local copies (a
   worker in `handling` has a document of its own, one in `idle` has none). `UpdatesTyped` does the
   documents, `TInvStep` the actions.
2. `DInv` is about each document and each copy of one: the dual-written fields agree, a running
   document has a lease whose end is bounded by the clock, and every living document has retries
   left. The fields agree for each document by itself (`Fits`), with the exception for merges. `BudgetLeft` is not inductive alone: `fail` computes from the worker's copy, so the copies
   have to be bounded too. The lemmas `UpdatesAgree`, `UpdatesExpire`, `UpdatesBudget` say it for
   one update; `DInvStep` needs one case per action.
3. `CInv` is `LeaseExclusion` with `Covered`: while a claim is unrevoked and its lease has not
   ended, the document is running and its lease lasts at least as long as the worker believes. This
   is what makes exclusion inductive: a second claim needs a document that is not running or whose
   lease is over, and `Covered` says that then no live claim is left. Every operation that breaks it
   (release, fail, pause, enqueue, complete) is one that revokes the claims of the document;
   `RevokeCovered` and `LeaveCovered` are these two cases.

`Implements` maps each action, under `TInv` and `CInv`, to a step of `LeaseLock` (`StepRefines`):
a successful claim acquires, a renewal of a running document renews, a worker that leaves drops, every update
that revokes revokes, a tick passes.

`TaskQueueProofs`, for every chain of tasks without a circle (`ChainAssumption`, which also says that a
download brings work for tasks that come after it), any items, workers and size of a batch, and any
scenes that are orderly (`ScenesOrderly`, which `TypeCorrect` does without):

| Theorem | Statement |
| --- | --- |
| `TypeCorrect` | `Spec => []TypeOK` |
| `NothingOrphaned` | `ScenesOrderly` implies `Spec => []NoOrphans` |
| `ItemsExclude` | `ScenesOrderly` implies `Spec => []ItemExclusion` |
| `CountedOnce` | `ScenesOrderly` implies `Spec => []NoDoubleCount` |

`Orderly` says of a scene that it has one worker, with any number of faults, failing enqueues and
added tasks and handlers as slow as they like, on any chain; or any number of workers without these, on
`OneChain`: one download, and no task that follows two others. The code's `_tasks_after` is such
a chain (each type is listed after one other at most, and there is no circle). `MCTaskQueue` assumes
that its scenes are orderly, and TLC evaluates that. For two workers most of this cannot be had for less:
with one fault, or slow handlers, TLC finds each of the three violated within some thousand states, and
with a task added by the user `ItemExclusion`, as described above. A failing enqueue is excluded because a task whose
second successor cannot be added is run again, and adds the first one once more.

1. `TInv`: `TypeOK`; `Bindings`, what a worker's place says about its copies; `NoHand`, a task is `manual` only
   once somebody added one.
2. `EInv`, for several workers. `Held`: the worker under its claim has the task for itself. It is not
   inductive alone, since `enqueue` resets a document that was claimed after it looked. So nothing may be added to the chain
   twice: `Forward` says that when a task is there, everything upstream of it has gone, or is with a worker
   that is about to delete it and has nothing left to add on the way to it (`Spent`). A worker that adds `s`
   after `p` finds that nothing downstream of `p` is there (`NotYet`); that what leads to `s` leads
   to `p` is `OneBefore`, a fact about the chain: `Upstream` is a least set, so it is used by giving a
   set that is closed (`UpClosed`, `UpGoesOn`, `UpOn`).
3. `XInv`: batches of posts do not overlap (`Apart`) and are locked from the update on
   (`BatchLocked`). Between find and update no other worker is at the same task (`Held`); after the claim went back, the
   locks protect the batch, since they do not age while a worker without slow handlers has it.
4. `NInv`: a post that is not done has not been counted, nor has a post of a batch that is still to be counted
   (`Once`, `Uncounted`). With `Apart`, no two workers count one post; for one worker, a batch that was
   tagged and interrupted before `$inc` is done and not found again.
5. `OInv`: a post that waits has a task on its line that is there and not `Spent` (`Kept`). What a download brings is kept by
   the download itself (`KeptBrought`), a task that goes leaves its successor behind (`KeptNext`), and a
   task is only deleted when nothing is left for it (`KeptWork`). A worker without company keeps its document
   until it is done with it (`Mine`); with company `EInv` says the same.

`BatchTaskProofs`, for every set of posts, batches, raw results and workers, every room in a batch
and every scene, so for any number of faults, denials and resumes:

| Theorem | Statement |
| --- | --- |
| `TypeCorrect` | `Spec => []TypeOK` |
| `OneBatch` | `Spec => []StateOfOneBatch` |
| `GroupingsExist` | `Spec => []GroupedHasGrouping` |
| `AnswersAreKept` | `Spec => AnswersKept` |
| `PostsPaidOnce` | `Spec => []PaidOnce` |

Again in layers.

1. `AllFit`: not only the stored state but every worker's copy is that of one batch (`Fits`: the posts
   named are those the batch was submitted for, the raw result is that batch's or gone). The stored
   state alone is not inductive, because any copy may be written back. `StillFits` says what a state
   needs to fit after a step, `StatesStillFit` that a new batch or raw result disturbs no old state:
   ids are not used twice.
2. `HandlerInv`: raw results are of batches that are over (`RawIsOver`), whose answers never change; and
   `InHand` says for each place of the handler which batch it has read and what is saved by then, and
   that in `finishing` no post is left in the task's data that `FinishRest` would mark without a grouping.
   `GroupedHasGrouping` follows, action by action.
3. `SettleInv`: answers are to what was submitted, and at `settling` and `dropping` all of them are
   marked (`Settles`); with `AllFit` the document that `DropRaw` deletes is the one whose answers
   those are.
4. `LoneInv` is for `PaidOnce`, which is about one worker and counts the batches a post was submitted
   in. While a worker is alone, the state in its hand is the stored one, or the one it is about to
   store (`InStep`, `Ahead`), so there is one batch that the task knows of (`Noted`). All others a post
   that is not marked was submitted in were lost between `create_batch` and the note of it, one for
   each fault (`Spent`; `SpentKept` and `SpentFault` are the two ways it is kept).

`RawDownloadProofs`, for any number of chats, messages, downloaders, faults and errors, and any size
of a page and a batch (`SizesAssumption`: naturals, a page and a batch not empty):

| Theorem | Statement |
| --- | --- |
| `TypeCorrect` | `Spec => []TypeOK` |
| `NoHole` | `Spec => []NoHoleBelowCursor` |
| `PostsOnce` | `Spec => []NoDuplicatePost` |
| `ConvertedHavePosts` | `Spec => []ConvertedKept` |

1. The types include that a page ends at its least message and `running_max` is the greatest number of
   what it is made from (`PagesTyped`, `HighestTyped`): both are CHOOSEs, so the lemmas `Least` and
   `Greatest` give them what they choose.
2. `DInv`: while no request failed for good, not only the cursors but the cursors every downloader has
   read have no hole below, and `Covers` says what a downloader has archived at its place: the interval
   from the last message it saw to the highest, the page itself while it is stored, and at `done`
   everything up to its `top`. A page that ends above the cursor continues the interval
   (`PageCovers`); one that contains a message at the cursor closes it. Overlapping downloads need
   nothing more, because the archive only grows (`CoversKept`).
3. `CInv`: between its two writes, each message of the conversion's batch has its post, or is among
   the posts it is about to store, which nobody else stores.

`ItemClaimsProofs`, for any number of items, external workers and tokens, and any scenes, so any
number of faults and clean-ups (`StampsAssumption`: there is always a time that no lock and no request
has; the code's stamps are the clock):

| Theorem | Statement |
| --- | --- |
| `TypeCorrect` | `Spec => []TypeOK` |
| `MarkedIsSaved` | `Spec => []DoneSaved` |
| `ClaimsAreExclusive` | `OneTokenEach` implies `Spec => []ClaimsExclude` |
| `LateIsRejected` | `OneTokenEach` implies `Spec => LateResultRejected` |
| `TaskIsLast` | `Spec => []TaskOutlivesItems` |

1. `SInv`: a thread that has saved and whose stamp is still on the lock has a grouping that no
   clean-up deleted: a clean-up resets the lock. For the program's worker, which looks at no lock,
   it holds only without clean-ups (`Exact`).
2. `EInv`: `ClaimsExclude` is not inductive, because an older request may still unlock an item. `Held`
   is what protects the claim: the item is done, or it is locked with the claim's token and no
   request that is under way has its stamp.
3. `LastToken`: the token of an item is that of its last claim. `OInv`: whoever is about to delete the
   task has seen nothing pending, and only a clean-up makes something pending again.

`OneTokenEach` says that no two workers share a token. Two processes that the user starts with one
token are one worker to the server, and the two theorems do not hold of them; the instance TLC checks
has a token for each too.

`AnthologyProofs`, for any number of workers, documents, runs, saves, loads, retries, answers in flight
and faults (`BoundsAssumption`: they are naturals), and with page and crashes together:

| Theorem | Statement |
| --- | --- |
| `TypeCorrect` | `Spec => []TypeOK` |
| `InProgressIsHeld` | `Spec => []ProcessingIsHeld` |
| `SavesAreKnown` | `Spec => []LaterSaveIsKnown` |
| `PageKeepsPolling` | `Spec => []PollsUncrowded` |

1. `HInv`: a worker that has stored its result or whose run has failed still counts as one that holds
   (`Holds`), but it is no longer the one that takes the document, or the run, out of `processing`.
   `Builds` and `InRun` say who is: with them each step of a worker either ends what is in progress or
   leaves it to the worker that had it (`HInvWorker`), even of two workers on one document. A run that
   is left is nobody's, and keeps its document and its status (`LeaveTyped`).
2. `LInv`: `LaterSaveIsKnown`, and a document in progress has no result, because only a retry makes it
   pending again and clears it.
3. `PInv`: a page whose requests never overlapped has one under way at most; the page polled when it asked
   for the status, and a document whose result is marked as read was over at both of the server's
   looks, by `LInv`.

`TopicMergeProofs`, for any documents, labels, spellings and groupings of any number of levels, any
size of a chunk, any answers of the model, and any number of saves and faults (`LabelsAssumption`: a
normal form is a label, paths are not empty; labels are numbers because an anchor is the least of
its group):

| Theorem | Statement |
| --- | --- |
| `TypeCorrect` | `Spec => []TypeOK` |
| `AliasesRooted` | `Spec => []WellRooted` |
| `MarksAreResolved` | `Spec => MarksResolved` |
| `MarksLast` | `Spec => StaysResolved` |
| `TaskRunsMerges` | `TaskSpec => Spec` (the four above hold of `MergeTask` too) |
| `TaskTypeCorrect` | `TaskSpec => []TaskTypeOK` |

The invariant `MInv` has three parts.

1. `TInv`: `TypeOK`; `Shape`, the variables of the bucket hold ids one label below the bucket's parent,
   and its redirects go between two of them; `Levels`, the id of a path is of the level before
   while the path's bucket is left, and of this one afterwards; `Coverage`, each label of the bucket has an id,
   follows one that will, or is to be asked about. `Coverage` is what makes `CloseBucket` a function:
   whatever the model answers, no label is without an id.
2. `WellRooted` itself. `AddsRooted` is for the aliases that a bucket writes; for a redirect, `MoveFacts` and
   `MovePoints` say that key and value of an alias move together, so an id stays one label below its
   parent half-way through `redirect_canonical` too.
3. `InMemory`: the id a path has so far is led to by aliases that are stored (`Leads`), and what the
   bucket holds is stored or is what the redirects under way will make of it (`Now`). A loser is never
   a winner, so one correction is enough. That is why, when a bucket closes, a path goes one label on
   (`LeadsFurther`), and why what is marked resolves: `Leads` of a whole path is `Resolves`
   (`LeadsResolves`).

There is one lemma for each action (`StartHeld` ... `MarkHeld`). A redirect is in a bucket of one level,
and the ids of the paths are of that level or the one before, so it does not touch them (`PlaceKept`).
`MarksLast` is about every id that resolved, also those of documents the run does not have:
`RedirectTakes` says that a redirect that does not split takes each alias along, with its value when
there is something below it, and `RedirectResolves` follows a path through it. The lemmas on ids
(`PrefixPoints` to `RewriteLeaves`) are about sequences label by label.

`PagesProofs`, first part (`ReadState` and `ReadPages`), for every finite set of posts with any sentences (each post has one), any topics, any
pages of the seven kinds, and any number of requests and faults:

| Theorem | Statement |
| --- | --- |
| `TypeCorrect` | `Spec => []TypeOK` |
| `CounterIsExact` | `Spec => []CounterExact` |
| `ReadRollsUp` | `Spec => []PostsRollUp` |
| `PagesAgree` | `Spec => []PageAgrees` |

1. `TInv`: `TypeOK`, and `Shape` says what a request's place says about its fields: which posts are left,
   which one is in hand, and that each kind of page makes its own kind of request.
2. `RInv`: the two properties are about moments when no request is under way, so the invariant has to say
   what is true in between. As long as no fault came and no requests about one post met
   (`Undisturbed`), requests are about disjoint posts; each request is right about what it has read
   (`Right`); a post agrees with its sentences unless a request has written one of the two only
   (`Midway`); and the counter is that of the posts that are unread, or were until a change that is
   `Uncounted`. Another request's step keeps `Right`, because it writes to other posts.
3. `PInv`: a page that is alone shows what is stored, but for the posts and sentences of its own requests
   (`Moved`, `Asked`), which the answer makes good, and for what is `behind`. It needs every kind of page
   to change only what it sent (`Shape`, `ChangedMeans`: the snippets changed have no sentence that was not
   in the request). Of the dialog it says too that a request whose button is gone is about sentences that are
   `behind` (`DialogAgrees`), because its answer changes nothing that is shown; of a snippet, that it is
   behind, or has a sentence in a request, or is right (`SnippetsAgree`).

`PagesProofs`, second part (`Chat`), for any number of tabs, conversations, questions, jobs and failures
(`ChatAssumption`: the conversations at the start are typed and no more than the bound). `Chat` and
`ReadPages` are two pages of one browser and share no variable; the module extends both, so the names in
`Chat` that would clash carry the chat's name:

| Theorem | Statement |
| --- | --- |
| `ChatTypeCorrect` | `ChatSpec => []ChatTypeOK` |
| `ShowsWhatIsStored` | `ChatSpec => []ShownIsStored` |
| `ForksAsSeen` | `ChatSpec => ForkAsSeen` |
| `HistoryIsKept` | `ChatSpec => HistoryKept` |

All four rest on one invariant, `ChatTInv`: every copy of a conversation, in panels, storages and requests that
are on their way, is the beginning of the conversation whose id it has (`CopyOf`), and what a job's place
says about its copy (`JobOK`). It is inductive because conversations only grow, whoever writes
(`Grown`; `ServeGrows` for the requests): a copy that was a beginning stays one (`OfGoesOn`), so the jobs and tabs that
a step does not touch need nothing further (`JobKept`). A fork is cut where the tab saw it
(`ForkedAsSeen`), which is a place that the stored conversation still has.

Proving found three things that TLC did not. In `ReadPages` the cases of `Accepted`, and in `BatchTask`
those of `LoadRaw`, overlapped, so that their value was not determined (TLC takes the first); they are
now disjoint. And an earlier form of `StaysResolved` said that marked documents go on to resolve
without regard to collisions: its proof failed for redirects, and an instance with three levels
instead of two has the counterexample.

Every safety property and every action property of the runs has its theorem. Only model-checked:

- All of liveness (`EveryItemDone`, `EveryTaskEnds` and their like in the other modules): fairness and
  ENABLED are not in the prover's reach.
- The three expected violations, which are behaviours and not theorems.

## 5. What is not modelled, and why

- Rendering, routing, query building, observability: no protocol.
- The values of tags, ranks, groupings, sentences: properties do not tell them apart.
- Documents of several users: every query names one owner.
- Reads from secondaries, write concerns: the program uses the defaults of a single server.
- `scope.force`, narrower scopes, overlapping runs in `TopicMerge`; feeds, prune, direct download and
  two conversions at a time in `RawDownload`.
- Batches that classify tags (they share the provider and the storage of states with `BatchTask`; a
  batch that failed keeps its id and its posts); chunks of one post that are answered in part.
- What an anthology's agent asks and its tree; the choice between several pending anthologies.
- The tag's, bi-gram's and letter's own counters (one stands for them), and the documents that tell a
  provider what is read. `change_status` of whole tags.
- The chat of a post page, contexts of chats, the methods of `ChatStorage` that no page calls.
- Most of the front end draws charts and pages. More than two thirds of the JavaScript
  (`static/vis-dist/vis.js`) is a vendored library; of the rest, the models have what keeps state between two requests.
- The components with status `not_modelled` in `PROJECT.json`, with a reason each.

## 6. Plan

Done: `TaskDoc`, `LeaseLock`, `TaskState`, `ItemClaims`, `TopicMerge`, `MergeTask`, `RawDownload`, `Anthology`, `ReadState`,
`ReadPages`, `Chat`, `BatchTask` and `TaskQueue`, each with proofs. Next:

1. `WorkerPool`: commands, processes, heartbeats.
2. `EventBus`: bind, unbind and trigger with handlers that do either.
3. `RawDownload` with prune and with the direct download; batches that classify tags in `BatchTask`.
4. Pure algorithms: the prefix tree and the cutting of posts into ranges against reference definitions.

The project keeps a dozen runs, so that all of them are run together after every change: a new question
joins the run of its module as a scene, or takes the place of one that says less.

## 7. Running

    tlc -workers 2 -config TaskState.cfg MCTaskState
    tlapm TaskStateProofs.tla

The runs and their configurations are listed in `PROJECT.json` under `runs`; under `mutants` there is, for
every property, a plausible bug in a definition that makes TLC report that property. Operators of
that kind have a comment that begins with "mutant" and are used by nothing else. Each run takes
between a few seconds and two minutes with two workers.
