---------------------------- MODULE RawDownload ----------------------------
(***************************************************************************)
(* The archive of a user's Telegram chats and its conversion into posts:     *)
(*  - handle_raw_download reads the cursors, pages through each chat from the *)
(*    newest message down to the cursor, stores each page in raw_posts, and   *)
(*    moves the cursor of a chat when the provider says that it is done;       *)
(*  - handle_raw_to_posts takes the documents that are not marked, stores     *)
(*    their posts, and marks them, batch by batch.                             *)
(* Runs fail or crash and are started again.  A download may take longer than *)
(* its lease, which nobody renews: two of them overlap.  Meanwhile messages    *)
(* arrive.  The messages of a chat are numbered from 1.                        *)
(***************************************************************************)
EXTENDS Naturals, FiniteSets

CONSTANTS
  Chats,
  Downloaders,      \* workers that may download
  Hidden,           \* messages <<chat, number>> that raw_messages_to_posts drops
  PageSize,         \* bound: messages of a page
  BatchSize,        \* batch_size of the conversion
  MaxMessages,      \* bound: messages of a chat
  MaxFaults,        \* bound: runs that fail or crash
  MaxErrors         \* bound: requests that __requests_repeater gives up

ASSUME SizesAssumption ==
  /\ PageSize \in Nat \ {0} /\ BatchSize \in Nat \ {0}
  /\ {MaxMessages, MaxFaults, MaxErrors} \subseteq Nat

VARIABLES
  newest,           \* the number of each chat's newest message
  raw,              \* raw_posts: {<<chat, number>>}
  converted,        \* those marked posts_converted
  posts,            \* how many posts there are of a message
  cursor,           \* raw_download_state
  pc,               \* where each downloader is
  snap,             \* `cursors`: what it read of raw_download_state
  left,             \* the chats it has yet to look at
  chat,             \* the chat at hand
  from,             \* from_id: the last message of the page before
  page,             \* the new messages of the page
  last,             \* is it the chat's last page?
  top,              \* running_max
  conv,             \* where the conversion is
  batch,            \* raw_docs
  missing,          \* n_posts: those without a post
  faults, errors

downVars == <<pc, snap, left, chat, from, page, last, top>>
convVars == <<conv, batch, missing>>
bounds == <<faults, errors>>
vars == <<newest, raw, converted, posts, cursor, pc, snap, left, chat, from, page, last,
          top, conv, batch, missing, faults, errors>>

NoChat == "no chat"
Messages == Chats \X (1..MaxMessages)

TypeOK ==
  /\ newest \in [Chats -> 0..MaxMessages]
  /\ raw \subseteq Messages /\ converted \subseteq raw
  /\ posts \in [Messages -> Nat]
  /\ cursor \in [Chats -> 0..MaxMessages]
  /\ pc \in [Downloaders -> 
              {"idle", "dead", "started", "chats", "paging", "storing", "done"}]
  /\ snap \in [Downloaders -> [Chats -> 0..MaxMessages]]
  /\ left \in [Downloaders -> SUBSET Chats]
  /\ chat \in [Downloaders -> Chats \cup {NoChat}]
  /\ from \in [Downloaders -> 0..MaxMessages]
  /\ page \in [Downloaders -> SUBSET (1..MaxMessages)]
  /\ last \in [Downloaders -> BOOLEAN]
  /\ top \in [Downloaders -> 0..MaxMessages]
  /\ conv \in {"idle", "dead", "started", "more", "storing", "stored"}
  /\ batch \subseteq raw /\ Cardinality(batch) <= BatchSize
  /\ missing \subseteq batch
  /\ faults \in 0..MaxFaults /\ errors \in 0..MaxErrors

Init ==
  /\ newest = [c \in Chats |-> 0]
  /\ raw = {} /\ converted = {} /\ posts = [m \in Messages |-> 0]
  /\ cursor = [c \in Chats |-> 0]
  /\ pc = [w \in Downloaders |-> "idle"]
  /\ snap = [w \in Downloaders |-> [c \in Chats |-> 0]]
  /\ left = [w \in Downloaders |-> {}]
  /\ chat = [w \in Downloaders |-> NoChat]
  /\ from = [w \in Downloaders |-> 0]
  /\ page = [w \in Downloaders |-> {}]
  /\ last = [w \in Downloaders |-> FALSE]
  /\ top = [w \in Downloaders |-> 0]
  /\ conv = "idle" /\ batch = {} /\ missing = {}
  /\ faults = 0 /\ errors = 0

Fault == faults < MaxFaults /\ faults' = faults + 1 /\ UNCHANGED errors
Error == errors < MaxErrors /\ errors' = errors + 1 /\ UNCHANGED faults
-----------------------------------------------------------------------------
(* Telegram *)

Arrive(c) ==
  /\ newest[c] < MaxMessages
  /\ newest' = [newest EXCEPT ![c] = @ + 1]
  /\ UNCHANGED <<raw, converted, posts, cursor, downVars, convVars, bounds>>

\* getChatHistory: the messages below from_message_id, or the newest ones if that
\* is 0, without a gap, and maybe fewer than asked for.
Below(w) == IF from[w] = 0 THEN 1..newest[chat[w]] ELSE 1..(from[w] - 1)

Histories(w) ==
  {P \in SUBSET Below(w) :
     /\ Cardinality(P) <= PageSize
     /\ P = {} <=> Below(w) = {}
     /\ \A m \in P, n \in Below(w) \ P : n < m}
-----------------------------------------------------------------------------
(* handle_raw_download with download_raw *)

\* The worker's copies of the run; those not given are left at rest.
Run(w, place, chats, c, f, t) ==
  /\ pc' = [pc EXCEPT ![w] = place]
  /\ left' = [left EXCEPT ![w] = chats]
  /\ chat' = [chat EXCEPT ![w] = c]
  /\ from' = [from EXCEPT ![w] = f]
  /\ top' = [top EXCEPT ![w] = t]

ForgetPage(w) == page' = [page EXCEPT ![w] = {}] /\ last' = [last EXCEPT ![w] = FALSE]

LeaveRun(w, place) ==
  /\ Run(w, place, {}, NoChat, 0, 0)
  /\ snap' = [snap EXCEPT ![w] = [c \in Chats |-> 0]]
  /\ ForgetPage(w)

\* The user asks for a download; the task of one that failed comes back to life.
StartDownload(w) ==
  /\ pc[w] \in {"idle", "dead"}
  /\ pc' = [pc EXCEPT ![w] = "started"]
  /\ UNCHANGED <<newest, raw, converted, posts, cursor, snap, left, chat, from, page, last, top,
                 convVars, bounds>>

ReadCursors(w) ==
  /\ pc[w] = "started"
  /\ snap' = [snap EXCEPT ![w] = cursor]
  /\ Run(w, "chats", Chats, NoChat, 0, 0)
  /\ UNCHANGED <<newest, raw, converted, posts, cursor, page, last, convVars, bounds>>

OpenChat(w, c) ==
  /\ pc[w] = "chats" /\ c \in left[w]
  /\ Run(w, "paging", left[w] \ {c}, c, 0, snap[w][c])
  /\ UNCHANGED <<newest, raw, converted, posts, cursor, snap, page, last, convVars, bounds>>

\* No chat details: the chat is left out.
SkipChat(w, c) ==
  /\ pc[w] = "chats" /\ c \in left[w]
  /\ Error
  /\ left' = [left EXCEPT ![w] = @ \ {c}]
  /\ UNCHANGED <<newest, raw, converted, posts, cursor, pc, snap, chat, from, page, last, top,
                 convVars>>

NoMoreChats(w) ==
  /\ pc[w] = "chats" /\ left[w] = {}
  /\ LeaveRun(w, "idle")
  /\ UNCHANGED <<newest, raw, converted, posts, cursor, convVars, bounds>>

\* mutant: each request asks for the newest messages
NextFromNewest(w, P) == 0

\* messages[-1]["id"]
NextFrom(w, P) == CHOOSE m \in P : \A n \in P : m <= n

\* A page: what is above the cursor is new, and the first message that is not
\* ends the chat.
FetchPage(w) ==
  /\ pc[w] = "paging"
  /\ \E P \in Histories(w) \ {{}} :
       LET new == {m \in P : m > snap[w][chat[w]]}
           reached == new # P
       IN  /\ Run(w, IF new # {} THEN "storing" ELSE "done", left[w], chat[w],
                  NextFrom(w, P), top[w])
           /\ page' = [page EXCEPT ![w] = new]
           /\ last' = [last EXCEPT ![w] = reached]
  /\ UNCHANGED <<newest, raw, converted, posts, cursor, snap, convVars, bounds>>

\* No messages: the top of the history is reached.
FetchNothing(w) ==
  /\ pc[w] = "paging" /\ Histories(w) = {{}}
  /\ pc' = [pc EXCEPT ![w] = "done"]
  /\ UNCHANGED <<newest, raw, converted, posts, cursor, snap, left, chat, from, page, last, top,
                 convVars, bounds>>

\* The request failed too often: no messages either.
FetchFails(w) ==
  /\ pc[w] = "paging"
  /\ Error
  /\ pc' = [pc EXCEPT ![w] = "done"]
  /\ UNCHANGED <<newest, raw, converted, posts, cursor, snap, left, chat, from, page, last, top,
                 convVars>>

Highest(w) == CHOOSE m \in page[w] \cup {top[w]} : \A n \in page[w] \cup {top[w]} : n <= m

\* mutant: the cursor moves with each page
CursorWithPage(w) == cursor' = [cursor EXCEPT ![chat[w]] = Highest(w)]

\* A page leaves the cursor where it is.
CursorKept(w) == UNCHANGED cursor

\* _insert_raw_posts: documents that are there already, or that another worker
\* inserts at the same time, are left alone.
StorePage(w) ==
  /\ pc[w] = "storing"
  /\ raw' = raw \cup ({chat[w]} \X page[w])
  /\ CursorKept(w)
  /\ Run(w, IF last[w] THEN "done" ELSE "paging", left[w], chat[w], from[w], Highest(w))
  /\ ForgetPage(w)
  /\ UNCHANGED <<newest, converted, posts, snap, convVars, bounds>>

\* chat_done
MoveCursor(w) ==
  /\ pc[w] = "done"
  /\ cursor' = [cursor EXCEPT ![chat[w]] = top[w]]
  /\ Run(w, "chats", left[w], NoChat, 0, 0)
  /\ ForgetPage(w)
  /\ UNCHANGED <<newest, raw, converted, posts, snap, convVars, bounds>>

\* _handle_provider_error parks the task of a run that fails; that of a crashed
\* worker is run again.
Ends == {"dead", "started"}

\* A part of the page may be stored.
FailDownload(w) ==
  /\ pc[w] \notin {"idle", "dead", "started"} /\ Fault
  /\ \E S \in SUBSET page[w] : raw' = raw \cup ({chat[w]} \X S)
  /\ \E place \in Ends : LeaveRun(w, place)
  /\ UNCHANGED <<newest, converted, posts, cursor, convVars>>
-----------------------------------------------------------------------------
(* handle_raw_to_posts *)

StartConversion ==
  /\ conv \in {"idle", "dead"} /\ raw # converted
  /\ conv' = "started"
  /\ UNCHANGED <<newest, raw, converted, posts, cursor, downVars, batch, missing, bounds>>

\* find({posts_converted: not there}).limit(batch_size)
Batches ==
  {B \in SUBSET (raw \ converted) :
     /\ Cardinality(B) <= BatchSize
     /\ B = raw \ converted \/ Cardinality(B) = BatchSize}

\* mutant: posts are not looked up
WithoutAny(B) == B \ Hidden

\* raw_messages_to_posts, and the pids that have no post yet.
Without(B) == {m \in B \ Hidden : posts[m] = 0}

\* mutant: the documents are marked before their posts are stored
FindAndMark ==
  /\ conv \in {"started", "more"}
  /\ batch' \in Batches /\ missing' = Without(batch')
  /\ conv' = IF batch' = {} THEN "idle" ELSE "storing"
  /\ converted' = converted \cup batch'
  /\ UNCHANGED <<newest, raw, posts, cursor, downVars, bounds>>

\* The documents of a batch and their posts are looked up; nothing else writes
\* either of them in between.
FindRaw ==
  /\ conv \in {"started", "more"}
  /\ batch' \in Batches /\ missing' = Without(batch')
  /\ conv' = IF batch' = {} THEN "idle" ELSE "storing"
  /\ UNCHANGED <<newest, raw, converted, posts, cursor, downVars, bounds>>

StorePosts ==
  /\ conv = "storing"
  /\ posts' = [m \in Messages |-> posts[m] + (IF m \in missing THEN 1 ELSE 0)]
  /\ missing' = {}
  /\ conv' = "stored"
  /\ UNCHANGED <<newest, raw, converted, cursor, downVars, batch, bounds>>

\* A batch that is not full is the last one.
More(B) == IF Cardinality(B) < BatchSize THEN "idle" ELSE "more"

MarkConverted ==
  /\ conv = "stored"
  /\ converted' = converted \cup batch
  /\ conv' = More(batch)
  /\ batch' = {}
  /\ UNCHANGED <<newest, raw, posts, cursor, downVars, missing, bounds>>

\* A part of the posts may be stored, or of the documents marked.
FailConversion ==
  /\ conv \notin {"idle", "dead", "started"} /\ Fault
  /\ \/ \E S \in SUBSET missing :
          posts' = [m \in Messages |-> posts[m] + (IF m \in S THEN 1 ELSE 0)]
          /\ UNCHANGED converted
     \/ conv = "stored" /\ UNCHANGED posts
          /\ \E S \in SUBSET batch : converted' = converted \cup S
  /\ conv' \in Ends /\ batch' = {} /\ missing' = {}
  /\ UNCHANGED <<newest, raw, cursor, downVars>>
-----------------------------------------------------------------------------
Download(w) ==
  \/ ReadCursors(w) \/ NoMoreChats(w) \/ FetchPage(w) \/ FetchNothing(w) \/ StorePage(w) \/ MoveCursor(w)
  \/ \E c \in Chats : OpenChat(w, c)

Convert == FindRaw \/ StorePosts \/ MarkConverted

Next ==
  \/ \E c \in Chats : Arrive(c)
  \/ \E w \in Downloaders :
       \/ StartDownload(w) \/ Download(w) \/ FetchFails(w) \/ FailDownload(w)
       \/ \E c \in Chats : SkipChat(w, c)
  \/ StartConversion \/ Convert \/ FailConversion

Spec == Init /\ [][Next]_vars

\* A run that does not fail goes on; one that crashed starts again (TaskState).
FairSpec ==
  /\ Spec
  /\ \A w \in Downloaders : WF_vars(Download(w))
  /\ WF_vars(Convert)
-----------------------------------------------------------------------------
\* The cursor is the claim that everything up to it is archived: new messages that
\* arrive while a chat is paged, interrupted runs and two runs with different
\* cursors never leave a hole below it, if no request fails for good.
NoHoleBelowCursor ==
  errors = 0 => \A c \in Chats : {c} \X (1..cursor[c]) \subseteq raw

\* handle_raw_download: "an interrupted run safely re-scans and dedupes instead of
\* skipping un-fetched older history", whatever interrupts it.
NothingSkipped == \A c \in Chats : {c} \X (1..cursor[c]) \subseteq raw

\* A conversion that was interrupted between its two writes looks the posts up
\* before it stores them again.
NoDuplicatePost == \A m \in Messages : posts[m] <= 1

\* What is marked as converted, and so never looked at again, has its post.
ConvertedKept == \A m \in converted \ Hidden : posts[m] > 0

\* A download archives everything that was there when it began, in this run or in
\* the one that takes its place after a crash, if no request fails for good and the
\* task is not parked.
DownloadCompletes == \A c \in Chats, n \in 1..MaxMessages :
  (\E w \in Downloaders : pc[w] = "started" /\ n <= newest[c])
    ~> <<c, n>> \in raw \/ errors > 0 \/ \E w \in Downloaders : pc[w] = "dead"
=============================================================================
