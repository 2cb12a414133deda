-------------------------------- MODULE Chat --------------------------------
(***************************************************************************)
(* Conversations with a language model: the collection (RssTagChats), the       *)
(* handlers of /api/chats, and in every tab GlobalChatPanel beside ChatStorage, *)
(* which hold a state each and meet on the event bus.                           *)
(*                                                                         *)
(* A click starts a job, the chain of requests of its handler.  Jobs run side   *)
(* by side, a request is served some time after it was sent, and its answer     *)
(* arrives some time after that.                                             *)
(***************************************************************************)
EXTENDS Integers, Sequences, SequencesExt, FiniteSets

CONSTANTS
  Tabs,
  JobSlots,       \* bound: jobs under way
  First,          \* the conversations there are at the start
  Chosen,         \* those that may be open in the tabs
  MaxChats,       \* bound: conversations that are ever created
  MaxQuestions,   \* bound: messages that users send
  MaxJobs,        \* bound: jobs
  MaxFailures     \* bound: requests and model calls that fail

Messages == {"user", "assistant"} \X Nat
Titles == {"new", "auto", "named", "none"}
Conversations == [messages : Seq(Messages), title : Titles]

ASSUME ChatAssumption ==
  /\ First \in Seq(Conversations)
  /\ Len(First) <= MaxChats /\ Chosen \subseteq 1 .. Len(First)
  /\ {MaxChats, MaxQuestions, MaxJobs, MaxFailures} \subseteq Nat

VARIABLES
  chats,          \* the conversations, in the order of their creation
  deleted,        \* those that were deleted
  panelOpen,      \* tab -> panel.isOpen
  active,         \* tab -> panel.activeChat: a copy, or None
  list,           \* tab -> panel.chats
  storeOpen,      \* tab -> storage.isOpen
  storeActive,    \* tab -> storage.activeChat
  jobs,           \* slot -> its job
  started,        \* how many there were
  questions,      \* how many messages were sent
  failures

panelVars == <<panelOpen, active, list>>
storeVars == <<storeOpen, storeActive>>
chatDbVars == <<chats, deleted>>
chatVars == <<chatDbVars, panelVars, storeVars, jobs, started, questions, failures>>

\* Question q and the answer to it.
Question(q) == <<"user", q>>
AnswerTo(q) == <<"assistant", q>>

Existing == (1 .. Len(chats)) \ deleted
Copy(c) == [id |-> c, messages |-> chats[c].messages, title |-> chats[c].title]
None == [id |-> 0, messages |-> <<>>, title |-> "none"]

\* A job: what it is for, where it is, its tab, its chat, the question it asks; copy is
\* the chat that the handler or the page read, found the list; view says that the
\* ChatView that started it is still mounted.
Job(kind, at, t, c) ==
  [kind |-> kind, at |-> at, tab |-> t, chat |-> c, question |-> 0, copy |-> None, found |-> {},
   view |-> FALSE]
FreeJob == Job("none", "free", "none", 0)

AtWork(s) == jobs[s].at # "free"
OfTab(t) == {s \in JobSlots : AtWork(s) /\ jobs[s].tab = t}

\* ChatView.isLoading.
Loading(t) == \E s \in OfTab(t) : jobs[s].kind = "send" /\ jobs[s].view

\* After start, and a conversation may have been chosen.
ChatInit ==
  /\ chats = First /\ deleted = {}
  /\ active \in {[t \in Tabs |-> chat] : chat \in {None} \cup {Copy(c) : c \in Chosen}}
  /\ panelOpen = [t \in Tabs |-> active[t] # None] /\ storeOpen = panelOpen
  /\ storeActive = [t \in Tabs |-> None]
  /\ list = [t \in Tabs |-> Existing]
  /\ jobs = [s \in JobSlots |-> FreeJob] /\ started = 0
  /\ questions = Cardinality({q \in 1 .. MaxQuestions :
                               \E c \in 1 .. Len(First) : Contains(First[c].messages, Question(q))})
  /\ failures = 0

----------------------------------------------------------------------------
(* The panel of a tab.                                                        *)

\* A ChatView lives as long as the panel is open and has an active chat.
Mounted(js, t, isOpen, chat) ==
  [s \in JobSlots |-> IF js[s].tab = t /\ (~isOpen \/ chat = None) THEN [js[s] EXCEPT !.view = FALSE]
                   ELSE js[s]]

\* onChatUpdated: a patch that has an activeChat, be it null, gives nothing else; each
\* that is sent has one.
ChatUpdated(t, chat, js) ==
  /\ active' = [active EXCEPT ![t] = chat]
  /\ jobs' = Mounted(js, t, panelOpen[t], chat)
  /\ UNCHANGED <<panelOpen, list>>

\* A click that starts a job.
Start(s) ==
  /\ ~AtWork(s) /\ started < MaxJobs /\ started' = started + 1

Chain(j) == \E s \in JobSlots : Start(s) /\ jobs' = [jobs EXCEPT ![s] = j]

\* The view of a chat is shown.
InView(t) == panelOpen[t] /\ active[t] # None
InList(t) == panelOpen[t] /\ active[t] = None

\* mutant: the message is shown before it is stored
SendOptimistically(t) ==
  /\ InView(t) /\ ~Loading(t)
  /\ questions < MaxQuestions /\ questions' = questions + 1
  /\ Chain([Job("send", "read", t, active[t].id) EXCEPT !.question = questions', !.view = TRUE])
  /\ active' = [active EXCEPT ![t].messages = Append(@, Question(questions'))]
  /\ UNCHANGED <<chatDbVars, panelOpen, list, storeVars, failures>>

HandleSend(t) ==
  /\ InView(t) /\ ~Loading(t)
  /\ questions < MaxQuestions /\ questions' = questions + 1
  /\ Chain([Job("send", "read", t, active[t].id) EXCEPT !.question = questions', !.view = TRUE])
  /\ UNCHANGED <<chatDbVars, panelVars, storeVars, failures>>

\* Fork after the i-th message that is shown.
HandleFork(t, i) ==
  /\ InView(t) /\ i \in 1 .. Len(active[t].messages)
  /\ Chain([Job("fork", "fork", t, active[t].id)
              EXCEPT !.copy = [active[t] EXCEPT !.messages = SubSeq(@, 1, i)]])
  /\ UNCHANGED <<chatDbVars, panelVars, storeVars, questions, failures>>

HandleRename(t) ==
  /\ InView(t)
  /\ Chain([Job("rename", "rename", t, active[t].id) EXCEPT !.copy = active[t]])
  /\ UNCHANGED <<chatDbVars, panelVars, storeVars, questions, failures>>

HandleSelect(t, c) ==
  /\ InList(t) /\ c \in list[t]
  /\ Chain(Job("select", "get", t, c))
  /\ UNCHANGED <<chatDbVars, panelVars, storeVars, questions, failures>>

HandleCreate(t) ==
  /\ InList(t)
  /\ Chain(Job("create", "create", t, 0))
  /\ UNCHANGED <<chatDbVars, panelVars, storeVars, questions, failures>>

HandleDelete(t, c) ==
  /\ InList(t) /\ c \in list[t]
  /\ Chain(Job("delete", "delete", t, c))
  /\ UNCHANGED <<chatDbVars, panelVars, storeVars, questions, failures>>

HandleBack(t) ==
  /\ InView(t)
  /\ LET j == Job("back", "list", t, 0)
     IN \E s \in JobSlots : Start(s) /\ ChatUpdated(t, None, [jobs EXCEPT ![s] = j])
  /\ UNCHANGED <<chatDbVars, storeVars, questions, failures>>

\* CHAT_TOGGLE_PANEL: the storage takes it first, and its CHAT_UPDATED gives the panel
\* the storage's chat; then the panel toggles.
Toggle(t) ==
  /\ storeOpen' = [storeOpen EXCEPT ![t] = ~@]
  /\ panelOpen' = [panelOpen EXCEPT ![t] = ~@]
  /\ active' = [active EXCEPT ![t] = storeActive[t]]
  /\ jobs' = Mounted(jobs, t, panelOpen'[t], storeActive[t])
  /\ UNCHANGED <<chatDbVars, list, storeActive, started, questions, failures>>

\* CHAT_START_WITH_CONTEXT, from the menu of a selected text.
StartWithContext(t) ==
  /\ storeOpen' = [storeOpen EXCEPT ![t] = TRUE]
  /\ LET j == Job("context", "create", t, 0)
     IN \E s \in JobSlots : Start(s) /\ ChatUpdated(t, storeActive[t], [jobs EXCEPT ![s] = j])
  /\ UNCHANGED <<chatDbVars, storeActive, questions, failures>>

----------------------------------------------------------------------------
(* The handlers of /api/chats.                                                *)

Go(s, at) == jobs' = [jobs EXCEPT ![s].at = at]
EndJob(s) == [jobs EXCEPT ![s] = FreeJob]
Served == UNCHANGED <<panelVars, storeVars, started, questions, failures>>

\* add_message pushes to the conversation, if there still is one.
\* mutant: the message is put behind the history that was read
Rewrite(s, message) ==
  LET c == jobs[s].chat
  IN chats' = IF c \in deleted THEN chats
              ELSE [chats EXCEPT ![c].messages = Append(jobs[s].copy.messages, message)]

AddMessage(s, message) ==
  LET c == jobs[s].chat
  IN chats' = IF c \in deleted THEN chats ELSE [chats EXCEPT ![c].messages = Append(@, message)]

SetTitle(c, title) ==
  chats' = IF c \in deleted THEN chats ELSE [chats EXCEPT ![c].title = title]

\* on_chats_message_post: reads the chat; without one the page goes on to reload.
ReadChat(s) ==
  LET c == jobs[s].chat
  IN /\ jobs[s].at = "read"
     /\ IF c \in deleted THEN Go(s, "get")
        ELSE jobs' = [jobs EXCEPT ![s].copy = Copy(c),
                                  ![s].at = IF chats[c].messages = <<>> THEN "title" ELSE "user"]
     /\ UNCHANGED chatDbVars /\ Served

AutoTitle(s) ==
  /\ jobs[s].at = "title"
  /\ SetTitle(jobs[s].chat, "auto") /\ Go(s, "user")
  /\ UNCHANGED deleted /\ Served

AppendQuestion(s) ==
  /\ jobs[s].at = "user"
  /\ AddMessage(s, Question(jobs[s].question)) /\ Go(s, "answer")
  /\ UNCHANGED deleted /\ Served

\* The model was given the history that was read and the question.
AppendAnswer(s) ==
  /\ jobs[s].at = "answer"
  /\ AddMessage(s, AnswerTo(jobs[s].question)) /\ Go(s, "get")
  /\ UNCHANGED deleted /\ Served

CanCreate == Len(chats) < MaxChats
NewChat(messages) == chats' = Append(chats, [messages |-> messages, title |-> "new"])
WithNew(s) == jobs' = [jobs EXCEPT ![s].chat = Len(chats'), ![s].at = "get"]

CreateChat(s) ==
  /\ jobs[s].at = "create" /\ CanCreate
  /\ NewChat(<<>>) /\ WithNew(s)
  /\ UNCHANGED deleted /\ Served

\* mutant: the message that was clicked is left out
UpToClicked(messages, i) == SubSeq(messages, 1, i - 1)

\* The first messages of the conversation as it is now.
Forked(messages, i) == SubSeq(messages, 1, i)

ForkChat(s) ==
  /\ jobs[s].at = "fork"
  /\ IF jobs[s].chat \in deleted THEN jobs' = EndJob(s) /\ UNCHANGED chats
     ELSE /\ CanCreate
          /\ NewChat(Forked(chats[jobs[s].chat].messages, Len(jobs[s].copy.messages)))
          /\ WithNew(s)
  /\ UNCHANGED deleted /\ Served

RenameChat(s) ==
  /\ jobs[s].at = "rename"
  /\ SetTitle(jobs[s].chat, "named") /\ Go(s, "renamed")
  /\ UNCHANGED deleted /\ Served

DeleteChat(s) ==
  /\ jobs[s].at = "delete"
  /\ deleted' = deleted \cup {jobs[s].chat} /\ Go(s, "removed")
  /\ UNCHANGED chats /\ Served

\* What follows the chat in a chain: the list, for those that created one.
AfterChat(s) ==
  IF jobs[s].kind \in {"create", "fork", "context"} THEN [jobs EXCEPT ![s].at = "list"] ELSE EndJob(s)

GetChat(s) ==
  LET c == jobs[s].chat
  IN /\ jobs[s].at = "get"
     /\ jobs' = IF c \in deleted THEN AfterChat(s)
                ELSE [jobs EXCEPT ![s].copy = Copy(c), ![s].at = "show"]
     /\ UNCHANGED chatDbVars /\ Served

ListChats(s) ==
  /\ jobs[s].at = "list"
  /\ jobs' = [jobs EXCEPT ![s].at = "listed", ![s].found = Existing]
  /\ UNCHANGED chatDbVars /\ Served

----------------------------------------------------------------------------
(* Answers that arrive.                                                       *)

Arrived == UNCHANGED <<chatDbVars, started, questions, failures>>

\* The chat is shown, whatever the panel shows by now; that of a context goes through
\* the storage.
ShowChat(s) ==
  LET j == jobs[s]
  IN /\ j.at = "show"
     /\ ChatUpdated(j.tab, j.copy, AfterChat(s))
     /\ storeActive' = IF j.kind = "context" THEN [storeActive EXCEPT ![j.tab] = j.copy] ELSE storeActive
     /\ UNCHANGED storeOpen /\ Arrived

\* The chain of a context ends with the storage's state.
ContextEnds(s) ==
  LET t == jobs[s].tab
  IN IF jobs[s].kind = "context"
     THEN /\ storeOpen' = [storeOpen EXCEPT ![t] = TRUE]
          /\ active' = [active EXCEPT ![t] = storeActive[t]]
          /\ jobs' = Mounted(EndJob(s), t, panelOpen[t], storeActive[t])
     ELSE UNCHANGED <<storeOpen, active>> /\ jobs' = EndJob(s)

ShowList(s) ==
  /\ jobs[s].at = "listed"
  /\ list' = [list EXCEPT ![jobs[s].tab] = jobs[s].found]
  /\ ContextEnds(s)
  /\ UNCHANGED <<panelOpen, storeActive>> /\ Arrived

\* The page does not look at the answer; it shows the chat it had when the title was typed.
ShowTitle(s) ==
  /\ jobs[s].at = "renamed"
  /\ ChatUpdated(jobs[s].tab, [jobs[s].copy EXCEPT !.title = "named"], EndJob(s))
  /\ UNCHANGED storeVars /\ Arrived

\* Nor here; the storage is not told.
ShowDeleted(s) ==
  LET t == jobs[s].tab
      chat == IF active[t].id = jobs[s].chat THEN None ELSE active[t]
  IN /\ jobs[s].at = "removed"
     /\ list' = [list EXCEPT ![t] = @ \ {jobs[s].chat}]
     /\ active' = [active EXCEPT ![t] = chat]
     /\ jobs' = Mounted(EndJob(s), t, panelOpen[t], chat)
     /\ UNCHANGED <<panelOpen, storeVars>> /\ Arrived

\* Where a chain goes on when a request, its answer or the model fails.  A send reloads the
\* chat; a chat that was created may be there although its page does not learn of it; a
\* failed rename or delete that is answered is taken for done.
FailTo(j) ==
  CASE j.kind = "send" /\ j.at \notin {"get", "show"} -> {"get"}
    [] j.kind \in {"create", "context"} /\ j.at = "get" -> {"list", "end"}
    [] j.kind \in {"create", "context"} /\ j.at = "show" -> {"list"}
    [] j.kind = "rename" -> {"renamed", "end"}
    [] j.kind = "delete" -> {"removed", "end"}
    [] OTHER -> {"end"}

FailJob(s) ==
  /\ jobs[s].at \notin {"free", "renamed", "removed"}
  /\ failures < MaxFailures /\ failures' = failures + 1
  /\ \E at \in FailTo(jobs[s]) :
       IF at # "end" THEN Go(s, at) /\ UNCHANGED <<storeOpen, active>>
       ELSE IF jobs[s].at \in {"list", "listed"} THEN ContextEnds(s)
       ELSE jobs' = EndJob(s) /\ UNCHANGED <<storeOpen, active>>
  /\ UNCHANGED <<chatDbVars, panelOpen, list, storeActive, started, questions>>

----------------------------------------------------------------------------

ClickInPanel(t) ==
  \/ HandleSend(t) \/ HandleRename(t) \/ HandleCreate(t) \/ HandleBack(t)
  \/ Toggle(t) \/ StartWithContext(t)
  \/ \E i \in 1 .. 2 * MaxQuestions : HandleFork(t, i)
  \/ \E c \in 1 .. MaxChats : HandleSelect(t, c) \/ HandleDelete(t, c)

Serve(s) ==
  \/ ReadChat(s) \/ AutoTitle(s) \/ AppendQuestion(s) \/ AppendAnswer(s)
  \/ CreateChat(s) \/ ForkChat(s) \/ RenameChat(s) \/ DeleteChat(s) \/ GetChat(s) \/ ListChats(s)

Arrive(s) == ShowChat(s) \/ ShowList(s) \/ ShowTitle(s) \/ ShowDeleted(s)

ChatNext ==
  \/ \E t \in Tabs : ClickInPanel(t)
  \/ \E s \in JobSlots : Serve(s) \/ Arrive(s) \/ FailJob(s)

ChatSpec == ChatInit /\ [][ChatNext]_chatVars

----------------------------------------------------------------------------
(* Properties.                                                                *)

Ids == 1 .. Len(chats)
Copies == [id : Nat, messages : Seq(Messages), title : Titles]
Kinds == {"none", "send", "fork", "rename", "select", "create", "delete", "back", "context"}
JobSteps == {"free", "read", "title", "user", "answer", "get", "show", "create", "fork", "rename",
          "renamed", "delete", "removed", "list", "listed"}
Jobs == [kind : Kinds, at : JobSteps, tab : Tabs \cup {"none"}, chat : Nat, question : Nat,
         copy : Copies, found : SUBSET Nat, view : BOOLEAN]

ChatTypeOK ==
  /\ chats \in Seq(Conversations) /\ Len(chats) <= MaxChats /\ deleted \subseteq Ids
  /\ panelOpen \in [Tabs -> BOOLEAN] /\ active \in [Tabs -> Copies] /\ list \in [Tabs -> SUBSET Ids]
  /\ storeOpen \in [Tabs -> BOOLEAN] /\ storeActive \in [Tabs -> Copies]
  /\ jobs \in [JobSlots -> Jobs]
  /\ started \in 0 .. MaxJobs /\ questions \in Nat /\ failures \in 0 .. MaxFailures

\* A conversation only grows, however many tabs and requests write to it.
HistoryKept ==
  [][\A c \in 1 .. Len(chats) : IsPrefix(chats[c].messages, chats'[c].messages)]_chatVars

\* What a panel shows is how its conversation begins: answers that arrive late or out of
\* order show less of it, and never what another has or nothing has.
ShownIsStored ==
  \A t \in Tabs : active[t] # None => IsPrefix(active[t].messages, chats[active[t].id].messages)

\* A fork is what the user saw up to the message that was clicked, although the server
\* cuts the conversation it has by now at the number of that message.  (Once its number is
\* known others may write to it.)
ForkAsSeen ==
  \A s \in JobSlots : jobs[s].kind = "fork" /\ jobs[s].at = "get" =>
    IsPrefix(jobs[s].copy.messages, chats[jobs[s].chat].messages)
=============================================================================
