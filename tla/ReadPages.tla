------------------------------ MODULE ReadPages ------------------------------
(***************************************************************************)
(* The pages that show what is read and change it with the requests of        *)
(* ReadState.  Their kinds: "list", the posts of PostsStorage with PostItem      *)
(* and ReadAllButton; "grouped", PostGroupedPage beside the same storage and    *)
(* button; "canvas", FeedCanvas; "snippets", the lists of post-grouped-snippets; *)
(* "clusters", ClustersTopics with a cluster chosen; "mindmap", TopicsMindmap;   *)
(* "hierarchy", FeedHierarchy and its Original dialog.                         *)
(*                                                                         *)
(* A page is filled when it is loaded and then changed by the answers to its   *)
(* own requests only.  What it changes is what it keeps: the grouped page and    *)
(* the dialog a state for each sentence, the snippet pages one for each snippet,  *)
(* whatever sentences it shares with others.                                  *)
(***************************************************************************)
EXTENDS ReadState

CONSTANTS
  Kind,           \* of a page
  On,             \* a page -> the topics or snippets on it
  Has,            \* a topic or snippet -> its sentences
  Openings        \* the sets of pages that may be open together

ASSUME PagesAssumption ==
  /\ \A g \in Pages :
       /\ Kind[g] \in {"list", "grouped", "canvas", "snippets", "clusters", "mindmap", "hierarchy"}
       /\ On[g] \subseteq Topics
  /\ Openings \subseteq SUBSET Pages
  /\ \A t \in Topics : Has[t] \subseteq Lines /\ Has[t] # {}

VARIABLES
  open,           \* the pages that are open
  storage,        \* the posts a page holds as read: PostsStorage, canvasPosts
  label,          \* PostsStorage.readed: ReadAllButton offers the opposite
  buttons,        \* the posts whose buttons on the grouped page say read
  shown,          \* the sentences, or the snippets, that a page shows as read
  loaded,         \* the sentences that FeedHierarchy.topics holds as read
  behind          \* history: what shows an old state after another part of the page changed

lineVars == <<shown, loaded, behind>>
pageVars == <<storage, label, buttons, lineVars>>
vars == <<readVars, open, pageVars>>

HasStorage(g) == Kind[g] \in {"list", "grouped"}
HoldsPosts(g) == Kind[g] \in {"list", "grouped", "canvas"}
ShowsLines(g) == Kind[g] \in {"grouped", "hierarchy"}
ShowsSnippets(g) == Kind[g] \in {"snippets", "clusters", "mindmap"}

----------------------------------------------------------------------------
(* PostsStorage.                                                              *)

\* isNeedReadedChange: no post is what the flag says.
NeedReadedChange(posts, readed) == \A p \in Posts : (p \in posts) # readed
Readed(posts, readed) == IF NeedReadedChange(posts, readed) THEN ~readed ELSE readed

\* setState: every listener of POSTS_UPDATED takes the new state, the grouped page for
\* its buttons too.
SetState(g, posts) ==
  /\ storage' = [storage EXCEPT ![g] = posts]
  /\ buttons' = [buttons EXCEPT ![g] = IF Kind[g] = "grouped" THEN posts ELSE {}]
  /\ UNCHANGED lineVars

\* fetchPosts, and what the other pages are rendered with.
Init ==
  /\ ReadInit
  /\ open \in Openings
  /\ storage = [g \in Pages |-> IF g \in open /\ HoldsPosts(g) THEN read ELSE {}]
  /\ label = [g \in Pages |-> g \in open /\ HasStorage(g) /\ Readed(read, FALSE)]
  /\ buttons = [g \in Pages |-> IF g \in open /\ Kind[g] = "grouped" THEN read ELSE {}]
  /\ shown = [g \in Pages |-> CASE g \in open /\ ShowsLines(g) -> lines
                                [] g \in open /\ ShowsSnippets(g) -> {t \in On[g] : Has[t] \subseteq lines}
                                [] OTHER -> {}]
  /\ loaded = [g \in Pages |-> IF g \in open /\ Kind[g] = "hierarchy" THEN lines ELSE {}]
  /\ behind = [g \in Pages |-> {}]

\* loadMorePosts, setCurrentPost, changePostsContentState and the contents and links
\* that arrive change nothing about reading, and set the state.
OtherUpdate(g) ==
  /\ g \in open /\ HasStorage(g)
  /\ SetState(g, storage[g])
  /\ UNCHANGED <<readVars, open, label>>

----------------------------------------------------------------------------
(* Clicks.  Nothing changes on the page before the answer.                     *)

Disabled(g) == UNION {calls[s].buttons : s \in {z \in Slots : calls[z].page = g}}

Ask(g, disables, to, posts, ls) ==
  /\ g \in open
  /\ Send(Request(g, disables, to, posts, ls))
  /\ UNCHANGED <<open, pageVars>>

\* PostItem.clickReadButton, over changePostsStatus.
ClickItem(g, p) == Kind[g] = "list" /\ Ask(g, {}, p \notin storage[g], {p}, {})

\* ReadAllButton.changePostsStatus.
ClickReadAll(g) == HasStorage(g) /\ Ask(g, {}, ~label[g], Posts, {})

\* PostGroupedPage.changePostStatus goes round the storage.
ClickGrouped(g, p) == Kind[g] = "grouped" /\ Ask(g, {}, p \notin buttons[g], {p}, {})

\* The canvas disables all its buttons while it waits; its read-all names the posts
\* that differ.
ClickCanvas(g, p) ==
  /\ Kind[g] = "canvas" /\ Disabled(g) = {}
  /\ Ask(g, Topics, p \notin storage[g], {p}, {})

ClickCanvasAll(g, to) ==
  /\ Kind[g] = "canvas" /\ Disabled(g) = {}
  /\ LET differ == {p \in Posts : (p \in storage[g]) # to}
     IN differ # {} /\ Ask(g, Topics, to, differ, {})

FullyRead(g, t) == Has[t] \subseteq shown[g]

\* toggleTopicReadStatus and toggleOriginalSentence disable the one button.
ToggleTopic(g, t) ==
  /\ Kind[g] = "grouped" /\ t \in On[g] /\ t \notin Disabled(g)
  /\ Ask(g, {t}, ~FullyRead(g, t), {}, Has[t])

ToggleOriginal(g, l) ==
  /\ Kind[g] = "hierarchy" /\ l \notin Disabled(g)
  /\ Ask(g, {l}, l \notin shown[g], {}, {l})

\* showOriginal builds the dialog anew from the topics, which no answer has changed.  A
\* request under way was from a button that is no longer there: its answer will change
\* nothing that is shown.
ReopenOriginal(g) ==
  /\ g \in open /\ Kind[g] = "hierarchy"
  /\ shown' = [shown EXCEPT ![g] = loaded[g]]
  /\ calls' = [s \in Slots |-> IF calls[s].page = g THEN [calls[s] EXCEPT !.buttons = {}]
                               ELSE calls[s]]
  /\ behind' = [behind EXCEPT ![g] =
       @ \cup {l \in Lines : \/ (l \in shown[g]) # (l \in loaded[g])
                            \/ \E s \in Slots : calls[s].page = g /\ l \in calls[s].lines}]
  /\ UNCHANGED <<dbVars, made, crossed, faults, open, storage, label, buttons, loaded>>

\* The buttons of snippets are never disabled.
AskSnippets(g, ts, to) == Ask(g, ts, to, {}, UNION {Has[t] : t \in ts})

\* One for a snippet, two for all of them.
ToggleSnippet(g, t) == ShowsSnippets(g) /\ t \in On[g] /\ AskSnippets(g, {t}, t \notin shown[g])
BatchSnippets(g, to) == ShowsSnippets(g) /\ On[g] # {} /\ AskSnippets(g, On[g], to)

----------------------------------------------------------------------------
(* Answers, in any order.                                                     *)

\* mutant: everything becomes read
WithRead(old, new, to) == old \cup new

With(old, new, to) == IF to THEN old \cup new ELSE old \ new

\* changePostsStatus sets the state only when a post of it changes.
StorageAnswered(g, c) ==
  LET posts == With(storage[g], c.posts, c.to)
  IN IF posts = storage[g] THEN UNCHANGED pageVars
     ELSE SetState(g, posts) /\ label' = [label EXCEPT ![g] = Readed(posts, @)]

\* PostGroupedPage.changePostStatus touches the button alone.
ButtonAnswered(g, c) ==
  /\ buttons' = [buttons EXCEPT ![g] = With(@, c.posts, c.to)]
  /\ UNCHANGED <<storage, label, lineVars>>

\* renderPostReadState, for the posts of the request.
CanvasAnswered(g, c) ==
  /\ storage' = [storage EXCEPT ![g] = With(@, c.posts, c.to)]
  /\ UNCHANGED <<label, buttons, lineVars>>

\* What an answer changes: all sentences of the request on the grouped page, the item of
\* the button in the dialog, the snippet itself in the mindmap.  Clusters compare the
\* keys of post and sentences; updateUIForSelections takes the first element with the id.
SameKey(g, t) == {u \in On[g] : Has[u] = Has[t]}
Changed(g, c) ==
  CASE Kind[g] = "grouped" -> c.lines
    [] Kind[g] = "clusters" -> UNION {SameKey(g, t) : t \in c.buttons}
    [] Kind[g] = "snippets" -> {CHOOSE u \in SameKey(g, t) : TRUE : t \in c.buttons}
    [] OTHER -> c.buttons

\* The snippets that share a sentence with those of the request.
Sharing(g, c) == {t \in On[g] : ShowsSnippets(g) /\ Has[t] \cap c.lines # {}}

LinesAnswered(g, c) ==
  /\ shown' = [shown EXCEPT ![g] = With(@, Changed(g, c), c.to)]
  /\ behind' = [behind EXCEPT ![g] = (@ \cup Sharing(g, c)) \ Changed(g, c)]
  /\ UNCHANGED <<storage, label, buttons, loaded>>

Accepted(g, c) ==
  IF c.lines # {} THEN LinesAnswered(g, c)
  ELSE CASE Kind[g] = "canvas" -> CanvasAnswered(g, c)
         [] Kind[g] = "grouped" /\ c.posts # Posts -> ButtonAnswered(g, c)
         [] OTHER -> StorageAnswered(g, c)

\* The mindmap takes any answer for a yes.
Receive(s) ==
  /\ Answered(s)
  /\ calls' = [calls EXCEPT ![s] = Free]
  /\ LET c == calls[s]
     IN IF c.at = "ok" \/ Kind[c.page] = "mindmap"
        THEN Accepted(c.page, c) ELSE UNCHANGED pageVars
  /\ UNCHANGED <<dbVars, made, crossed, faults, open>>

Click ==
  \E g \in Pages :
    \/ OtherUpdate(g) \/ ClickReadAll(g) \/ ReopenOriginal(g)
    \/ \E p \in Posts : ClickItem(g, p) \/ ClickGrouped(g, p) \/ ClickCanvas(g, p)
    \/ \E to \in BOOLEAN : ClickCanvasAll(g, to) \/ BatchSnippets(g, to)
    \/ \E t \in Topics : ToggleTopic(g, t) \/ ToggleSnippet(g, t)
    \/ \E l \in Lines : ToggleOriginal(g, l)

Next ==
  \/ Click
  \/ \E s \in Slots : (Handle(s) \/ Fail(s)) /\ UNCHANGED <<open, pageVars>>
  \/ \E s \in Slots : Receive(s)

Spec == Init /\ [][Next]_vars

----------------------------------------------------------------------------
(* Properties.                                                                *)

TypeOK ==
  /\ ReadTypeOK
  /\ open \in Openings
  /\ storage \in [Pages -> SUBSET Posts] /\ label \in [Pages -> BOOLEAN]
  /\ buttons \in [Pages -> SUBSET Posts] /\ loaded \in [Pages -> SUBSET Lines]
  /\ {shown, behind} \subseteq [Pages -> SUBSET (Topics \cup Lines)]

Settled == \A s \in Slots : ~Busy(s)
Alone(g) == open = {g}

\* A page that nobody else interferes with shows what is stored once its requests,
\* none of which overlapped another about the same post, are answered: a post or sentence
\* as it is, a snippet as read exactly when all its sentences are.  Two exceptions: a
\* snippet, after another one that shares a sentence with it was marked (unless it was
\* marked with it or since), and a sentence of the dialog, after the dialog was opened
\* again over a change of it, until it is marked again.  (Not the grouped page: it does
\* not learn that a post has become read with its last sentence.)
PageAgrees ==
  \A g \in open : Alone(g) /\ Kind[g] # "grouped" /\ Settled /\ Undisturbed =>
    /\ HoldsPosts(g) => storage[g] = read
    /\ Kind[g] = "hierarchy" => \A l \in Lines \ behind[g] : (l \in shown[g]) = (l \in lines)
    /\ ShowsSnippets(g) =>
         \A t \in On[g] \ behind[g] : (t \in shown[g]) = (Has[t] \subseteq lines)
=============================================================================
