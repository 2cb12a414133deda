------------------------------ MODULE ReadState ------------------------------
(***************************************************************************)
(* What is read, and the two requests that change it: /read/posts for whole    *)
(* posts and /read/snippets for sentences of their groupings.  Each writes the  *)
(* posts, the unread counters and the sentences in separate operations, and     *)
(* requests overlap: every step below is one operation on the database.        *)
(*                                                                         *)
(* One counter stands for those of the tags, bi-grams and letters, which are   *)
(* changed alike: every post has the tag.  The TASK_MARK documents that tell    *)
(* the provider are written beside and read by the queue only.                 *)
(***************************************************************************)
EXTENDS Integers, FiniteSets

CONSTANTS
  Posts,
  Numbers,        \* the sentences of a post: a function on Posts
  Pages,          \* the pages that may be open in the user's browsers
  Topics,         \* what one button of a page marks: topics and snippets
  Slots,          \* bound: requests under way
  MaxCalls,       \* bound: requests made
  MaxFaults       \* bound: operations that fail

ASSUME ReadStateAssumption ==
  /\ IsFiniteSet(Posts)
  /\ \A p \in Posts : Numbers[p] # {}
  /\ {MaxCalls, MaxFaults} \subseteq Nat

VARIABLES
  read,           \* the posts that are read
  lines,          \* the sentences <<post, number>> that are
  unread,         \* the counter
  calls,          \* a slot -> the request it serves
  made,           \* how many there were
  crossed,        \* were two about one post ever under way together?
  faults

dbVars == <<read, lines, unread>>
readVars == <<dbVars, calls, made, crossed, faults>>

Of(p) == {p} \X Numbers[p]
Lines == UNION {Of(p) : p \in Posts}

\* A request: its page and the buttons it comes from, what is to be set to what; left,
\* post and seen are the handler's.
Request(page, buttons, to, posts, ls) ==
  [at |-> IF ls = {} THEN "posts" ELSE "next", page |-> page, buttons |-> buttons, to |-> to,
   posts |-> posts, lines |-> ls, left |-> posts \cup {l[1] : l \in ls}, post |-> {}, seen |-> {}]
Free == [Request("none", {}, FALSE, {}, {}) EXCEPT !.at = "free"]

Busy(s) == calls[s].at # "free"
Answered(s) == calls[s].at \in {"ok", "refused"}
About(c) == c.posts \cup {l[1] : l \in c.lines}

\* A post is read when all its sentences are; the counter knows the others.
ReadInit ==
  /\ lines \in SUBSET Lines
  /\ read = {p \in Posts : Of(p) \subseteq lines}
  /\ unread = Cardinality(Posts \ read)
  /\ calls = [s \in Slots |-> Free]
  /\ made = 0 /\ crossed = FALSE /\ faults = 0

Send(r) ==
  /\ made < MaxCalls /\ made' = made + 1
  /\ \E s \in Slots : ~Busy(s) /\ calls' = [calls EXCEPT ![s] = r]
  /\ crossed' = (crossed \/ \E s \in Slots : Busy(s) /\ About(calls[s]) \cap About(r) # {})
  /\ UNCHANGED <<dbVars, faults>>

Step(s, at) == calls' = [calls EXCEPT ![s].at = at]
End(s, at) ==
  calls' = [calls EXCEPT ![s].at = at, ![s].left = {}, ![s].post = {}, ![s].seen = {}]
Same == UNCHANGED <<made, crossed, faults>>

----------------------------------------------------------------------------
(* on_read_posts_post.                                                        *)

\* mutant: every post of the request is counted
FindAll(s) ==
  /\ calls[s].at = "posts"
  /\ calls' = [calls EXCEPT ![s].seen = calls[s].posts, ![s].at = "found"]
  /\ UNCHANGED dbVars /\ Same

\* The posts that differ.  With none, add_task has nothing to insert and the handler
\* ends without a result.
FindPosts(s) ==
  /\ calls[s].at = "posts"
  /\ LET differ == {p \in calls[s].posts : (p \in read) # calls[s].to}
     IN IF differ = {} THEN End(s, "refused")
        ELSE calls' = [calls EXCEPT ![s].seen = differ, ![s].at = "found"]
  /\ UNCHANGED dbVars /\ Same

SetPosts(posts, to) == read' = IF to THEN read \cup posts ELSE read \ posts
CountBy(n, to) == unread' = IF to THEN unread - n ELSE unread + n

\* change_status sets every post of the request.
ChangePosts(s) ==
  /\ calls[s].at = "found"
  /\ SetPosts(calls[s].posts, calls[s].to)
  /\ Step(s, "changed")
  /\ UNCHANGED <<lines, unread>> /\ Same

\* The counters change by the posts that were found to differ.
CountPosts(s) ==
  /\ calls[s].at = "changed"
  /\ CountBy(Cardinality(calls[s].seen), calls[s].to)
  /\ Step(s, "sentences")
  /\ UNCHANGED <<read, lines>> /\ Same

\* mark_sequences_read, post by post.
MarkSentences(s, p) ==
  /\ calls[s].at = "sentences" /\ p \in calls[s].left
  /\ lines' = IF calls[s].to THEN lines \cup Of(p) ELSE lines \ Of(p)
  /\ IF calls[s].left = {p} THEN End(s, "ok") ELSE calls' = [calls EXCEPT ![s].left = @ \ {p}]
  /\ UNCHANGED <<read, unread>> /\ Same

----------------------------------------------------------------------------
(* ReadStateService.mark_sentences, post by post.                             *)

\* update_snippets_read_status reads the sentences ...
ReadSentences(s, p) ==
  /\ calls[s].at = "next" /\ p \in calls[s].left
  /\ calls' = [calls EXCEPT ![s].at = "write", ![s].left = @ \ {p}, ![s].post = {p},
                            ![s].seen = lines \cap Of(p)]
  /\ UNCHANGED dbVars /\ Same

\* ... and writes all of them back, with those of the request changed.
Updated(c) == IF c.to THEN c.seen \cup (c.lines \cap UNION {Of(p) : p \in c.post})
              ELSE c.seen \ c.lines

WriteSentences(s) ==
  /\ calls[s].at = "write"
  /\ LET c == calls[s]
     IN /\ lines' = {l \in lines : l[1] \notin c.post} \cup Updated(c)
        /\ calls' = [calls EXCEPT ![s].at = "check", ![s].seen = Updated(c)]
  /\ UNCHANGED <<read, unread>> /\ Same

\* mutant: a post never becomes unread
ShouldBecomeRead(c) == \E p \in c.post : c.to /\ c.seen = Of(p) /\ p \notin read

\* A read post with an unread sentence becomes unread, one whose sentences all are read
\* becomes read.
ShouldChange(c) ==
  \E p \in c.post : IF c.to THEN c.seen = Of(p) /\ p \notin read ELSE p \in read

Onward(s) == IF calls[s].left = {} THEN End(s, "ok") ELSE Step(s, "next")

CheckPost(s) ==
  /\ calls[s].at = "check"
  /\ IF ShouldChange(calls[s]) THEN Step(s, "change") ELSE Onward(s)
  /\ UNCHANGED dbVars /\ Same

ChangePost(s) ==
  /\ calls[s].at = "change"
  /\ SetPosts(calls[s].post, calls[s].to)
  /\ Step(s, "count")
  /\ UNCHANGED <<lines, unread>> /\ Same

CountPost(s) ==
  /\ calls[s].at = "count"
  /\ CountBy(1, calls[s].to)
  /\ Onward(s)
  /\ UNCHANGED <<read, lines>> /\ Same

----------------------------------------------------------------------------

\* An operation fails, or the process ends: what was written stays.
Fail(s) ==
  /\ Busy(s) /\ ~Answered(s)
  /\ faults < MaxFaults /\ faults' = faults + 1
  /\ End(s, "refused")
  /\ UNCHANGED <<dbVars, made, crossed>>

Handle(s) ==
  \/ FindPosts(s) \/ ChangePosts(s) \/ CountPosts(s)
  \/ \E p \in Posts : MarkSentences(s, p) \/ ReadSentences(s, p)
  \/ WriteSentences(s) \/ CheckPost(s) \/ ChangePost(s) \/ CountPost(s)

----------------------------------------------------------------------------
(* Properties.                                                                *)

Steps == {"free", "posts", "found", "changed", "sentences",
          "next", "write", "check", "change", "count", "ok", "refused"}
Calls == [at : Steps, page : Pages \cup {"none"}, buttons : SUBSET (Topics \cup Lines), to : BOOLEAN,
          posts : SUBSET Posts, lines : SUBSET Lines, left : SUBSET Posts, post : SUBSET Posts,
          seen : SUBSET (Posts \cup Lines)]

ReadTypeOK ==
  /\ read \subseteq Posts /\ lines \subseteq Lines /\ unread \in Int
  /\ calls \in [Slots -> Calls]
  /\ made \in 0 .. MaxCalls /\ crossed \in BOOLEAN /\ faults \in 0 .. MaxFaults

Quiet == \A s \in Slots : calls[s].at \in {"free", "ok", "refused"}
Undisturbed == ~crossed /\ faults = 0

\* When requests about one post never overlapped and no operation failed, the counter
\* is the number of unread posts once the handlers are done, whatever mix of posts and
\* sentences they were about.
CounterExact == Quiet /\ Undisturbed => unread = Cardinality(Posts \ read)

\* Under the same conditions posts and sentences agree: a post is read exactly when
\* all its sentences are.
PostsRollUp == Quiet /\ Undisturbed => read = {p \in Posts : Of(p) \subseteq lines}
=============================================================================
