----------------------------- MODULE PagesProofs -----------------------------
(***************************************************************************)
(* Proofs about the parts that live in the browser.  First ReadState and        *)
(* ReadPages, for any finite set of posts, any sentences and topics, any pages,  *)
(* and any number of requests and faults; then Chat, for any number of tabs, of  *)
(* chains under way and of faults.  The two share no state; what would have one  *)
(* name in both is named after the chat in Chat.                                *)
(***************************************************************************)
EXTENDS ReadPages, Chat, FiniteSetTheorems, SequenceTheorems, TLAPS

-----------------------------------------------------------------------------
(* The invariants. *)

PostSteps == {"posts", "found", "changed", "sentences"}
LineSteps == {"next", "write", "check", "change", "count"}

\* What the place of a request says about its fields, and which requests a page makes.
Shape(c) ==
  /\ c.lines = {} \/ c.posts = {}
  /\ c.at \in PostSteps => c.lines = {}
  /\ c.at \in LineSteps => c.posts = {} /\ c.lines # {}
  /\ c.at = "free" => c.lines = {} /\ c.posts = {}
  /\ c.at # "free" => c.page \in open
  /\ c.at # "free" /\ Kind[c.page] \in {"list", "canvas"} => c.lines = {}
  /\ c.at # "free" /\ (ShowsSnippets(c.page) \/ Kind[c.page] = "hierarchy") => c.posts = {}
  /\ c.at # "free" /\ ShowsSnippets(c.page) =>
       c.buttons \subseteq On[c.page] /\ \A t \in c.buttons : Has[t] \subseteq c.lines
  /\ c.at # "free" /\ Kind[c.page] = "hierarchy" => c.buttons = {} \/ c.buttons = c.lines
  /\ c.left \subseteq About(c)
  /\ c.at \in {"posts", "found", "changed"} => c.left = c.posts
  /\ c.at \in {"found", "changed"} => c.seen \subseteq c.posts
  /\ c.at = "write" => c.seen \subseteq Lines
  /\ c.at \in {"write", "check", "change", "count"} =>
       \E p \in About(c) : c.post = {p} /\ p \notin c.left
  /\ c.at = "ok" => c.left = {}

TInv == TypeOK /\ \A s \in Slots : Shape(calls[s])

\* A post agrees with its sentences.
Agree(p, rd, ls) == (p \in rd) <=> Of(p) \subseteq ls

\* The posts of which a request has written one but not yet the other.
Midway(c) ==
  CASE c.at \in {"changed", "sentences"} -> c.posts
    [] c.at \in {"check", "change"} -> c.post
    [] OTHER -> {}

\* The posts that a request has changed and not yet counted.
Uncounted(c) ==
  CASE c.at = "changed" -> c.seen
    [] c.at = "count" -> c.post
    [] OTHER -> {}

\* The posts whose sentences a request has written.
Done(c) == About(c) \ (c.left \cup IF c.at = "write" THEN c.post ELSE {})

\* What a request knows about the posts and sentences, if nobody else changes them.
Right(c, rd, ls) ==
  /\ c.at = "found" => c.seen = {p \in c.posts : (p \in rd) # c.to}
  /\ c.at \in {"changed", "sentences", "ok"} => \A p \in c.posts : (p \in rd) = c.to
  /\ c.at = "sentences" =>
       \A p \in c.posts \ c.left : IF c.to THEN Of(p) \subseteq ls ELSE Of(p) \cap ls = {}
  /\ c.at = "write" => \A p \in c.post : c.seen = ls \cap Of(p)
  /\ c.at = "check" =>
       \A p \in c.post : /\ c.seen = ls \cap Of(p)
                         /\ IF c.to THEN p \in rd => Of(p) \subseteq ls ELSE ~(Of(p) \subseteq ls)
  /\ c.at = "change" =>
       \A p \in c.post : IF c.to THEN p \notin rd /\ Of(p) \subseteq ls
                         ELSE p \in rd /\ ~(Of(p) \subseteq ls)
  /\ c.at = "count" => \A p \in c.post : (p \in rd) = c.to
  /\ c.at \in LineSteps \cup {"ok"} =>
       \A l \in c.lines : l[1] \in Done(c) => (l \in ls) = c.to
  /\ c.at = "refused" => c.lines = {}

\* The posts that the counter takes for read.
Counted(cs, rd) ==
  {p \in Posts : IF \E s \in Slots : p \in Uncounted(cs[s]) THEN p \notin rd ELSE p \in rd}

Disjoint == \A s, z \in Slots : s # z => About(calls[s]) \cap About(calls[z]) = {}

RInv ==
  Undisturbed =>
    /\ Disjoint
    /\ \A s \in Slots : Right(calls[s], read, lines)
    /\ \A p \in Posts : Agree(p, read, lines) \/ \E s \in Slots : p \in Midway(calls[s])
    /\ unread = Cardinality(Posts \ Counted(calls, read))

\* What a page that is alone shows is what is stored, but for what one of its requests has
\* changed or will change.
Moved(p) == \E s \in Slots : p \in calls[s].posts /\ calls[s].at \in {"changed", "sentences", "ok"}
Asked(l) == \E s \in Slots : l \in calls[s].lines

\* Of the dialog: a request whose button is gone will change nothing that is shown.
DialogAgrees(g) ==
  /\ \A l \in Lines : l \in behind[g] \/ Asked(l) \/ (l \in shown[g]) = (l \in lines)
  /\ \A s \in Slots : calls[s].buttons = {} => calls[s].lines \subseteq behind[g]

SnippetsAgree(g) ==
  \A t \in On[g] : \/ t \in behind[g] \/ \E l \in Has[t] : Asked(l)
                   \/ (t \in shown[g]) = (Has[t] \subseteq lines)

PInv ==
  Undisturbed =>
    \A g \in Pages : Alone(g) /\ Kind[g] # "grouped" =>
      /\ HoldsPosts(g) => \A p \in Posts : Moved(p) \/ (p \in storage[g]) = (p \in read)
      /\ Kind[g] = "hierarchy" => DialogAgrees(g)
      /\ ShowsSnippets(g) => SnippetsAgree(g)

-----------------------------------------------------------------------------
(* Sentences, and what the parts of a request are about. *)

LEMMA LinesMeans ==
  /\ \A l \in Lines : l[1] \in Posts /\ l \in Of(l[1])
  /\ \A p \in Posts : Of(p) \subseteq Lines /\ Of(p) # {}
  /\ \A p : \A l \in Of(p) : l[1] = p
<1>1. \A p : \A l \in Of(p) : l[1] = p
  BY DEF Of
<1>2. \A l \in Lines : \E p \in Posts : l \in Of(p)
  BY DEF Lines
<1>3. \A p \in Posts : Of(p) \subseteq Lines
  BY DEF Lines
<1>4. \A p \in Posts : Of(p) # {}
  <2> TAKE p \in Posts
  <2>1. PICK n : n \in Numbers[p]
    BY ReadStateAssumption
  <2>2. <<p, n>> \in Of(p)
    BY <2>1 DEF Of
  <2> QED BY <2>2
<1> QED BY <1>1, <1>2, <1>3, <1>4

LEMMA CallTyped ==
  ASSUME NEW c \in Calls
  PROVE  /\ c.at \in Steps /\ c.page \in Pages \cup {"none"} /\ c.to \in BOOLEAN
         /\ c.posts \subseteq Posts /\ c.lines \subseteq Lines
         /\ c.left \subseteq Posts /\ c.post \subseteq Posts
         /\ About(c) \subseteq Posts
         /\ \A l \in c.lines : l[1] \in About(c)
         /\ c.posts \subseteq About(c)
<1>1. c.posts \subseteq Posts /\ c.lines \subseteq Lines
  BY DEF Calls
<1>2. About(c) \subseteq Posts
  BY <1>1, LinesMeans DEF About
<1> QED BY <1>1, <1>2 DEF Calls, About

LEMMA Within ==
  ASSUME NEW c \in Calls, Shape(c)
  PROVE  Midway(c) \subseteq About(c) /\ Uncounted(c) \subseteq About(c)
<1>1. c.posts \subseteq About(c)
  BY DEF About
<1>2. c.at \in {"write", "check", "change", "count"} => c.post \subseteq About(c)
  BY DEF Shape
<1>3. c.at = "changed" => c.seen \subseteq About(c)
  BY <1>1 DEF Shape
<1> QED BY <1>1, <1>2, <1>3 DEF Midway, Uncounted

\* What a request knows stays true while others write to other posts.
LEMMA RightKept ==
  ASSUME NEW c \in Calls, Shape(c), NEW rd, NEW ls, NEW rd2, NEW ls2,
         ls \subseteq Lines, ls2 \subseteq Lines,
         \A p \in About(c) : (p \in rd2) = (p \in rd),
         \A l \in Lines : l[1] \in About(c) => (l \in ls2) = (l \in ls),
         Right(c, rd, ls)
  PROVE  Right(c, rd2, ls2)
<1>1. \A p \in About(c) : /\ p \in Posts /\ Of(p) \subseteq Lines
                          /\ Of(p) \cap ls2 = Of(p) \cap ls
                          /\ ls2 \cap Of(p) = ls \cap Of(p)
                          /\ (Of(p) \subseteq ls2) = (Of(p) \subseteq ls)
  <2> TAKE p \in About(c)
  <2>1. p \in Posts /\ Of(p) \subseteq Lines /\ \A l \in Of(p) : l[1] = p
    BY CallTyped, LinesMeans
  <2>2. \A l \in Of(p) : (l \in ls2) = (l \in ls)
    BY <2>1
  <2> QED BY <2>1, <2>2
<1>2. /\ c.posts \subseteq About(c)
      /\ c.at \in {"write", "check", "change", "count"} => c.post \subseteq About(c)
      /\ \A l \in c.lines : l \in Lines /\ l[1] \in About(c)
  BY CallTyped DEF Shape
<1>3. c.at = "found" => c.seen = {p \in c.posts : (p \in rd2) # c.to}
  BY <1>2 DEF Right
<1>4. c.at \in {"changed", "sentences", "ok"} => \A p \in c.posts : (p \in rd2) = c.to
  BY <1>2 DEF Right
<1>5. c.at = "sentences" =>
       \A p \in c.posts \ c.left : IF c.to THEN Of(p) \subseteq ls2 ELSE Of(p) \cap ls2 = {}
  BY <1>1, <1>2 DEF Right
<1>6. c.at = "write" => \A p \in c.post : c.seen = ls2 \cap Of(p)
  BY <1>1, <1>2 DEF Right
<1>7. c.at = "check" =>
       \A p \in c.post : /\ c.seen = ls2 \cap Of(p)
                         /\ IF c.to THEN p \in rd2 => Of(p) \subseteq ls2 ELSE ~(Of(p) \subseteq ls2)
  BY <1>1, <1>2 DEF Right
<1>8. c.at = "change" =>
       \A p \in c.post : IF c.to THEN p \notin rd2 /\ Of(p) \subseteq ls2
                         ELSE p \in rd2 /\ ~(Of(p) \subseteq ls2)
  BY <1>1, <1>2 DEF Right
<1>9. c.at = "count" => \A p \in c.post : (p \in rd2) = c.to
  BY <1>2 DEF Right
<1>10. c.at \in LineSteps \cup {"ok"} =>
         \A l \in c.lines : l[1] \in Done(c) => (l \in ls2) = c.to
  BY <1>2 DEF Right
<1> QED BY <1>3, <1>4, <1>5, <1>6, <1>7, <1>8, <1>9, <1>10 DEF Right

LEMMA AgreeKept ==
  ASSUME NEW p \in Posts, NEW rd, NEW ls, NEW rd2, NEW ls2, (p \in rd2) = (p \in rd),
         \A l \in Of(p) : (l \in ls2) = (l \in ls)
  PROVE  Agree(p, rd, ls) <=> Agree(p, rd2, ls2)
BY DEF Agree

-----------------------------------------------------------------------------
(* The counter. *)

LEMMA Counts ==
  ASSUME NEW A \in SUBSET Posts, NEW D \in SUBSET Posts
  PROVE  /\ Cardinality(A) \in Nat /\ Cardinality(D) \in Nat
         /\ D \subseteq A => Cardinality(A \ D) = Cardinality(A) - Cardinality(D)
         /\ D \cap A = {} => Cardinality(A \cup D) = Cardinality(A) + Cardinality(D)
<1>1. IsFiniteSet(A) /\ IsFiniteSet(D) /\ IsFiniteSet(A \ D)
  BY ReadStateAssumption, FS_Subset
<1>2. Cardinality(A) \in Nat /\ Cardinality(D) \in Nat /\ Cardinality(A \ D) \in Nat
  BY <1>1, FS_CardinalityType
<1>3. ASSUME D \cap A = {} PROVE Cardinality(A \cup D) = Cardinality(A) + Cardinality(D)
  <2>1. Cardinality(A \cup D) = Cardinality(A) + Cardinality(D) - Cardinality(A \cap D)
    BY <1>1, FS_Union
  <2>2. A \cap D = {}
    BY <1>3
  <2>3. Cardinality(A \cap D) = 0
    BY <2>2, FS_EmptySet
  <2> QED BY <1>2, <2>1, <2>3
<1>4. ASSUME D \subseteq A PROVE Cardinality(A \ D) = Cardinality(A) - Cardinality(D)
  <2>1. Cardinality((A \ D) \cup D) = Cardinality(A \ D) + Cardinality(D) - Cardinality((A \ D) \cap D)
    BY <1>1, FS_Union
  <2>2. (A \ D) \cup D = A /\ (A \ D) \cap D = {}
    BY <1>4
  <2>3. Cardinality((A \ D) \cap D) = 0 /\ Cardinality((A \ D) \cup D) = Cardinality(A)
    BY <2>2, FS_EmptySet
  <2> QED BY <1>2, <2>1, <2>3
<1> QED BY <1>2, <1>3, <1>4

-----------------------------------------------------------------------------
(* What a step of a handler does, in the words of the invariants. *)

\* Request s becomes k.
Becomes(s, k) ==
  /\ k \in Calls /\ Shape(k) /\ k.at # "free" /\ calls' = [calls EXCEPT ![s] = k]
  /\ k.page = calls[s].page /\ k.buttons = calls[s].buttons /\ k.to = calls[s].to
  /\ k.posts = calls[s].posts /\ k.lines = calls[s].lines
  /\ read' \subseteq Posts /\ lines' \subseteq Lines /\ unread' \in Int
  /\ UNCHANGED <<made, crossed, faults>>

\* It writes what it is about only, and knows what it did.
Writes(s, k) ==
  /\ \A p \in Posts : p \notin About(k) => (p \in read') = (p \in read)
  /\ \A l \in Lines : l[1] \notin About(k) => (l \in lines') = (l \in lines)
  /\ Right(k, read', lines')
  /\ \A p \in About(k) : Agree(p, read', lines') \/ p \in Midway(k)
  /\ \A p \in k.posts : \/ k.at \in {"changed", "sentences", "ok"}
                        \/ /\ calls[s].at \notin {"changed", "sentences", "ok"}
                           /\ (p \in read') = (p \in read)
  /\ k.posts = {} => \A l \in Lines : l \notin k.lines => (l \in lines') = (l \in lines)

\* A step that counts nothing, or what it had not yet counted.
KeepsCount(s, k) ==
  /\ unread' = unread
  /\ \A p \in About(k) :
       IF p \in Uncounted(k) <=> p \in Uncounted(calls[s]) THEN p \in read' <=> p \in read
       ELSE p \in read' <=> p \notin read

CountsAll(s, k) ==
  /\ read' = read /\ Uncounted(k) = {}
  /\ \A p \in Uncounted(calls[s]) : (p \in read) = k.to
  /\ CountBy(Cardinality(Uncounted(calls[s])), k.to)

LEMMA BecomesTyped ==
  ASSUME TInv, NEW s \in Slots, NEW k, Becomes(s, k), UNCHANGED <<open, pageVars>>
  PROVE  TInv'
<1>1. /\ calls' \in [Slots -> Calls]
      /\ \A z \in Slots : calls'[z] = IF z = s THEN k ELSE calls[z]
  BY DEF Becomes, TInv, TypeOK, ReadTypeOK
<1>2. TypeOK'
  BY <1>1 DEF Becomes, TInv, TypeOK, ReadTypeOK, pageVars, lineVars
<1>3. \A z \in Slots : Shape(calls'[z])
  BY <1>1 DEF Becomes, TInv
<1>4. \A z \in Slots : Shape(calls[z])'
  BY <1>3 DEF Shape, About
<1> QED BY <1>2, <1>4 DEF TInv

\* The other requests are about other posts.
LEMMA Others ==
  ASSUME TInv, RInv, Undisturbed, NEW s \in Slots
  PROVE  \A z \in Slots \ {s} :
           /\ calls[z] \in Calls /\ Shape(calls[z]) /\ About(calls[z]) \subseteq Posts
           /\ \A p \in About(calls[s]) : p \notin About(calls[z]) /\ p \notin Midway(calls[z])
                                      /\ p \notin Uncounted(calls[z])
<1> TAKE z \in Slots \ {s}
<1>1. calls[z] \in Calls /\ Shape(calls[z])
  BY DEF TInv, TypeOK, ReadTypeOK
<1>2. About(calls[s]) \cap About(calls[z]) = {}
  BY DEF RInv, Disjoint
<1> QED BY <1>1, <1>2, CallTyped, Within

LEMMA CountKept ==
  ASSUME TInv, RInv, Undisturbed, NEW s \in Slots, NEW k, Becomes(s, k), Writes(s, k),
         KeepsCount(s, k)
  PROVE  unread' = Cardinality(Posts \ Counted(calls', read'))
<1>1. /\ \A z \in Slots \ {s} : calls'[z] = calls[z]
      /\ calls'[s] = k /\ About(k) = About(calls[s])
      /\ Uncounted(k) \subseteq About(k) /\ Uncounted(calls[s]) \subseteq About(k)
  <2>1. calls[s] \in Calls /\ Shape(calls[s])
    BY DEF TInv, TypeOK, ReadTypeOK
  <2> QED BY <2>1, Within DEF Becomes, TInv, TypeOK, ReadTypeOK, About
<1>2. ASSUME NEW p \in Posts
      PROVE  p \in Counted(calls', read') <=> p \in Counted(calls, read)
  <2>1. CASE p \in About(k)
    <3>. \A z \in Slots \ {s} : p \notin Uncounted(calls[z])
      BY <1>1, <2>1, Others
    <3>1. (\E z \in Slots : p \in Uncounted(calls[z])) <=> p \in Uncounted(calls[s])
      OBVIOUS
    <3>2. (\E z \in Slots : p \in Uncounted(calls'[z])) <=> p \in Uncounted(k)
      BY <1>1
    <3>3. p \in Counted(calls', read') <=> IF p \in Uncounted(k) THEN p \notin read' ELSE p \in read'
      BY <3>2 DEF Counted
    <3>4. p \in Counted(calls, read) <=>
            IF p \in Uncounted(calls[s]) THEN p \notin read ELSE p \in read
      BY <3>1 DEF Counted
    <3> QED BY <2>1, <3>3, <3>4 DEF KeepsCount
  <2>2. CASE p \notin About(k)
    <3>1. (p \in read') = (p \in read)
      BY <2>2 DEF Writes
    <3>2. (\E z \in Slots : p \in Uncounted(calls'[z])) = (\E z \in Slots : p \in Uncounted(calls[z]))
      BY <1>1, <2>2
    <3> QED BY <3>1, <3>2 DEF Counted
  <2> QED BY <2>1, <2>2
<1>3. Counted(calls', read') = Counted(calls, read)
  BY <1>2 DEF Counted
<1> QED BY <1>3 DEF KeepsCount, RInv

LEMMA CountMoved ==
  ASSUME TInv, RInv, Undisturbed, NEW s \in Slots, NEW k, Becomes(s, k), CountsAll(s, k)
  PROVE  unread' = Cardinality(Posts \ Counted(calls', read'))
<1> DEFINE D == Uncounted(calls[s])
           A == Posts \ Counted(calls, read)
           B == Posts \ Counted(calls', read')
<1>1. /\ \A z \in Slots \ {s} : calls'[z] = calls[z]
      /\ calls'[s] = k /\ About(k) = About(calls[s])
      /\ D \subseteq About(k) /\ About(k) \subseteq Posts /\ k.to \in BOOLEAN
  <2>1. calls[s] \in Calls /\ Shape(calls[s])
    BY DEF TInv, TypeOK, ReadTypeOK
  <2> QED BY <2>1, Within, CallTyped DEF Becomes, TInv, TypeOK, ReadTypeOK, About
<1>2. ASSUME NEW p \in D
      PROVE  /\ p \in Posts
             /\ p \in Counted(calls, read) <=> ~k.to
             /\ p \in Counted(calls', read') <=> k.to
  <2>1. p \in Posts /\ (p \in read) = k.to /\ (p \in read') = k.to
    BY <1>1 DEF CountsAll
  <2>2. \E z \in Slots : p \in Uncounted(calls[z])
    OBVIOUS
  <2>3. ~\E z \in Slots : p \in Uncounted(calls'[z])
    BY <1>1, Others DEF CountsAll
  <2> QED BY <1>1, <2>1, <2>2, <2>3 DEF Counted
<1>3. ASSUME NEW p \in Posts, p \notin D
      PROVE  p \in Counted(calls', read') <=> p \in Counted(calls, read)
  <2>1. (\E z \in Slots : p \in Uncounted(calls'[z])) = (\E z \in Slots : p \in Uncounted(calls[z]))
    BY <1>1, <1>3 DEF CountsAll
  <2> QED BY <2>1 DEF Counted, CountsAll
<1>4. D \in SUBSET Posts /\ A \in SUBSET Posts
  BY <1>2
<1>5. unread = Cardinality(A) /\ Cardinality(A) \in Nat /\ Cardinality(D) \in Nat
  BY <1>4, Counts DEF RInv
<1>6. CASE k.to
  <2>1. B = A \ D /\ D \subseteq A
    <3> HIDE DEF D
    <3> QED BY <1>2, <1>3, <1>6
  <2>2. Cardinality(B) = Cardinality(A) - Cardinality(D)
    <3> HIDE DEF A, D, B
    <3> QED BY <1>4, <2>1, Counts
  <2> QED BY <1>5, <1>6, <2>2 DEF CountsAll, CountBy
<1>7. CASE ~k.to
  <2>1. B = A \cup D /\ D \cap A = {}
    <3> HIDE DEF D
    <3> QED BY <1>2, <1>3, <1>7
  <2>2. Cardinality(B) = Cardinality(A) + Cardinality(D)
    <3> HIDE DEF A, D, B
    <3> QED BY <1>4, <2>1, Counts
  <2> QED BY <1>5, <1>7, <2>2 DEF CountsAll, CountBy
<1> QED BY <1>1, <1>6, <1>7

LEMMA BecomesRight ==
  ASSUME TInv, RInv, Undisturbed, NEW s \in Slots, NEW k, Becomes(s, k), Writes(s, k),
         KeepsCount(s, k) \/ CountsAll(s, k)
  PROVE  RInv'
<1>1. /\ \A z \in Slots \ {s} : calls'[z] = calls[z]
      /\ calls'[s] = k /\ About(k) = About(calls[s]) /\ About(k) \subseteq Posts
      /\ lines \subseteq Lines /\ lines' \subseteq Lines
  BY CallTyped DEF Becomes, TInv, TypeOK, ReadTypeOK, About
<1>2. unread' = Cardinality(Posts \ Counted(calls', read'))
  BY CountKept, CountMoved
<1>3. \A z, y \in Slots : z # y => About(calls'[z]) \cap About(calls'[y]) = {}
  BY <1>1 DEF RInv, Disjoint
<1>4. ASSUME NEW z \in Slots PROVE Right(calls'[z], read', lines')
  <2>1. CASE z = s
    BY <1>1, <2>1 DEF Writes
  <2>2. CASE z # s
    <3>1. /\ calls'[z] = calls[z] /\ calls[z] \in Calls /\ Shape(calls[z])
          /\ About(calls[z]) \subseteq Posts /\ Right(calls[z], read, lines)
          /\ About(calls[z]) \cap About(k) = {}
      BY <1>1, <2>2, Others DEF RInv, Disjoint
    <3>2. /\ \A p \in About(calls[z]) : (p \in read') = (p \in read)
          /\ \A l \in Lines : l[1] \in About(calls[z]) => (l \in lines') = (l \in lines)
      BY <3>1 DEF Writes
    <3>3. Right(calls[z], read', lines')
      BY <1>1, <3>1, <3>2, RightKept
    <3> QED BY <3>1, <3>3
  <2> QED BY <2>1, <2>2
<1>5. ASSUME NEW p \in Posts
      PROVE  Agree(p, read', lines') \/ \E z \in Slots : p \in Midway(calls'[z])
  <2>1. CASE p \in About(k)
    BY <1>1, <2>1 DEF Writes
  <2>2. CASE p \notin About(k)
    <3>1. (p \in read') = (p \in read) /\ \A l \in Of(p) : (l \in lines') = (l \in lines)
      BY <2>2, LinesMeans DEF Writes
    <3>2. CASE Agree(p, read, lines)
      BY <3>1, <3>2, AgreeKept
    <3>3. ASSUME NEW z \in Slots, p \in Midway(calls[z])
          PROVE  \E y \in Slots : p \in Midway(calls'[y])
      <4>1. calls[s] \in Calls /\ Shape(calls[s])
        BY DEF TInv, TypeOK, ReadTypeOK
      <4>2. z # s
        BY <1>1, <2>2, <3>3, <4>1, Within
      <4> QED BY <1>1, <3>3, <4>2
    <3> QED BY <3>2, <3>3 DEF RInv
  <2> QED BY <2>1, <2>2
<1> QED BY <1>2, <1>3, <1>4, <1>5 DEF RInv, Disjoint

LEMMA BecomesShown ==
  ASSUME TInv, PInv, Undisturbed, NEW s \in Slots, NEW k, Becomes(s, k), Writes(s, k),
         UNCHANGED <<open, pageVars>>
  PROVE  PInv'
<1>1. /\ \A z \in Slots \ {s} : calls'[z] = calls[z]
      /\ calls'[s] = k /\ k.posts = calls[s].posts /\ k.lines = calls[s].lines
      /\ k.buttons = calls[s].buttons
      /\ open' = open /\ storage' = storage /\ shown' = shown /\ behind' = behind
  BY DEF Becomes, TInv, TypeOK, ReadTypeOK, pageVars, lineVars
<1>2. SUFFICES ASSUME NEW g \in Pages, Alone(g), Kind[g] # "grouped"
               PROVE  /\ HoldsPosts(g) =>
                           \A p \in Posts : Moved(p)' \/ (p \in storage[g]) = (p \in read')
                      /\ Kind[g] = "hierarchy" => DialogAgrees(g)'
                      /\ ShowsSnippets(g) => SnippetsAgree(g)'
  BY <1>1 DEF PInv, Alone, HoldsPosts, ShowsSnippets
<1>3. k.page = g
  BY <1>2 DEF Becomes, Shape, Alone
<1>4. ASSUME HoldsPosts(g), NEW p \in Posts, ~Moved(p)'
      PROVE  (p \in storage[g]) = (p \in read')
  <2>1. k.lines = {}
    BY <1>2, <1>3, <1>4 DEF HoldsPosts, Becomes, Shape
  <2>2. p \in About(k) => p \in k.posts
    BY <2>1 DEF About
  <2>3. (p \in read') = (p \in read)
    BY <1>1, <1>4, <2>2 DEF Writes, Moved
  <2>4. ~Moved(p)
    BY <1>1, <1>4 DEF Writes, Moved
  <2> QED BY <1>2, <1>4, <2>3, <2>4 DEF PInv
<1>5. ASSUME Kind[g] = "hierarchy" \/ ShowsSnippets(g)
      PROVE  \A l \in Lines : Asked(l)' = Asked(l) /\ (Asked(l)' \/ (l \in lines') = (l \in lines))
  <2>1. k.posts = {}
    BY <1>2, <1>3, <1>5 DEF Becomes, Shape
  <2> QED BY <1>1, <2>1 DEF Writes, Asked
<1>6. ASSUME Kind[g] = "hierarchy" PROVE DialogAgrees(g)'
  <2>1. DialogAgrees(g)
    BY <1>2, <1>6 DEF PInv
  <2>2. \A z \in Slots : calls'[z].buttons = calls[z].buttons /\ calls'[z].lines = calls[z].lines
    BY <1>1
  <2> QED BY <1>1, <1>5, <1>6, <2>1, <2>2 DEF DialogAgrees
<1>7. ASSUME ShowsSnippets(g) PROVE SnippetsAgree(g)'
  <2>1. SnippetsAgree(g)
    BY <1>2, <1>7 DEF PInv
  <2>2. ASSUME NEW t \in On[g]
        PROVE  \/ t \in behind'[g] \/ \E l \in Has[t] : Asked(l)'
               \/ (t \in shown'[g]) = (Has[t] \subseteq lines')
    <3>1. \A l \in Has[t] : l \in Lines
      BY PagesAssumption
    <3> QED BY <1>1, <1>5, <1>7, <2>1, <3>1 DEF SnippetsAgree
  <2> QED BY <2>2 DEF SnippetsAgree
<1> QED BY <1>4, <1>6, <1>7

\* What remains to be shown of a step of a handler.
LEMMA BecomesKept ==
  ASSUME TInv, RInv, PInv, NEW s \in Slots, NEW k, Becomes(s, k), UNCHANGED <<open, pageVars>>,
         Undisturbed => Writes(s, k) /\ (KeepsCount(s, k) \/ CountsAll(s, k))
  PROVE  TInv' /\ RInv' /\ PInv'
<1>1. TInv'
  BY BecomesTyped
<1>2. CASE Undisturbed
  BY <1>1, <1>2, BecomesRight, BecomesShown
<1>3. CASE ~Undisturbed
  <2>1. ~Undisturbed'
    BY <1>3 DEF Undisturbed, Becomes
  <2> QED BY <1>1, <2>1 DEF RInv, PInv
<1> QED BY <1>2, <1>3

-----------------------------------------------------------------------------
(* The steps of the two handlers. *)

SameRequest(c, k) ==
  /\ k.page = c.page /\ k.buttons = c.buttons /\ k.to = c.to
  /\ k.posts = c.posts /\ k.lines = c.lines

LEMMA Own ==
  ASSUME TInv, NEW s \in Slots
  PROVE  /\ calls[s] \in Calls /\ Shape(calls[s]) /\ calls[s].at \in Steps
         /\ calls[s].to \in BOOLEAN /\ calls[s].posts \subseteq Posts
         /\ calls[s].lines \subseteq Lines /\ About(calls[s]) \subseteq Posts
         /\ \A l \in calls[s].lines : l[1] \in About(calls[s])
         /\ calls[s].posts \subseteq About(calls[s])
         /\ read \subseteq Posts /\ lines \subseteq Lines /\ unread \in Int
BY CallTyped DEF TInv, TypeOK, ReadTypeOK

\* What a request is about agrees, where it is not midway.
LEMMA OwnAgree ==
  ASSUME TInv, RInv, Undisturbed, NEW s \in Slots, NEW p \in About(calls[s])
  PROVE  Agree(p, read, lines) \/ p \in Midway(calls[s])
<1>1. p \in Posts
  BY Own
<1> QED BY <1>1, Others DEF RInv

LEMMA Stepped ==
  ASSUME TInv, NEW s \in Slots, NEW at \in Steps, Step(s, at)
  PROVE  \E k \in Calls : /\ calls' = [calls EXCEPT ![s] = k] /\ k.at = at
                          /\ k.left = calls[s].left /\ k.post = calls[s].post
                          /\ k.seen = calls[s].seen /\ SameRequest(calls[s], k)
<1> DEFINE k == [calls[s] EXCEPT !.at = at]
<1>1. calls[s] \in Calls /\ calls \in [Slots -> Calls]
  BY DEF TInv, TypeOK, ReadTypeOK
<1>2. calls' = [calls EXCEPT ![s] = k]
  BY <1>1 DEF Step
<1>3. /\ k \in Calls /\ k.at = at /\ k.left = calls[s].left /\ k.post = calls[s].post
      /\ k.seen = calls[s].seen /\ SameRequest(calls[s], k)
  BY <1>1 DEF Calls, SameRequest
<1> QED BY <1>2, <1>3

LEMMA Ended ==
  ASSUME TInv, NEW s \in Slots, NEW at \in Steps, End(s, at)
  PROVE  \E k \in Calls : /\ calls' = [calls EXCEPT ![s] = k] /\ k.at = at
                          /\ k.left = {} /\ k.post = {} /\ k.seen = {} /\ SameRequest(calls[s], k)
<1> DEFINE k == [calls[s] EXCEPT !.at = at, !.left = {}, !.post = {}, !.seen = {}]
<1>1. calls[s] \in Calls /\ calls \in [Slots -> Calls]
  BY DEF TInv, TypeOK, ReadTypeOK
<1>2. calls' = [calls EXCEPT ![s] = k]
  BY <1>1 DEF End
<1>3. /\ k \in Calls /\ k.at = at /\ k.left = {} /\ k.post = {} /\ k.seen = {}
      /\ SameRequest(calls[s], k)
  BY <1>1 DEF Calls, SameRequest
<1> QED BY <1>2, <1>3

Kept == TInv' /\ RInv' /\ PInv'

LEMMA FindPostsKept ==
  ASSUME TInv, RInv, PInv, NEW s \in Slots, FindPosts(s), UNCHANGED <<open, pageVars>>
  PROVE  Kept
<1> DEFINE c == calls[s]
           differ == {p \in c.posts : (p \in read) # c.to}
<1>1. /\ c.at = "posts" /\ UNCHANGED dbVars /\ UNCHANGED <<made, crossed, faults>>
      /\ IF differ = {} THEN End(s, "refused")
         ELSE calls' = [calls EXCEPT ![s].seen = differ, ![s].at = "found"]
  BY DEF FindPosts, Same
<1>2. /\ c \in Calls /\ Shape(c) /\ c.lines = {} /\ About(c) = c.posts /\ c.posts \subseteq Posts
      /\ c.left = c.posts
  BY <1>1, Own DEF Shape, About, PostSteps
<1>3. PICK k \in Calls :
        /\ calls' = [calls EXCEPT ![s] = k] /\ SameRequest(c, k)
        /\ \/ k.at = "refused" /\ k.left = {} /\ k.post = {}
           \/ k.at = "found" /\ k.left = c.left /\ k.post = c.post /\ k.seen = differ
  <2>1. CASE differ = {}
    BY <1>1, <2>1, Ended DEF Steps
  <2>2. CASE differ # {}
    <3> DEFINE k == [c EXCEPT !.seen = differ, !.at = "found"]
    <3>1. calls' = [calls EXCEPT ![s] = k]
      BY <1>1, <2>2 DEF TInv, TypeOK, ReadTypeOK
    <3>2. /\ k \in Calls /\ k.at = "found" /\ k.left = c.left /\ k.post = c.post /\ k.seen = differ
          /\ SameRequest(c, k)
      BY <1>2 DEF Calls, Steps, SameRequest
    <3> QED BY <3>1, <3>2
  <2> QED BY <2>1, <2>2
<1>4. About(k) = c.posts /\ Midway(c) = {} /\ Uncounted(k) = {} /\ Uncounted(c) = {}
  BY <1>1, <1>2, <1>3 DEF About, SameRequest, Midway, Uncounted
<1>5. Shape(k)
  BY <1>1, <1>2, <1>3, <1>4 DEF Shape, SameRequest, PostSteps, LineSteps
<1>6. Becomes(s, k)
  BY <1>1, <1>3, <1>5, Own DEF Becomes, SameRequest, dbVars
<1>7. Right(k, read, lines)
  BY <1>2, <1>3 DEF Right, SameRequest, LineSteps
<1>8. Undisturbed => Writes(s, k) /\ KeepsCount(s, k)
  <2> SUFFICES ASSUME Undisturbed PROVE Writes(s, k) /\ KeepsCount(s, k)
    OBVIOUS
  <2>1. \A p \in About(k) : Agree(p, read, lines)
    BY <1>2, <1>4, OwnAgree
  <2> QED BY <1>1, <1>4, <1>7, <2>1 DEF Writes, KeepsCount, dbVars
<1> QED BY <1>6, <1>8, BecomesKept DEF Kept

LEMMA ChangePostsKept ==
  ASSUME TInv, RInv, PInv, NEW s \in Slots, ChangePosts(s), UNCHANGED <<open, pageVars>>
  PROVE  Kept
<1> DEFINE c == calls[s]
<1>1. /\ c.at = "found" /\ UNCHANGED <<lines, unread>> /\ UNCHANGED <<made, crossed, faults>>
      /\ SetPosts(c.posts, c.to) /\ Step(s, "changed")
  BY DEF ChangePosts, Same
<1>2. /\ c \in Calls /\ Shape(c) /\ c.lines = {} /\ About(c) = c.posts /\ c.posts \subseteq Posts
      /\ c.left = c.posts /\ c.seen \subseteq c.posts /\ c.to \in BOOLEAN
  BY <1>1, Own DEF Shape, About, PostSteps
<1>3. PICK k \in Calls :
        /\ calls' = [calls EXCEPT ![s] = k] /\ SameRequest(c, k)
        /\ k.at = "changed" /\ k.left = c.left /\ k.post = c.post /\ k.seen = c.seen
  BY <1>1, Stepped DEF Steps
<1>4. About(k) = c.posts /\ Midway(k) = c.posts /\ Uncounted(k) = c.seen /\ Uncounted(c) = {}
  BY <1>1, <1>2, <1>3 DEF About, SameRequest, Midway, Uncounted
<1>5. Shape(k)
  BY <1>1, <1>2, <1>3, <1>4 DEF Shape, SameRequest, PostSteps, LineSteps
<1>6. /\ \A p \in c.posts : p \in read' <=> c.to
      /\ \A p : p \notin c.posts => (p \in read' <=> p \in read)
      /\ read' \subseteq Posts
  BY <1>1, <1>2, Own DEF SetPosts
<1>7. Becomes(s, k)
  BY <1>1, <1>3, <1>5, <1>6, Own DEF Becomes, SameRequest
<1>8. Right(k, read', lines')
  BY <1>2, <1>3, <1>6 DEF Right, SameRequest, LineSteps
<1>9. Undisturbed => Writes(s, k) /\ KeepsCount(s, k)
  <2> SUFFICES ASSUME Undisturbed PROVE Writes(s, k) /\ KeepsCount(s, k)
    OBVIOUS
  <2>1. c.seen = {p \in c.posts : (p \in read) # c.to}
    BY <1>1 DEF RInv, Right
  <2>2. KeepsCount(s, k)
    BY <1>1, <1>2, <1>4, <1>6, <2>1 DEF KeepsCount
  <2>3. Writes(s, k)
    BY <1>1, <1>3, <1>4, <1>6, <1>8 DEF Writes, SameRequest
  <2> QED BY <2>2, <2>3
<1> QED BY <1>7, <1>9, BecomesKept DEF Kept

LEMMA CountPostsKept ==
  ASSUME TInv, RInv, PInv, NEW s \in Slots, CountPosts(s), UNCHANGED <<open, pageVars>>
  PROVE  Kept
<1> DEFINE c == calls[s]
<1>1. /\ c.at = "changed" /\ UNCHANGED <<read, lines>> /\ UNCHANGED <<made, crossed, faults>>
      /\ CountBy(Cardinality(c.seen), c.to) /\ Step(s, "sentences")
  BY DEF CountPosts, Same
<1>2. /\ c \in Calls /\ Shape(c) /\ c.lines = {} /\ About(c) = c.posts /\ c.posts \subseteq Posts
      /\ c.left = c.posts /\ c.seen \subseteq c.posts /\ c.to \in BOOLEAN
  BY <1>1, Own DEF Shape, About, PostSteps
<1>3. PICK k \in Calls :
        /\ calls' = [calls EXCEPT ![s] = k] /\ SameRequest(c, k)
        /\ k.at = "sentences" /\ k.left = c.left /\ k.post = c.post /\ k.seen = c.seen
  BY <1>1, Stepped DEF Steps
<1>4. About(k) = c.posts /\ Midway(k) = c.posts /\ Uncounted(k) = {} /\ Uncounted(c) = c.seen
  BY <1>1, <1>2, <1>3 DEF About, SameRequest, Midway, Uncounted
<1>5. Shape(k)
  BY <1>1, <1>2, <1>3, <1>4 DEF Shape, SameRequest, PostSteps, LineSteps
<1>6. unread' \in Int
  <2>1. c.seen \in SUBSET Posts
    BY <1>2
  <2>2. Cardinality(c.seen) \in Nat
    BY <2>1, Counts
  <2> QED BY <1>1, <2>2, Own DEF CountBy
<1>7. Becomes(s, k)
  BY <1>1, <1>3, <1>5, <1>6, Own DEF Becomes, SameRequest
<1>8. Undisturbed => Writes(s, k) /\ CountsAll(s, k)
  <2> SUFFICES ASSUME Undisturbed PROVE Writes(s, k) /\ CountsAll(s, k)
    OBVIOUS
  <2>1. \A p \in c.posts : (p \in read) = c.to
    BY <1>1 DEF RInv, Right
  <2>2. CountsAll(s, k)
    BY <1>1, <1>2, <1>3, <1>4, <2>1 DEF CountsAll, SameRequest
  <2>3. Right(k, read', lines')
    BY <1>1, <1>2, <1>3, <2>1 DEF Right, SameRequest, LineSteps
  <2>4. Writes(s, k)
    BY <1>1, <1>3, <1>4, <2>3 DEF Writes, SameRequest
  <2> QED BY <2>2, <2>4
<1> QED BY <1>7, <1>8, BecomesKept DEF Kept

LEMMA MarkSentencesKept ==
  ASSUME TInv, RInv, PInv, NEW s \in Slots, NEW p \in Posts, MarkSentences(s, p),
         UNCHANGED <<open, pageVars>>
  PROVE  Kept
<1> DEFINE c == calls[s]
<1>1. /\ c.at = "sentences" /\ p \in c.left /\ UNCHANGED <<read, unread>>
      /\ UNCHANGED <<made, crossed, faults>>
      /\ lines' = IF c.to THEN lines \cup Of(p) ELSE lines \ Of(p)
      /\ IF c.left = {p} THEN End(s, "ok") ELSE calls' = [calls EXCEPT ![s].left = @ \ {p}]
  BY DEF MarkSentences, Same
<1>2. /\ c \in Calls /\ Shape(c) /\ c.lines = {} /\ About(c) = c.posts /\ c.posts \subseteq Posts
      /\ c.left \subseteq c.posts /\ c.to \in BOOLEAN
  BY <1>1, Own DEF Shape, About, PostSteps
<1>3. PICK k \in Calls :
        /\ calls' = [calls EXCEPT ![s] = k] /\ SameRequest(c, k) /\ k.left = c.left \ {p}
        /\ (k.at = "ok" /\ k.left = {}) \/ k.at = "sentences"
  <2>1. CASE c.left = {p}
    <3>1. c.left \ {p} = {}
      BY <2>1
    <3> QED BY <1>1, <2>1, <3>1, Ended DEF Steps
  <2>2. CASE c.left # {p}
    <3> DEFINE k == [c EXCEPT !.left = c.left \ {p}]
    <3>1. calls' = [calls EXCEPT ![s] = k]
      BY <1>1, <2>2 DEF TInv, TypeOK, ReadTypeOK
    <3>2. k \in Calls /\ k.at = "sentences" /\ k.left = c.left \ {p} /\ SameRequest(c, k)
      BY <1>1, <1>2 DEF Calls, SameRequest
    <3> QED BY <3>1, <3>2
  <2> QED BY <2>1, <2>2
<1>4. /\ About(k) = c.posts /\ Uncounted(k) = {} /\ Uncounted(c) = {}
      /\ k.at = "sentences" => Midway(k) = c.posts
  BY <1>1, <1>2, <1>3 DEF About, SameRequest, Midway, Uncounted
<1>5. Shape(k)
  BY <1>1, <1>2, <1>3, <1>4 DEF Shape, SameRequest, PostSteps, LineSteps
<1>6. /\ \A l \in Lines : l \notin Of(p) => (l \in lines') = (l \in lines)
      /\ IF c.to THEN Of(p) \subseteq lines' ELSE Of(p) \cap lines' = {}
      /\ lines' \subseteq Lines /\ Of(p) \subseteq Lines /\ \A l \in Of(p) : l[1] = p
  BY <1>1, Own, LinesMeans
<1>7. Becomes(s, k)
  BY <1>1, <1>3, <1>5, <1>6, Own DEF Becomes, SameRequest
<1>8. Undisturbed => Writes(s, k) /\ KeepsCount(s, k)
  <2> SUFFICES ASSUME Undisturbed PROVE Writes(s, k) /\ KeepsCount(s, k)
    OBVIOUS
  <2>1. /\ \A q \in c.posts : (q \in read) = c.to
        /\ \A q \in c.posts \ c.left : IF c.to THEN Of(q) \subseteq lines ELSE Of(q) \cap lines = {}
    BY <1>1 DEF RInv, Right
  <2>2. \A q \in c.posts \ k.left : IF c.to THEN Of(q) \subseteq lines' ELSE Of(q) \cap lines' = {}
    <3> TAKE q \in c.posts \ k.left
    <3>1. CASE q = p
      BY <1>6, <3>1
    <3>2. CASE q # p
      <4>1. q \in c.posts \ c.left /\ q \in Posts
        BY <1>2, <1>3, <3>2
      <4>2. \A l \in Of(q) : l \in Lines /\ l \notin Of(p)
        BY <3>2, <4>1, LinesMeans
      <4> QED BY <1>6, <2>1, <4>1, <4>2
    <3> QED BY <3>1, <3>2
  <2>3. Right(k, read', lines')
    BY <1>1, <1>2, <1>3, <2>1, <2>2 DEF Right, SameRequest, LineSteps
  <2>4. k.at = "ok" => \A q \in c.posts : Agree(q, read', lines')
    <3> SUFFICES ASSUME k.at = "ok", NEW q \in c.posts PROVE Agree(q, read', lines')
      OBVIOUS
    <3>1. IF c.to THEN Of(q) \subseteq lines' ELSE Of(q) \cap lines' = {}
      BY <1>3, <2>2
    <3>2. Of(q) # {} /\ (q \in read') = c.to
      BY <1>1, <1>2, <2>1, LinesMeans
    <3> QED BY <1>2, <3>1, <3>2 DEF Agree
  <2>5. Writes(s, k)
    <3>1. \A l \in Lines : l[1] \notin c.posts => (l \in lines') = (l \in lines)
      BY <1>1, <1>2, <1>6
    <3>2. k.posts = c.posts /\ c.posts # {}
      BY <1>1, <1>2, <1>3 DEF SameRequest
    <3> QED BY <1>1, <1>3, <1>4, <2>3, <2>4, <3>1, <3>2 DEF Writes
  <2>6. KeepsCount(s, k)
    BY <1>1, <1>4 DEF KeepsCount
  <2> QED BY <2>5, <2>6
<1> QED BY <1>7, <1>8, BecomesKept DEF Kept

LEMMA ReadSentencesKept ==
  ASSUME TInv, RInv, PInv, NEW s \in Slots, NEW p \in Posts, ReadSentences(s, p),
         UNCHANGED <<open, pageVars>>
  PROVE  Kept
<1> DEFINE c == calls[s]
           k == [c EXCEPT !.at = "write", !.left = c.left \ {p}, !.post = {p}, !.seen = lines \cap Of(p)]
<1>1. /\ c.at = "next" /\ p \in c.left /\ UNCHANGED dbVars /\ UNCHANGED <<made, crossed, faults>>
      /\ calls' = [calls EXCEPT ![s].at = "write", ![s].left = @ \ {p}, ![s].post = {p},
                                ![s].seen = lines \cap Of(p)]
  BY DEF ReadSentences, Same
<1>2. /\ c \in Calls /\ Shape(c) /\ c.lines # {} /\ c.posts = {} /\ lines \subseteq Lines
      /\ c.left \subseteq About(c)
  BY <1>1, Own DEF Shape, LineSteps
<1>3. calls' = [calls EXCEPT ![s] = k]
  BY <1>1 DEF TInv, TypeOK, ReadTypeOK
<1>4. /\ k \in Calls /\ k.at = "write" /\ k.left = c.left \ {p} /\ k.post = {p}
      /\ k.seen = lines \cap Of(p) /\ SameRequest(c, k)
  BY <1>2 DEF Calls, Steps, SameRequest
<1> HIDE DEF k
<1>5. /\ About(k) = About(c) /\ Uncounted(k) = {} /\ Uncounted(c) = {} /\ Midway(c) = {}
      /\ Done(k) = Done(c)
  BY <1>1, <1>4 DEF About, SameRequest, Midway, Uncounted, Done
<1>6. Shape(k)
  BY <1>1, <1>2, <1>4, <1>5 DEF Shape, SameRequest, PostSteps, LineSteps
<1>7. Becomes(s, k)
  BY <1>1, <1>3, <1>4, <1>6, Own DEF Becomes, SameRequest, dbVars
<1>8. Undisturbed => Writes(s, k) /\ KeepsCount(s, k)
  <2> SUFFICES ASSUME Undisturbed PROVE Writes(s, k) /\ KeepsCount(s, k)
    OBVIOUS
  <2>1. \A l \in c.lines : l[1] \in Done(c) => (l \in lines) = c.to
    BY <1>1 DEF RInv, Right, LineSteps
  <2>2. Right(k, read, lines)
    BY <1>4, <1>5, <2>1 DEF Right, SameRequest, LineSteps
  <2>3. \A q \in About(k) : Agree(q, read, lines)
    BY <1>5, OwnAgree
  <2>4. k.posts = {}
    BY <1>2, <1>4 DEF SameRequest
  <2> QED BY <1>1, <1>5, <2>2, <2>3, <2>4 DEF Writes, KeepsCount, dbVars
<1> QED BY <1>7, <1>8, BecomesKept DEF Kept

\* The sentences that are written back are those that are stored but for the request's.
LEMMA WriteSentencesKept ==
  ASSUME TInv, RInv, PInv, NEW s \in Slots, WriteSentences(s), UNCHANGED <<open, pageVars>>
  PROVE  Kept
<1> DEFINE c == calls[s]
           k == [c EXCEPT !.at = "check", !.seen = Updated(c)]
<1>1. /\ c.at = "write" /\ UNCHANGED <<read, unread>> /\ UNCHANGED <<made, crossed, faults>>
      /\ lines' = {l \in lines : l[1] \notin c.post} \cup Updated(c)
      /\ calls' = [calls EXCEPT ![s].at = "check", ![s].seen = Updated(c)]
  BY DEF WriteSentences, Same
<1>2. /\ c \in Calls /\ Shape(c) /\ c.lines # {} /\ c.posts = {} /\ lines \subseteq Lines
      /\ c.left \subseteq About(c) /\ c.lines \subseteq Lines /\ c.seen \subseteq Lines
      /\ c.to \in BOOLEAN
  BY <1>1, Own DEF Shape, LineSteps
<1>3. PICK p \in About(c) : c.post = {p} /\ p \notin c.left
  BY <1>1, <1>2 DEF Shape
<1>4. /\ p \in Posts /\ Of(p) \subseteq Lines /\ \A l \in Lines : l \in Of(p) <=> l[1] = p
      /\ \E l \in c.lines : l[1] = p
  <2>1. About(c) = {l[1] : l \in c.lines}
    BY <1>2 DEF About
  <2>2. p \in Posts
    BY Own
  <2> QED BY <2>1, <2>2, LinesMeans
<1>5. Updated(c) = IF c.to THEN c.seen \cup (c.lines \cap Of(p)) ELSE c.seen \ c.lines
  BY <1>3 DEF Updated
<1>6. Updated(c) \subseteq Lines /\ lines' \subseteq Lines
  BY <1>1, <1>2, <1>5
<1>7. calls' = [calls EXCEPT ![s] = k]
  BY <1>1 DEF TInv, TypeOK, ReadTypeOK
<1>8. /\ k \in Calls /\ k.at = "check" /\ k.left = c.left /\ k.post = {p}
      /\ k.seen = Updated(c) /\ SameRequest(c, k)
  BY <1>2, <1>3, <1>6 DEF Calls, Steps, SameRequest
<1> HIDE DEF k
<1>9. /\ About(k) = About(c) /\ Uncounted(k) = {} /\ Uncounted(c) = {} /\ Midway(c) = {}
      /\ Midway(k) = {p} /\ Done(k) = Done(c) \cup {p}
  BY <1>1, <1>3, <1>8 DEF About, SameRequest, Midway, Uncounted, Done
<1>10. Shape(k)
  BY <1>1, <1>2, <1>3, <1>8, <1>9 DEF Shape, SameRequest, PostSteps, LineSteps
<1>11. Becomes(s, k)
  BY <1>1, <1>6, <1>7, <1>8, <1>10, Own DEF Becomes, SameRequest
<1>12. Undisturbed => Writes(s, k) /\ KeepsCount(s, k)
  <2> SUFFICES ASSUME Undisturbed PROVE Writes(s, k) /\ KeepsCount(s, k)
    OBVIOUS
  <2>1. /\ \A l \in c.lines : l[1] \in Done(c) => (l \in lines) = c.to
        /\ c.seen = lines \cap Of(p)
    BY <1>1, <1>3 DEF RInv, Right, LineSteps
  <2>2. Agree(p, read, lines)
    BY <1>3, <1>9, OwnAgree
  <2>3. /\ \A l \in Lines : l \in lines' <=>
             IF l \in c.lines /\ l[1] = p THEN c.to ELSE l \in lines
        /\ Updated(c) = lines' \cap Of(p)
    <3>1. \A l \in Lines : l \in lines' <=> IF l[1] = p THEN l \in Updated(c) ELSE l \in lines
      BY <1>1, <1>2, <1>3, <1>4, <1>5, <2>1
    <3>2. \A l \in Lines : l[1] = p =>
            (l \in Updated(c) <=> IF l \in c.lines THEN c.to ELSE l \in lines)
      BY <1>2, <1>4, <1>5, <2>1
    <3>3. \A l \in Lines : l \in lines' <=>
             IF l \in c.lines /\ l[1] = p THEN c.to ELSE l \in lines
      BY <3>1, <3>2
    <3>4. Updated(c) \subseteq Of(p)
      BY <1>5, <2>1
    <3>5. Updated(c) = lines' \cap Of(p)
      BY <1>4, <1>6, <3>1, <3>4
    <3> QED BY <3>3, <3>5
  <2>4. IF c.to THEN p \in read => Of(p) \subseteq lines' ELSE ~(Of(p) \subseteq lines')
    <3>1. CASE c.to
      BY <1>4, <2>2, <2>3, <3>1 DEF Agree
    <3>2. CASE ~c.to
      <4>1. PICK l \in c.lines : l[1] = p
        BY <1>4
      <4>2. l \in Of(p) /\ l \notin lines'
        BY <1>2, <1>4, <2>3, <3>2, <4>1
      <4> QED BY <3>2, <4>2
    <3> QED BY <3>1, <3>2
  <2>5. \A l \in c.lines : l[1] \in Done(k) => (l \in lines') = c.to
    BY <1>2, <1>9, <2>1, <2>3
  <2>6. Right(k, read', lines')
    BY <1>1, <1>8, <2>3, <2>4, <2>5 DEF Right, SameRequest, LineSteps
  <2>7. /\ \A l \in Lines : l[1] \notin About(k) => (l \in lines') = (l \in lines)
        /\ \A l \in Lines : l \notin k.lines => (l \in lines') = (l \in lines)
    BY <1>3, <1>8, <1>9, <2>3 DEF SameRequest
  <2>8. \A q \in About(k) : Agree(q, read', lines') \/ q \in Midway(k)
    <3> TAKE q \in About(k)
    <3>1. CASE q = p
      BY <1>9, <3>1
    <3>2. CASE q # p
      <4>1. q \in Posts /\ Agree(q, read, lines)
        BY <1>9, Own, OwnAgree
      <4>2. \A l \in Of(q) : (l \in lines') = (l \in lines)
        BY <2>3, <3>2, <4>1, LinesMeans
      <4> QED BY <1>1, <4>1, <4>2, AgreeKept
    <3> QED BY <3>1, <3>2
  <2>9. k.posts = {}
    BY <1>2, <1>8 DEF SameRequest
  <2>10. Writes(s, k)
    BY <1>1, <2>6, <2>7, <2>8, <2>9 DEF Writes
  <2> QED BY <1>1, <1>9, <2>10 DEF KeepsCount
<1> QED BY <1>11, <1>12, BecomesKept DEF Kept

LEMMA OnwardGoes ==
  ASSUME TInv, NEW s \in Slots, calls[s].at \in {"check", "count"}, Onward(s)
  PROVE  \E k \in Calls : /\ calls' = [calls EXCEPT ![s] = k] /\ SameRequest(calls[s], k)
                          /\ k.at \in {"next", "ok"} /\ k.left = calls[s].left
                          /\ k.at = "ok" => k.left = {}
                          /\ Shape(k) /\ About(k) = About(calls[s]) /\ Done(k) = Done(calls[s])
                          /\ Midway(k) = {} /\ Uncounted(k) = {}
<1> DEFINE c == calls[s]
<1>1. PICK k \in Calls :
        /\ calls' = [calls EXCEPT ![s] = k] /\ SameRequest(c, k)
        /\ k.at \in {"next", "ok"} /\ k.left = c.left /\ (k.at = "ok" => k.left = {})
  <2>1. CASE c.left = {}
    BY <2>1, Ended DEF Onward, Steps
  <2>2. CASE c.left # {}
    BY <2>2, Stepped DEF Onward, Steps
  <2> QED BY <2>1, <2>2
<1>2. Shape(c) /\ c.posts = {} /\ c.lines # {}
  BY Own DEF Shape, LineSteps
<1>3. About(k) = About(c) /\ Midway(k) = {} /\ Uncounted(k) = {} /\ Done(k) = Done(c)
  BY <1>1 DEF About, SameRequest, Midway, Uncounted, Done
<1>4. Shape(k)
  BY <1>1, <1>2, <1>3 DEF Shape, SameRequest, PostSteps, LineSteps
<1> QED BY <1>1, <1>3, <1>4

\* What mark_sentences does with one post after it wrote its sentences.
LEMMA OfLines ==
  ASSUME TInv, NEW s \in Slots, calls[s].at \in {"check", "change", "count"}
  PROVE  /\ calls[s].posts = {} /\ calls[s].lines # {}
         /\ \E p \in About(calls[s]) : calls[s].post = {p} /\ p \notin calls[s].left
         /\ RInv /\ Undisturbed =>
              \A l \in calls[s].lines : l[1] \in Done(calls[s]) => (l \in lines) = calls[s].to
BY Own DEF Shape, LineSteps, RInv, Right

LEMMA CheckPostKept ==
  ASSUME TInv, RInv, PInv, NEW s \in Slots, CheckPost(s), UNCHANGED <<open, pageVars>>
  PROVE  Kept
<1> DEFINE c == calls[s]
<1>1. /\ c.at = "check" /\ UNCHANGED dbVars /\ UNCHANGED <<made, crossed, faults>>
      /\ IF ShouldChange(c) THEN Step(s, "change") ELSE Onward(s)
  BY DEF CheckPost, Same
<1>2. /\ c \in Calls /\ Shape(c) /\ c.lines # {} /\ c.posts = {} /\ c.to \in BOOLEAN
      /\ c.left \subseteq About(c)
  BY <1>1, Own, OfLines DEF Shape
<1>3. PICK p \in About(c) : c.post = {p} /\ p \notin c.left
  BY <1>1, OfLines
<1>4. PICK k \in Calls :
        /\ calls' = [calls EXCEPT ![s] = k] /\ SameRequest(c, k) /\ k.left = c.left
        /\ Shape(k) /\ About(k) = About(c) /\ Done(k) = Done(c) /\ Uncounted(k) = {}
        /\ \/ k.at = "change" /\ k.post = {p} /\ Midway(k) = {p} /\ ShouldChange(c)
           \/ k.at \in {"next", "ok"} /\ ~ShouldChange(c)
  <2>1. CASE ShouldChange(c)
    <3>1. PICK k \in Calls :
            /\ calls' = [calls EXCEPT ![s] = k] /\ k.at = "change" /\ k.left = c.left
            /\ k.post = {p} /\ SameRequest(c, k)
      BY <1>1, <1>3, <2>1, Stepped DEF Steps
    <3>2. /\ About(k) = About(c) /\ Midway(k) = {p} /\ Uncounted(k) = {} /\ Done(k) = Done(c)
      BY <1>1, <3>1 DEF About, SameRequest, Midway, Uncounted, Done
    <3>3. Shape(k)
      BY <1>2, <1>1, <1>3, <3>1, <3>2 DEF Shape, SameRequest, PostSteps, LineSteps
    <3> QED BY <2>1, <3>1, <3>2, <3>3
  <2>2. CASE ~ShouldChange(c)
    BY <1>1, <2>2, OnwardGoes
  <2> QED BY <2>1, <2>2
<1>5. Becomes(s, k)
  BY <1>1, <1>4, Own DEF Becomes, SameRequest, dbVars
<1>6. Undisturbed => Writes(s, k) /\ KeepsCount(s, k)
  <2> SUFFICES ASSUME Undisturbed PROVE Writes(s, k) /\ KeepsCount(s, k)
    OBVIOUS
  <2>1. /\ \A l \in c.lines : l[1] \in Done(c) => (l \in lines) = c.to
        /\ c.seen = lines \cap Of(p)
        /\ IF c.to THEN p \in read => Of(p) \subseteq lines ELSE ~(Of(p) \subseteq lines)
    BY <1>1, <1>3, OfLines DEF RInv, Right
  <2>2. ShouldChange(c) <=> IF c.to THEN Of(p) \subseteq lines /\ p \notin read ELSE p \in read
    <3>1. c.seen = Of(p) <=> Of(p) \subseteq lines
      BY <2>1
    <3> QED BY <1>3, <3>1 DEF ShouldChange
  <2>3. Right(k, read, lines)
    BY <1>2, <1>4, <2>1, <2>2 DEF Right, SameRequest, LineSteps
  <2>4. ~ShouldChange(c) => Agree(p, read, lines)
    BY <1>2, <2>1, <2>2 DEF Agree
  <2>5. \A q \in About(k) : Agree(q, read, lines) \/ q \in Midway(k)
    <3>1. Midway(c) = {p} /\ Uncounted(c) = {}
      BY <1>1, <1>3 DEF Midway, Uncounted
    <3> QED BY <1>4, <2>4, <3>1, OwnAgree
  <2>6. k.posts = {} /\ Uncounted(c) = {}
    BY <1>1, <1>2, <1>4 DEF SameRequest, Uncounted
  <2> QED BY <1>1, <1>4, <2>3, <2>5, <2>6 DEF Writes, KeepsCount, dbVars
<1> QED BY <1>5, <1>6, BecomesKept DEF Kept

LEMMA ChangePostKept ==
  ASSUME TInv, RInv, PInv, NEW s \in Slots, ChangePost(s), UNCHANGED <<open, pageVars>>
  PROVE  Kept
<1> DEFINE c == calls[s]
<1>1. /\ c.at = "change" /\ UNCHANGED <<lines, unread>> /\ UNCHANGED <<made, crossed, faults>>
      /\ SetPosts(c.post, c.to) /\ Step(s, "count")
  BY DEF ChangePost, Same
<1>2. /\ c \in Calls /\ Shape(c) /\ c.lines # {} /\ c.posts = {} /\ c.to \in BOOLEAN
      /\ c.left \subseteq About(c) /\ About(c) \subseteq Posts
  BY <1>1, Own, OfLines DEF Shape
<1>3. PICK p \in About(c) : c.post = {p} /\ p \notin c.left
  BY <1>1, OfLines
<1>4. PICK k \in Calls :
        /\ calls' = [calls EXCEPT ![s] = k] /\ k.at = "count" /\ k.left = c.left
        /\ k.post = {p} /\ SameRequest(c, k)
  BY <1>1, <1>3, Stepped DEF Steps
<1>5. /\ About(k) = About(c) /\ Midway(k) = {} /\ Midway(c) = {p} /\ Uncounted(k) = {p}
      /\ Uncounted(c) = {} /\ Done(k) = Done(c)
  BY <1>1, <1>3, <1>4 DEF About, SameRequest, Midway, Uncounted, Done
<1>6. Shape(k)
  BY <1>1, <1>2, <1>3, <1>4, <1>5 DEF Shape, SameRequest, PostSteps, LineSteps
<1>7. /\ p \in read' <=> c.to
      /\ \A q : q # p => (q \in read' <=> q \in read)
      /\ read' \subseteq Posts
  BY <1>1, <1>2, <1>3, Own DEF SetPosts
<1>8. Becomes(s, k)
  BY <1>1, <1>4, <1>6, <1>7, Own DEF Becomes, SameRequest
<1>9. Undisturbed => Writes(s, k) /\ KeepsCount(s, k)
  <2> SUFFICES ASSUME Undisturbed PROVE Writes(s, k) /\ KeepsCount(s, k)
    OBVIOUS
  <2>1. /\ \A l \in c.lines : l[1] \in Done(c) => (l \in lines) = c.to
        /\ IF c.to THEN p \notin read /\ Of(p) \subseteq lines ELSE p \in read /\ ~(Of(p) \subseteq lines)
    BY <1>1, <1>3, OfLines DEF RInv, Right
  <2>2. Right(k, read', lines')
    BY <1>1, <1>2, <1>4, <1>5, <1>7, <2>1 DEF Right, SameRequest, LineSteps
  <2>3. \A q \in About(k) : Agree(q, read', lines')
    <3> TAKE q \in About(k)
    <3>1. CASE q = p
      BY <1>1, <1>2, <1>7, <2>1, <3>1 DEF Agree
    <3>2. CASE q # p
      <4>1. Agree(q, read, lines)
        BY <1>5, <3>2, OwnAgree
      <4> QED BY <1>1, <1>7, <3>2, <4>1 DEF Agree
    <3> QED BY <3>1, <3>2
  <2>4. k.posts = {}
    BY <1>2, <1>4 DEF SameRequest
  <2>5. Writes(s, k)
    BY <1>1, <1>3, <1>5, <1>7, <2>2, <2>3, <2>4 DEF Writes
  <2>6. KeepsCount(s, k)
    BY <1>1, <1>2, <1>5, <1>7, <2>1 DEF KeepsCount
  <2> QED BY <2>5, <2>6
<1> QED BY <1>8, <1>9, BecomesKept DEF Kept

LEMMA CountPostKept ==
  ASSUME TInv, RInv, PInv, NEW s \in Slots, CountPost(s), UNCHANGED <<open, pageVars>>
  PROVE  Kept
<1> DEFINE c == calls[s]
<1>1. /\ c.at = "count" /\ UNCHANGED <<read, lines>> /\ UNCHANGED <<made, crossed, faults>>
      /\ CountBy(1, c.to) /\ Onward(s)
  BY DEF CountPost, Same
<1>2. /\ c \in Calls /\ Shape(c) /\ c.lines # {} /\ c.posts = {} /\ c.to \in BOOLEAN
  BY <1>1, Own, OfLines
<1>3. PICK p \in About(c) : c.post = {p} /\ p \notin c.left
  BY <1>1, OfLines
<1>4. PICK k \in Calls :
        /\ calls' = [calls EXCEPT ![s] = k] /\ SameRequest(c, k) /\ k.left = c.left
        /\ Shape(k) /\ About(k) = About(c) /\ Done(k) = Done(c) /\ Uncounted(k) = {}
        /\ k.at \in {"next", "ok"}
  BY <1>1, OnwardGoes
<1>5. Midway(c) = {} /\ Uncounted(c) = {p} /\ Cardinality({p}) = 1
  BY <1>1, <1>3, FS_Singleton DEF Midway, Uncounted
<1>6. Becomes(s, k)
  BY <1>1, <1>4, Own DEF Becomes, SameRequest, CountBy
<1>7. Undisturbed => Writes(s, k) /\ CountsAll(s, k)
  <2> SUFFICES ASSUME Undisturbed PROVE Writes(s, k) /\ CountsAll(s, k)
    OBVIOUS
  <2>1. /\ \A l \in c.lines : l[1] \in Done(c) => (l \in lines) = c.to
        /\ (p \in read) = c.to
    BY <1>1, <1>3, OfLines DEF RInv, Right
  <2>2. Right(k, read, lines)
    BY <1>2, <1>4, <2>1 DEF Right, SameRequest, LineSteps
  <2>3. \A q \in About(k) : Agree(q, read, lines)
    BY <1>4, <1>5, OwnAgree
  <2>4. k.posts = {} /\ k.to = c.to
    BY <1>2, <1>4 DEF SameRequest
  <2> QED BY <1>1, <1>4, <1>5, <2>1, <2>2, <2>3, <2>4 DEF Writes, CountsAll
<1> QED BY <1>6, <1>7, BecomesKept DEF Kept

LEMMA HandleKept ==
  ASSUME TInv, RInv, PInv, NEW s \in Slots, Handle(s), UNCHANGED <<open, pageVars>>
  PROVE  Kept
BY FindPostsKept, ChangePostsKept, CountPostsKept, MarkSentencesKept, ReadSentencesKept,
   WriteSentencesKept, CheckPostKept, ChangePostKept, CountPostKept DEF Handle

\* After a failure nothing is promised but the types.
LEMMA FailKept ==
  ASSUME TInv, NEW s \in Slots, Fail(s), UNCHANGED <<open, pageVars>>
  PROVE  Kept
<1> DEFINE c == calls[s]
<1>1. /\ c.at \notin {"free", "ok", "refused"} /\ End(s, "refused") /\ UNCHANGED dbVars
      /\ UNCHANGED <<made, crossed>> /\ faults < MaxFaults /\ faults' = faults + 1
  BY DEF Fail, Busy, Answered
<1>2. PICK k \in Calls :
        /\ calls' = [calls EXCEPT ![s] = k] /\ k.at = "refused" /\ k.left = {} /\ SameRequest(c, k)
  BY <1>1, Ended DEF Steps
<1>3. Shape(k)
  BY <1>1, <1>2, Own DEF Shape, SameRequest, PostSteps, LineSteps
<1>4. faults \in 0 .. MaxFaults /\ faults' \in 0 .. MaxFaults /\ faults' # 0
  BY <1>1, ReadStateAssumption DEF TInv, TypeOK, ReadTypeOK
<1>5. calls' \in [Slots -> Calls] /\ \A z \in Slots : Shape(calls'[z])
  BY <1>2, <1>3 DEF TInv, TypeOK, ReadTypeOK
<1>6. TInv'
  <2>1. TypeOK'
    BY <1>1, <1>4, <1>5 DEF TInv, TypeOK, ReadTypeOK, dbVars, pageVars, lineVars
  <2>2. \A z \in Slots : Shape(calls[z])'
    BY <1>5 DEF Shape, About
  <2> QED BY <2>1, <2>2 DEF TInv
<1>7. ~Undisturbed'
  BY <1>4 DEF Undisturbed
<1> QED BY <1>6, <1>7 DEF Kept, RInv, PInv

-----------------------------------------------------------------------------
(* Clicks and answers. *)

LEMMA FreeTyped ==
  /\ Free \in Calls /\ Free.at = "free" /\ Free.posts = {} /\ Free.lines = {} /\ About(Free) = {}
  /\ Shape(Free) /\ Midway(Free) = {} /\ Uncounted(Free) = {}
  /\ \A rd, ls : Right(Free, rd, ls)
<1> DEFINE x == Request("none", {}, FALSE, {}, {})
<1>1. /\ x = [at |-> "posts", page |-> "none", buttons |-> {}, to |-> FALSE, posts |-> {},
              lines |-> {}, left |-> {} \cup {l[1] : l \in {}}, post |-> {}, seen |-> {}]
      /\ {} \cup {l[1] : l \in {}} = {}
  BY DEF Request
<1> HIDE DEF x
<1>2. x \in Calls
  BY <1>1 DEF Calls, Steps
<1>3. /\ x.posts = {} /\ x.lines = {} /\ x.left = {}
  BY <1>1
<1>4. /\ Free \in Calls /\ Free.at = "free" /\ Free.posts = {} /\ Free.lines = {} /\ Free.left = {}
  BY <1>2, <1>3 DEF Free, x, Calls, Steps
<1>5. About(Free) = {} /\ Midway(Free) = {} /\ Uncounted(Free) = {}
  BY <1>4 DEF About, Midway, Uncounted
<1>6. Shape(Free)
  BY <1>4, <1>5 DEF Shape, PostSteps, LineSteps
<1>7. ASSUME NEW rd, NEW ls PROVE Right(Free, rd, ls)
  BY <1>4 DEF Right, LineSteps
<1> QED BY <1>4, <1>5, <1>6, <1>7

\* A request that a page may send.
LEMMA AskKept ==
  ASSUME TInv, RInv, PInv, NEW g \in Pages, NEW disables \in SUBSET (Topics \cup Lines),
         NEW to \in BOOLEAN,
         NEW posts \in SUBSET Posts, NEW ls \in SUBSET Lines, posts = {} \/ ls = {},
         Kind[g] \in {"list", "canvas"} => ls = {},
         ShowsSnippets(g) \/ Kind[g] = "hierarchy" => posts = {},
         ShowsSnippets(g) => disables \subseteq On[g] /\ \A t \in disables : Has[t] \subseteq ls,
         Kind[g] = "hierarchy" => disables = ls /\ ls # {},
         Ask(g, disables, to, posts, ls)
  PROVE  Kept
<1> DEFINE r == Request(g, disables, to, posts, ls)
           about == posts \cup {l[1] : l \in ls}
<1>1. PICK s \in Slots : ~Busy(s) /\ calls' = [calls EXCEPT ![s] = r]
  BY DEF Ask, Send
<1>2. /\ g \in open /\ made < MaxCalls /\ made' = made + 1 /\ UNCHANGED dbVars /\ UNCHANGED faults
      /\ UNCHANGED <<open, pageVars>>
      /\ crossed' = (crossed \/ \E z \in Slots : Busy(z) /\ About(calls[z]) \cap About(r) # {})
  BY DEF Ask, Send
<1>3. r = [at |-> IF ls = {} THEN "posts" ELSE "next", page |-> g, buttons |-> disables, to |-> to,
           posts |-> posts, lines |-> ls, left |-> about, post |-> {}, seen |-> {}]
  BY DEF Request
<1>4. about \subseteq Posts
  BY LinesMeans
<1> HIDE DEF r, about
<1>5. r \in Calls
  BY <1>3, <1>4 DEF Calls, Steps
<1>6. /\ r.at = IF ls = {} THEN "posts" ELSE "next"
      /\ r.page = g /\ r.buttons = disables /\ r.posts = posts /\ r.lines = ls /\ r.left = about
  BY <1>3
<1>7. /\ About(r) = about /\ Midway(r) = {} /\ Uncounted(r) = {} /\ Done(r) = {}
      /\ ls = {} => about = posts
  BY <1>6 DEF About, Midway, Uncounted, Done, about
<1>8. Shape(r)
  BY <1>2, <1>6, <1>7 DEF Shape, PostSteps, LineSteps
<1>9. Right(r, read, lines)
  BY <1>6, <1>7 DEF Right, LineSteps
<1>10. /\ calls[s] \in Calls /\ calls[s].at = "free" /\ About(calls[s]) = {}
       /\ Midway(calls[s]) = {} /\ Uncounted(calls[s]) = {} /\ calls[s].posts = {} /\ calls[s].lines = {}
  BY <1>1, Own DEF Busy, Shape, About, Midway, Uncounted
<1>11. /\ calls' \in [Slots -> Calls] /\ calls'[s] = r
       /\ \A z \in Slots \ {s} : calls'[z] = calls[z]
       /\ \A z \in Slots : Shape(calls'[z])
  BY <1>1, <1>5, <1>8 DEF TInv, TypeOK, ReadTypeOK
<1>12. TInv'
  <2>1. made' \in 0 .. MaxCalls /\ crossed' \in BOOLEAN
    BY <1>2, ReadStateAssumption DEF TInv, TypeOK, ReadTypeOK
  <2>2. TypeOK'
    BY <1>2, <1>11, <2>1 DEF TInv, TypeOK, ReadTypeOK, dbVars, pageVars, lineVars
  <2>3. \A z \in Slots : Shape(calls[z])'
    BY <1>2, <1>11 DEF Shape, About
  <2> QED BY <2>2, <2>3 DEF TInv
<1>13. ASSUME Undisturbed' PROVE RInv' /\ PInv'
  <2>1. Undisturbed
    BY <1>2, <1>13 DEF Undisturbed
  <2>2. \A z \in Slots \ {s} : About(calls[z]) \cap About(r) = {}
    <3> TAKE z \in Slots \ {s}
    <3>1. CASE Busy(z)
      BY <1>2, <1>13, <3>1 DEF Undisturbed
    <3>2. CASE ~Busy(z)
      BY <3>2, Own DEF Busy, Shape, About
    <3> QED BY <3>1, <3>2
  <2>3. Disjoint'
    BY <1>11, <2>1, <2>2 DEF RInv, Disjoint
  <2>4. \A z \in Slots : Right(calls'[z], read', lines')
    BY <1>2, <1>9, <1>11, <2>1 DEF RInv, dbVars
  <2>5. \A p \in Posts : Agree(p, read', lines') \/ \E z \in Slots : p \in Midway(calls'[z])
    <3> TAKE p \in Posts
    <3>1. Agree(p, read, lines) \/ \E z \in Slots : p \in Midway(calls[z])
      BY <2>1 DEF RInv
    <3>2. \A z \in Slots : p \in Midway(calls[z]) => p \in Midway(calls'[z])
      BY <1>10, <1>11
    <3> QED BY <1>2, <3>1, <3>2 DEF dbVars
  <2>6. \A z \in Slots : Uncounted(calls'[z]) = Uncounted(calls[z])
    BY <1>7, <1>10, <1>11
  <2>7. Counted(calls', read') = Counted(calls, read)
    BY <1>2, <2>6 DEF Counted, dbVars
  <2>8. unread' = Cardinality(Posts \ Counted(calls', read'))
    BY <1>2, <2>1, <2>7 DEF RInv, dbVars
  <2>9. \A p : Moved(p) => Moved(p)'
    BY <1>10, <1>11 DEF Moved
  <2>10. \A l : Asked(l) => Asked(l)'
    BY <1>10, <1>11 DEF Asked
  <2>11. ASSUME NEW h \in Pages, Alone(h), Kind[h] # "grouped"
         PROVE  /\ HoldsPosts(h) => \A p \in Posts : Moved(p)' \/ (p \in storage'[h]) = (p \in read')
                /\ Kind[h] = "hierarchy" => DialogAgrees(h)'
                /\ ShowsSnippets(h) => SnippetsAgree(h)'
    <3>1. h = g /\ UNCHANGED <<read, lines, storage, shown, behind>>
      BY <1>2, <2>11 DEF Alone, dbVars, pageVars, lineVars
    <3>2. HoldsPosts(h) => \A p \in Posts : Moved(p)' \/ (p \in storage'[h]) = (p \in read')
      BY <2>1, <2>9, <2>11, <3>1 DEF PInv
    <3>3. Kind[h] = "hierarchy" => DialogAgrees(h)'
      BY <1>6, <1>11, <2>1, <2>10, <2>11, <3>1 DEF PInv, DialogAgrees
    <3>4. ShowsSnippets(h) => SnippetsAgree(h)'
      BY <2>1, <2>10, <2>11, <3>1 DEF PInv, SnippetsAgree
    <3> QED BY <3>2, <3>3, <3>4
  <2>12. PInv'
    BY <1>2, <2>11 DEF PInv, Alone, HoldsPosts, ShowsSnippets, pageVars
  <2> QED BY <2>3, <2>4, <2>5, <2>8, <2>12 DEF RInv
<1> QED BY <1>12, <1>13 DEF Kept, RInv, PInv

LEMMA OtherUpdateKept ==
  ASSUME TInv, RInv, PInv, NEW g \in Pages, OtherUpdate(g)
  PROVE  Kept
<1>1. /\ UNCHANGED readVars /\ UNCHANGED lineVars
      /\ open' = open /\ label' = label /\ storage' = storage
      /\ buttons' = [buttons EXCEPT ![g] = IF Kind[g] = "grouped" THEN storage[g] ELSE {}]
  BY DEF OtherUpdate, SetState, TInv, TypeOK
<1>2. buttons' \in [Pages -> SUBSET Posts]
  BY <1>1 DEF TInv, TypeOK
<1>3. TypeOK'
  BY <1>1, <1>2 DEF TInv, TypeOK, ReadTypeOK, readVars, dbVars, lineVars
<1>4. TInv'
  BY <1>1, <1>3 DEF TInv, Shape, About, readVars
<1>5. RInv'
  BY <1>1 DEF RInv, Undisturbed, Disjoint, readVars, dbVars
<1>6. PInv'
  BY <1>1 DEF PInv, DialogAgrees, SnippetsAgree, Undisturbed, Alone, Moved, Asked, readVars, dbVars,
              lineVars
<1> QED BY <1>4, <1>5, <1>6 DEF Kept

\* The dialog shows what was loaded: what differs or is under way is behind from now on.
LEMMA ReopenKept ==
  ASSUME TInv, RInv, PInv, NEW g \in Pages, ReopenOriginal(g)
  PROVE  Kept
<1> DEFINE lost == {l \in Lines : \/ (l \in shown[g]) # (l \in loaded[g])
                               \/ \E s \in Slots : calls[s].page = g /\ l \in calls[s].lines}
<1>1. /\ g \in open /\ Kind[g] = "hierarchy" /\ shown' = [shown EXCEPT ![g] = loaded[g]]
      /\ calls' = [s \in Slots |-> IF calls[s].page = g THEN [calls[s] EXCEPT !.buttons = {}]
                                  ELSE calls[s]]
      /\ behind' = [behind EXCEPT ![g] = behind[g] \cup lost]
      /\ UNCHANGED dbVars
      /\ UNCHANGED <<made, crossed, faults, open, storage, label, buttons, loaded>>
  BY DEF ReopenOriginal
<1>2. /\ shown \in [Pages -> SUBSET (Topics \cup Lines)] /\ loaded \in [Pages -> SUBSET Lines]
      /\ behind \in [Pages -> SUBSET (Topics \cup Lines)] /\ lost \subseteq Lines
  BY DEF TInv, TypeOK
<1>3. ASSUME NEW s \in Slots
      PROVE  /\ calls'[s] \in Calls /\ Shape(calls'[s])
             /\ calls'[s].at = calls[s].at /\ calls'[s].page = calls[s].page
             /\ calls'[s].to = calls[s].to
             /\ calls'[s].posts = calls[s].posts /\ calls'[s].lines = calls[s].lines
             /\ calls'[s].left = calls[s].left /\ calls'[s].post = calls[s].post
             /\ calls'[s].seen = calls[s].seen
             /\ calls'[s].buttons = IF calls[s].page = g THEN {} ELSE calls[s].buttons
  <2>1. calls[s] \in Calls /\ Shape(calls[s])
    BY Own
  <2>2. CASE calls[s].page # g
    <3>1. calls'[s] = calls[s]
      BY <1>1, <2>2
    <3> QED BY <2>1, <2>2, <3>1
  <2>3. CASE calls[s].page = g
    <3> DEFINE k == [calls[s] EXCEPT !.buttons = {}]
    <3>1. calls'[s] = k
      BY <1>1, <2>3
    <3>2. /\ k \in Calls /\ k.at = calls[s].at /\ k.page = calls[s].page /\ k.to = calls[s].to
          /\ k.posts = calls[s].posts /\ k.lines = calls[s].lines /\ k.left = calls[s].left
          /\ k.post = calls[s].post /\ k.seen = calls[s].seen /\ k.buttons = {}
      BY <2>1 DEF Calls
    <3> HIDE DEF k
    <3>3. ~ShowsSnippets(k.page)
      BY <1>1, <2>3, <3>2 DEF ShowsSnippets
    <3>4. About(k) = About(calls[s])
      BY <3>2 DEF About
    <3>5. Shape(k)
      BY <2>1, <3>2, <3>3, <3>4 DEF Shape
    <3> QED BY <2>3, <3>1, <3>2, <3>5
  <2> QED BY <2>2, <2>3
<1>4. TInv'
  <2>1. calls' \in [Slots -> Calls]
    BY <1>1, <1>3
  <2>2. /\ shown' \in [Pages -> SUBSET (Topics \cup Lines)]
        /\ behind' \in [Pages -> SUBSET (Topics \cup Lines)]
    <3> HIDE DEF lost
    <3> QED BY <1>1, <1>2
  <2>3. TypeOK'
    BY <1>1, <2>1, <2>2 DEF TInv, TypeOK, ReadTypeOK, dbVars
  <2>4. (\A s \in Slots : Shape(calls'[s])) /\ open' = open
    BY <1>1, <1>3
  <2>5. \A s \in Slots : Shape(calls[s])'
    BY <2>4 DEF Shape, About
  <2> QED BY <2>3, <2>5 DEF TInv
<1>5. \A s \in Slots :
        /\ About(calls'[s]) = About(calls[s]) /\ Midway(calls'[s]) = Midway(calls[s])
        /\ Uncounted(calls'[s]) = Uncounted(calls[s]) /\ Done(calls'[s]) = Done(calls[s])
  BY <1>3 DEF About, Midway, Uncounted, Done
<1>6. ASSUME Undisturbed' PROVE RInv' /\ PInv'
  <2>1. Undisturbed
    BY <1>1, <1>6 DEF Undisturbed
  <2>2. ASSUME NEW s \in Slots PROVE Right(calls'[s], read, lines)
    <3>1. Right(calls[s], read, lines)
      BY <2>1 DEF RInv
    <3> QED BY <1>3, <1>5, <3>1 DEF Right
  <2>3. Disjoint'
    BY <1>5, <2>1 DEF RInv, Disjoint
  <2>4. Counted(calls', read) = Counted(calls, read)
    BY <1>5 DEF Counted
  <2>5. RInv'
    BY <1>1, <1>5, <2>1, <2>2, <2>3, <2>4 DEF RInv, dbVars
  <2>6. /\ \A l : Asked(l)' = Asked(l)
        /\ \A p : Moved(p)' = Moved(p)
    BY <1>3 DEF Asked, Moved
  <2>7. ASSUME NEW h \in Pages, Alone(h), Kind[h] # "grouped"
        PROVE  h = g
    BY <1>1, <2>7 DEF Alone
  <2>8. ASSUME Alone(g) PROVE DialogAgrees(g)'
    <3>1. DialogAgrees(g)
      BY <1>1, <2>1, <2>8 DEF PInv
    <3>2. \A l \in Lines : l \in behind'[g] <=> l \in behind[g] \/ l \in lost
      BY <1>1, <1>2
    <3>3. ASSUME NEW l \in Lines, l \notin behind'[g], ~Asked(l)
          PROVE  (l \in shown'[g]) = (l \in lines)
      <4>1. l \notin behind[g] /\ (l \in shown[g]) = (l \in loaded[g])
        BY <3>2, <3>3
      <4> QED BY <1>1, <1>2, <3>1, <3>3, <4>1 DEF DialogAgrees
    <3>4. ASSUME NEW s \in Slots, NEW l \in calls[s].lines PROVE l \in behind'[g]
      <4>1. l \in Lines /\ calls[s].page = g
        BY <2>8, <3>4, Own DEF Shape, Alone
      <4>2. l \in lost
        BY <3>4, <4>1
      <4> QED BY <3>2, <4>1, <4>2
    <3>5. lines' = lines /\ \A s \in Slots : calls'[s].lines = calls[s].lines
      BY <1>1, <1>3 DEF dbVars
    <3> HIDE DEF lost
    <3> QED BY <2>6, <3>3, <3>4, <3>5 DEF DialogAgrees
  <2>9. PInv'
    <3>1. ~HoldsPosts(g) /\ ~ShowsSnippets(g) /\ open' = open
      BY <1>1 DEF HoldsPosts, ShowsSnippets
    <3> QED BY <2>7, <2>8, <3>1 DEF PInv, Alone, HoldsPosts, ShowsSnippets
  <2> QED BY <2>5, <2>9
<1> QED BY <1>4, <1>6 DEF Kept, RInv, PInv

LEMMA ClickKept == ASSUME TInv, RInv, PInv, Click PROVE Kept
<1>1. PICK g \in Pages :
        \/ OtherUpdate(g) \/ ClickReadAll(g) \/ ReopenOriginal(g)
        \/ \E p \in Posts : ClickItem(g, p) \/ ClickGrouped(g, p) \/ ClickCanvas(g, p)
        \/ \E to \in BOOLEAN : ClickCanvasAll(g, to) \/ BatchSnippets(g, to)
        \/ \E t \in Topics : ToggleTopic(g, t) \/ ToggleSnippet(g, t)
        \/ \E l \in Lines : ToggleOriginal(g, l)
  BY DEF Click
<1>2. /\ {} \in SUBSET (Topics \cup Lines) /\ Topics \in SUBSET (Topics \cup Lines)
      /\ {} \in SUBSET Lines /\ {} \in SUBSET Posts /\ Posts \in SUBSET Posts
      /\ \A t \in Topics : Has[t] \in SUBSET Lines /\ {t} \in SUBSET (Topics \cup Lines)
      /\ \A l \in Lines : {l} \in SUBSET Lines /\ {l} \in SUBSET (Topics \cup Lines)
      /\ \A p \in Posts : {p} \in SUBSET Posts
      /\ On[g] \in SUBSET (Topics \cup Lines)
  BY PagesAssumption
<1>3. CASE OtherUpdate(g) \/ ReopenOriginal(g)
  BY <1>3, OtherUpdateKept, ReopenKept
<1>4. CASE ClickReadAll(g)
  <2>1. (~label[g]) \in BOOLEAN
    BY DEF TInv, TypeOK
  <2>2. Kind[g] \in {"list", "grouped"} /\ Ask(g, {}, ~label[g], Posts, {})
    BY <1>4 DEF ClickReadAll, HasStorage
  <2> QED BY <1>2, <2>1, <2>2, AskKept DEF ShowsSnippets
<1>5. ASSUME NEW p \in Posts, ClickItem(g, p) PROVE Kept
  <2>1. (p \notin storage[g]) \in BOOLEAN
    OBVIOUS
  <2> QED BY <1>2, <1>5, <2>1, AskKept DEF ClickItem, ShowsSnippets
<1>6. ASSUME NEW p \in Posts, ClickGrouped(g, p) PROVE Kept
  <2>1. (p \notin buttons[g]) \in BOOLEAN
    OBVIOUS
  <2> QED BY <1>2, <1>6, <2>1, AskKept DEF ClickGrouped, ShowsSnippets
<1>7. ASSUME NEW p \in Posts, ClickCanvas(g, p) PROVE Kept
  <2>1. (p \notin storage[g]) \in BOOLEAN
    OBVIOUS
  <2> QED BY <1>2, <1>7, <2>1, AskKept DEF ClickCanvas, ShowsSnippets
<1>8. ASSUME NEW to \in BOOLEAN, ClickCanvasAll(g, to) PROVE Kept
  <2> DEFINE differ == {p \in Posts : (p \in storage[g]) # to}
  <2>1. differ \in SUBSET Posts /\ Kind[g] = "canvas" /\ Ask(g, Topics, to, differ, {})
    BY <1>8 DEF ClickCanvasAll
  <2> QED BY <1>2, <2>1, AskKept DEF ShowsSnippets
<1>9. ASSUME NEW to \in BOOLEAN, NEW ts \in SUBSET On[g], ShowsSnippets(g), AskSnippets(g, ts, to)
      PROVE  Kept
  <2> DEFINE ls == UNION {Has[t] : t \in ts}
  <2>1. ts \in SUBSET (Topics \cup Lines) /\ ls \in SUBSET Lines
    BY PagesAssumption
  <2>2. /\ \A t \in ts : Has[t] \subseteq ls
        /\ Kind[g] \notin {"list", "canvas", "hierarchy"} /\ Ask(g, ts, to, {}, ls)
    BY <1>9 DEF AskSnippets, ShowsSnippets
  <2> HIDE DEF ls
  <2> QED BY <1>2, <1>9, <2>1, <2>2, AskKept
<1>10. ASSUME NEW t \in Topics, ToggleTopic(g, t) PROVE Kept
  <2>1. (~FullyRead(g, t)) \in BOOLEAN
    BY DEF FullyRead
  <2> QED BY <1>2, <1>10, <2>1, AskKept DEF ToggleTopic, ShowsSnippets
<1>11. ASSUME NEW t \in Topics, ToggleSnippet(g, t) PROVE Kept
  <2>1. (t \notin shown[g]) \in BOOLEAN /\ {t} \in SUBSET On[g]
    BY <1>11 DEF ToggleSnippet
  <2> QED BY <1>9, <1>11, <2>1 DEF ToggleSnippet
<1>12. ASSUME NEW l \in Lines, ToggleOriginal(g, l) PROVE Kept
  <2>1. (l \notin shown[g]) \in BOOLEAN
    OBVIOUS
  <2> QED BY <1>2, <1>12, <2>1, AskKept DEF ToggleOriginal, ShowsSnippets
<1>13. ASSUME NEW to \in BOOLEAN, BatchSnippets(g, to) PROVE Kept
  BY <1>9, <1>13 DEF BatchSnippets
<1> QED BY <1>1, <1>3, <1>4, <1>5, <1>6, <1>7, <1>8, <1>10, <1>11, <1>12, <1>13

\* An answer changes the snippets of the request, and no other that has other sentences.
LEMMA ChangedMeans ==
  ASSUME TInv, NEW c \in Calls, Shape(c), c.at # "free"
  PROVE  /\ Changed(c.page, c) \subseteq Topics \cup Lines
         /\ Sharing(c.page, c) \subseteq Topics \cup Lines
         /\ ShowsSnippets(c.page) => \A t \in Changed(c.page, c) : Has[t] \subseteq c.lines
         /\ Kind[c.page] = "hierarchy" => Changed(c.page, c) = c.buttons
<1> DEFINE g == c.page
<1>1. c.lines \subseteq Lines /\ c.buttons \subseteq Topics \cup Lines /\ g \in Pages \cup {"none"}
  BY DEF Calls
<1>2. /\ \A t \in On[g] : t \in SameKey(g, t)
      /\ \A t : SameKey(g, t) \subseteq On[g] /\ \A u \in SameKey(g, t) : Has[u] = Has[t]
  BY DEF SameKey
<1>3. ASSUME ShowsSnippets(g)
      PROVE  Changed(g, c) \subseteq On[g] /\ \A t \in Changed(g, c) : Has[t] \subseteq c.lines
  <2>1. c.buttons \subseteq On[g] /\ \A t \in c.buttons : Has[t] \subseteq c.lines
    BY <1>3 DEF Shape
  <2>2. CASE Kind[g] = "clusters"
    <3>1. Changed(g, c) = UNION {SameKey(g, t) : t \in c.buttons}
      BY <2>2 DEF Changed
    <3> QED BY <1>2, <2>1, <3>1
  <2>3. CASE Kind[g] = "snippets"
    <3>1. Changed(g, c) = {CHOOSE u \in SameKey(g, t) : TRUE : t \in c.buttons}
      BY <2>3 DEF Changed
    <3>2. ASSUME NEW t \in c.buttons PROVE (CHOOSE u \in SameKey(g, t) : TRUE) \in SameKey(g, t)
      BY <1>2, <2>1
    <3> QED BY <1>2, <2>1, <3>1, <3>2
  <2>4. CASE Kind[g] = "mindmap"
    <3>1. Changed(g, c) = c.buttons
      BY <2>4 DEF Changed
    <3> QED BY <2>1, <3>1
  <2> QED BY <1>3, <2>2, <2>3, <2>4 DEF ShowsSnippets
<1>4. ASSUME ~ShowsSnippets(g)
      PROVE  /\ Changed(g, c) = IF Kind[g] = "grouped" THEN c.lines ELSE c.buttons
             /\ Sharing(g, c) = {}
  BY <1>4 DEF Changed, Sharing, ShowsSnippets
<1>5. ShowsSnippets(g) => On[g] \subseteq Topics /\ Sharing(g, c) \subseteq On[g]
  <2>1. g \in open /\ open \subseteq Pages
    BY PagesAssumption DEF Shape, TInv, TypeOK
  <2> QED BY <2>1, PagesAssumption DEF Sharing
<1> QED BY <1>1, <1>3, <1>4, <1>5 DEF ShowsSnippets

\* What an answer does to the page that asked, unless it is the grouped one.
LEMMA Takes ==
  ASSUME TInv, NEW s \in Slots, Receive(s)
  PROVE  LET c == calls[s]
             g == c.page
         IN /\ storage' \in [Pages -> SUBSET Posts] /\ label' \in [Pages -> BOOLEAN]
            /\ buttons' \in [Pages -> SUBSET Posts] /\ loaded' = loaded
            /\ shown' \in [Pages -> SUBSET (Topics \cup Lines)]
            /\ behind' \in [Pages -> SUBSET (Topics \cup Lines)]
            /\ HoldsPosts(g) /\ Kind[g] # "grouped" =>
                 storage'[g] = IF c.at = "ok" THEN With(storage[g], c.posts, c.to) ELSE storage[g]
            /\ (ShowsSnippets(g) \/ Kind[g] = "hierarchy") /\ c.at = "ok" /\ c.lines # {} =>
                 /\ shown'[g] = With(shown[g], Changed(g, c), c.to)
                 /\ behind'[g] = (behind[g] \cup Sharing(g, c)) \ Changed(g, c)
            /\ c.lines = {} => shown'[g] = shown[g] /\ behind'[g] = behind[g]
<1> DEFINE c == calls[s]
           g == c.page
           W == With(storage[g], c.posts, c.to)
<1>1. /\ c.at \in {"ok", "refused"} /\ c \in Calls /\ Shape(c) /\ g \in Pages
      /\ c.posts \subseteq Posts /\ c.lines \subseteq Lines
  <2>1. c.at \in {"ok", "refused"} /\ c \in Calls /\ Shape(c)
    BY Own DEF Receive, Answered
  <2>2. g \in open /\ open \subseteq Pages
    BY <2>1, PagesAssumption DEF Shape, TInv, TypeOK
  <2> QED BY <2>1, <2>2, CallTyped
<1>2. /\ storage \in [Pages -> SUBSET Posts] /\ label \in [Pages -> BOOLEAN]
      /\ buttons \in [Pages -> SUBSET Posts]
      /\ shown \in [Pages -> SUBSET (Topics \cup Lines)]
      /\ behind \in [Pages -> SUBSET (Topics \cup Lines)]
  BY DEF TInv, TypeOK
<1>3. /\ W \in SUBSET Posts /\ With(buttons[g], c.posts, c.to) \in SUBSET Posts
      /\ With(shown[g], Changed(g, c), c.to) \in SUBSET (Topics \cup Lines)
      /\ (behind[g] \cup Sharing(g, c)) \ Changed(g, c) \in SUBSET (Topics \cup Lines)
  BY <1>1, <1>2, ChangedMeans DEF With
<1>4. IF c.at = "ok" \/ Kind[g] = "mindmap" THEN Accepted(g, c) ELSE UNCHANGED pageVars
  BY DEF Receive
<1> HIDE DEF W, c, g
<1>5. CASE UNCHANGED pageVars /\ c.at = "refused" /\ Kind[g] # "mindmap"
  BY <1>1, <1>2, <1>5 DEF pageVars, lineVars, c, g
<1>6. CASE LinesAnswered(g, c) /\ c.lines # {}
  <2>1. /\ shown' = [shown EXCEPT ![g] = With(shown[g], Changed(g, c), c.to)]
        /\ behind' = [behind EXCEPT ![g] = (behind[g] \cup Sharing(g, c)) \ Changed(g, c)]
        /\ UNCHANGED <<storage, label, buttons, loaded>>
    BY <1>6 DEF LinesAnswered
  <2>2. ~(HoldsPosts(g) /\ Kind[g] # "grouped")
    BY <1>1, <1>6 DEF HoldsPosts, Shape, g
  <2> QED BY <1>1, <1>2, <1>3, <1>6, <2>1, <2>2 DEF c, g
<1>7. CASE CanvasAnswered(g, c) /\ c.lines = {} /\ Kind[g] = "canvas" /\ c.at = "ok"
  <2>1. storage' = [storage EXCEPT ![g] = W] /\ UNCHANGED <<label, buttons, shown, loaded, behind>>
    BY <1>7 DEF CanvasAnswered, lineVars, W
  <2> QED BY <1>1, <1>2, <1>3, <1>7, <2>1 DEF c, g, W
<1>8. CASE ButtonAnswered(g, c) /\ c.lines = {} /\ Kind[g] = "grouped"
  <2>1. /\ buttons' = [buttons EXCEPT ![g] = With(buttons[g], c.posts, c.to)]
        /\ UNCHANGED <<storage, label, shown, loaded, behind>>
    BY <1>8 DEF ButtonAnswered, lineVars
  <2> QED BY <1>1, <1>2, <1>3, <1>8, <2>1 DEF c, g
<1>9. CASE StorageAnswered(g, c) /\ c.lines = {} /\ Kind[g] # "canvas"
           /\ (c.at = "ok" \/ Kind[g] = "mindmap")
  <2>1. \/ UNCHANGED pageVars /\ storage'[g] = W
        \/ /\ storage' = [storage EXCEPT ![g] = W] /\ UNCHANGED lineVars
           /\ label' = [label EXCEPT ![g] = Readed(W, @)]
           /\ buttons' = [buttons EXCEPT ![g] = IF Kind[g] = "grouped" THEN W ELSE {}]
    BY <1>9 DEF StorageAnswered, SetState, pageVars, W
  <2>2. storage'[g] = W /\ shown' = shown /\ behind' = behind /\ loaded' = loaded
    BY <1>1, <1>2, <1>3, <2>1 DEF pageVars, lineVars
  <2>3. Readed(W, label[g]) \in BOOLEAN
    BY <1>1, <1>2 DEF Readed
  <2>4. /\ storage' \in [Pages -> SUBSET Posts] /\ label' \in [Pages -> BOOLEAN]
        /\ buttons' \in [Pages -> SUBSET Posts]
    <3>1. CASE UNCHANGED pageVars
      BY <1>2, <3>1 DEF pageVars
    <3>2. CASE ~UNCHANGED pageVars
      BY <1>2, <1>3, <2>1, <2>3, <3>2
    <3> QED BY <3>1, <3>2
  <2>5. HoldsPosts(g) => c.at = "ok"
    BY <1>9 DEF HoldsPosts
  <2> QED BY <1>2, <1>9, <2>2, <2>4, <2>5 DEF c, g, W
<1>10. \/ UNCHANGED pageVars /\ c.at = "refused" /\ Kind[g] # "mindmap"
       \/ LinesAnswered(g, c) /\ c.lines # {}
       \/ CanvasAnswered(g, c) /\ c.lines = {} /\ Kind[g] = "canvas" /\ c.at = "ok"
       \/ ButtonAnswered(g, c) /\ c.lines = {} /\ Kind[g] = "grouped"
       \/ StorageAnswered(g, c) /\ c.lines = {} /\ Kind[g] # "canvas"
            /\ (c.at = "ok" \/ Kind[g] = "mindmap")
  <2>1. Accepted(g, c) =>
          \/ LinesAnswered(g, c) /\ c.lines # {}
          \/ CanvasAnswered(g, c) /\ c.lines = {} /\ Kind[g] = "canvas"
          \/ ButtonAnswered(g, c) /\ c.lines = {} /\ Kind[g] = "grouped"
          \/ StorageAnswered(g, c) /\ c.lines = {} /\ Kind[g] # "canvas"
    BY DEF Accepted
  <2>2. CASE c.at = "ok"
    BY <1>4, <2>1, <2>2
  <2>3. CASE c.at = "refused" /\ Kind[g] = "mindmap"
    BY <1>4, <2>1, <2>3
  <2>4. CASE c.at = "refused" /\ Kind[g] # "mindmap"
    BY <1>4, <2>4
  <2> QED BY <1>1, <2>2, <2>3, <2>4
<1> QED BY <1>5, <1>6, <1>7, <1>8, <1>9, <1>10

LEMMA ReceiveKept ==
  ASSUME TInv, RInv, PInv, NEW s \in Slots, Receive(s)
  PROVE  Kept
<1> DEFINE c == calls[s]
<1>0. PICK g \in open : g = c.page
  BY Own DEF Receive, Answered, Shape
<1>1. /\ c.at \in {"ok", "refused"} /\ c \in Calls /\ Shape(c) /\ c.to \in BOOLEAN
      /\ g \in open /\ c.page = g
      /\ calls' = [calls EXCEPT ![s] = Free]
      /\ UNCHANGED dbVars /\ UNCHANGED <<made, crossed, faults, open>>
  BY <1>0, Own DEF Receive, Answered
<1>2. /\ calls' \in [Slots -> Calls] /\ calls'[s] = Free
      /\ \A z \in Slots \ {s} : calls'[z] = calls[z]
      /\ \A z \in Slots : Shape(calls'[z])
  BY <1>1, FreeTyped DEF TInv, TypeOK, ReadTypeOK
<1>3. TInv'
  <2>1. TypeOK'
    BY <1>1, <1>2, Takes DEF TInv, TypeOK, ReadTypeOK, dbVars
  <2>2. \A z \in Slots : Shape(calls[z])'
    BY <1>1, <1>2 DEF Shape, About
  <2> QED BY <2>1, <2>2 DEF TInv
<1>4. ASSUME Undisturbed' PROVE RInv' /\ PInv'
  <2>1. Undisturbed
    BY <1>1, <1>4 DEF Undisturbed
  <2>2. Midway(c) = {} /\ Uncounted(c) = {} /\ Right(c, read, lines)
    BY <1>1, <2>1 DEF Midway, Uncounted, RInv
  <2>3. Disjoint'
    BY <1>2, <2>1, FreeTyped DEF RInv, Disjoint
  <2>4. \A z \in Slots : Right(calls'[z], read', lines')
    BY <1>1, <1>2, <2>1, FreeTyped DEF RInv, dbVars
  <2>5. \A p \in Posts : Agree(p, read', lines') \/ \E z \in Slots : p \in Midway(calls'[z])
    <3> TAKE p \in Posts
    <3>1. Agree(p, read, lines) \/ \E z \in Slots : p \in Midway(calls[z])
      BY <2>1 DEF RInv
    <3>2. \A z \in Slots : p \in Midway(calls[z]) => p \in Midway(calls'[z])
      BY <1>2, <2>2
    <3> QED BY <1>1, <3>1, <3>2 DEF dbVars
  <2>6. \A z \in Slots : Uncounted(calls'[z]) = Uncounted(calls[z])
    BY <1>2, <2>2, FreeTyped
  <2>7. Counted(calls', read') = Counted(calls, read)
    BY <1>1, <2>6 DEF Counted, dbVars
  <2>8. unread' = Cardinality(Posts \ Counted(calls', read'))
    BY <1>1, <2>1, <2>7 DEF RInv, dbVars
  <2>9. RInv'
    BY <2>3, <2>4, <2>5, <2>8 DEF RInv
  <2>10. SUFFICES ASSUME g \in Pages, Alone(g), Kind[g] # "grouped"
                  PROVE  /\ HoldsPosts(g) =>
                              \A p \in Posts : Moved(p)' \/ (p \in storage'[g]) = (p \in read)
                         /\ Kind[g] = "hierarchy" => DialogAgrees(g)'
                         /\ ShowsSnippets(g) => SnippetsAgree(g)'
    <3>1. open' = open /\ read' = read /\ lines' = lines
      BY <1>1 DEF dbVars
    <3>2. ASSUME NEW h \in Pages, Alone(h), Kind[h] # "grouped"
          PROVE  /\ HoldsPosts(h) => \A p \in Posts : Moved(p)' \/ (p \in storage'[h]) = (p \in read')
                 /\ Kind[h] = "hierarchy" => DialogAgrees(h)'
                 /\ ShowsSnippets(h) => SnippetsAgree(h)'
      <4>1. h = g
        BY <1>1, <3>2 DEF Alone
      <4> QED BY <2>10, <3>1, <3>2, <4>1
    <3>3. PInv'
      BY <3>1, <3>2 DEF PInv, Alone, HoldsPosts, ShowsSnippets
    <3> QED BY <2>9, <3>3
  <2>11. ASSUME HoldsPosts(g), NEW p \in Posts, ~Moved(p)'
         PROVE  (p \in storage'[g]) = (p \in read)
    <3>1. storage'[g] = IF c.at = "ok" THEN With(storage[g], c.posts, c.to) ELSE storage[g]
      BY <1>1, <2>10, <2>11, Takes
    <3>2. CASE p \in c.posts /\ c.at = "ok"
      <4>1. (p \in read) = c.to
        BY <2>2, <3>2 DEF Right
      <4>2. (p \in storage'[g]) = c.to
        BY <1>1, <3>1, <3>2 DEF With
      <4> QED BY <4>1, <4>2
    <3>3. CASE p \notin c.posts \/ c.at # "ok"
      <4>1. ~Moved(p)
        BY <1>1, <1>2, <2>11, <3>3 DEF Moved
      <4>2. (p \in storage[g]) = (p \in read)
        BY <2>1, <2>10, <2>11, <4>1 DEF PInv
      <4>3. p \in storage'[g] <=> p \in storage[g]
        BY <3>1, <3>3 DEF With
      <4> QED BY <4>2, <4>3
    <3> QED BY <3>2, <3>3
  <2>12. /\ c.at = "ok" \/ c.lines = {}
         /\ \A l \in c.lines : l \in Lines /\ (l \in lines) = c.to
         /\ \A l : Asked(l) => Asked(l)' \/ l \in c.lines
    <3>1. c.at = "ok" \/ c.lines = {}
      BY <1>1, <2>2 DEF Right
    <3>2. ASSUME NEW l \in c.lines PROVE l \in Lines /\ (l \in lines) = c.to
      <4>1. c.at = "ok" /\ l[1] \in About(c) /\ c.left = {}
        BY <1>1, <3>1, <3>2, CallTyped DEF Shape
      <4>2. (l \in lines) = c.to
        BY <2>2, <3>2, <4>1 DEF Right, Done
      <4> QED BY <1>1, <3>2, <4>2, CallTyped
    <3>3. \A l : Asked(l) => Asked(l)' \/ l \in c.lines
      BY <1>2 DEF Asked
    <3> QED BY <3>1, <3>2, <3>3
  <2>13. /\ c.lines = {} => shown'[g] = shown[g] /\ behind'[g] = behind[g]
         /\ c.lines # {} /\ (ShowsSnippets(g) \/ Kind[g] = "hierarchy") =>
              /\ shown'[g] = With(shown[g], Changed(g, c), c.to)
              /\ behind'[g] = (behind[g] \cup Sharing(g, c)) \ Changed(g, c)
    BY <1>1, <2>12, Takes
  <2>14. ASSUME Kind[g] = "hierarchy" PROVE DialogAgrees(g)'
    <3>1. DialogAgrees(g) /\ ~ShowsSnippets(g)
      BY <2>1, <2>10, <2>14 DEF PInv, ShowsSnippets
    <3>2. Changed(g, c) = c.buttons /\ Sharing(g, c) = {} /\ (c.buttons = {} \/ c.buttons = c.lines)
      <4>1. c.at # "free"
        BY <1>1
      <4>2. Changed(g, c) = c.buttons
        BY <1>1, <2>14, <4>1, ChangedMeans
      <4> QED BY <1>1, <2>14, <3>1, <4>1, <4>2 DEF Shape, Sharing
    <3>3. c.buttons = {} => c.lines \subseteq behind[g]
      BY <3>1 DEF DialogAgrees
    <3>4. ASSUME NEW l \in Lines, l \notin behind'[g], ~Asked(l)'
          PROVE  (l \in shown'[g]) = (l \in lines)
      <4>1. CASE l \in c.lines
        <5>1. c.lines # {} /\ (l \in lines) = c.to
          BY <2>12, <4>1
        <5>2. shown'[g] = With(shown[g], c.buttons, c.to) /\ behind'[g] = behind[g] \ c.buttons
          BY <2>13, <2>14, <3>2, <5>1
        <5>3. c.buttons = c.lines
          BY <3>2, <3>3, <3>4, <4>1, <5>2
        <5> QED BY <1>1, <4>1, <5>1, <5>2, <5>3 DEF With
      <4>2. CASE l \notin c.lines
        <5>1. ~Asked(l) /\ l \notin c.buttons
          BY <2>12, <3>2, <3>4, <4>2
        <5>2. l \notin behind[g] /\ (l \in shown'[g] <=> l \in shown[g])
          BY <2>13, <2>14, <3>2, <3>4, <5>1 DEF With
        <5> QED BY <3>1, <5>1, <5>2 DEF DialogAgrees
      <4> QED BY <4>1, <4>2
    <3>5. ASSUME NEW z \in Slots, calls'[z].buttons = {}, NEW l \in calls'[z].lines
          PROVE  l \in behind'[g]
      <4>1. z # s /\ calls'[z] = calls[z]
        BY <1>2, <3>5, FreeTyped
      <4>2. l \in behind[g] /\ l \in calls[z].lines
        BY <3>1, <3>5, <4>1 DEF DialogAgrees
      <4>3. l \notin c.lines
        <5>1. About(c) \cap About(calls[z]) = {}
          BY <2>1, <4>1 DEF RInv, Disjoint
        <5>2. l[1] \in About(calls[z]) /\ (l \in c.lines => l[1] \in About(c))
          BY <1>1, <4>2, Own, CallTyped
        <5> QED BY <5>1, <5>2
      <4> QED BY <2>13, <2>14, <3>2, <4>2, <4>3
    <3>6. lines' = lines
      BY <1>1 DEF dbVars
    <3> QED BY <3>4, <3>5, <3>6 DEF DialogAgrees
  <2>15. ASSUME ShowsSnippets(g) PROVE SnippetsAgree(g)'
    <3>1. SnippetsAgree(g)
      BY <2>1, <2>10, <2>15 DEF PInv
    <3>2. \A t \in Changed(g, c) : Has[t] \subseteq c.lines
      <4>1. c.at # "free"
        BY <1>1
      <4> QED BY <1>1, <2>15, <4>1, ChangedMeans
    <3>3. ASSUME NEW t \in On[g], t \notin behind'[g], \A l \in Has[t] : ~Asked(l)'
          PROVE  (t \in shown'[g]) = (Has[t] \subseteq lines)
      <4>1. Has[t] # {} /\ Has[t] \subseteq Lines
        BY <2>10, PagesAssumption
      <4>2. CASE c.lines # {} /\ t \in Changed(g, c)
        <5>1. shown'[g] = With(shown[g], Changed(g, c), c.to)
          BY <2>13, <2>15, <4>2
        <5>2. \A l \in Has[t] : (l \in lines) = c.to
          BY <2>12, <3>2, <4>2
        <5>3. (t \in shown'[g]) = c.to
          BY <1>1, <4>2, <5>1 DEF With
        <5>4. (Has[t] \subseteq lines) = c.to
          BY <1>1, <4>1, <5>2
        <5> QED BY <5>3, <5>4
      <4>3. CASE c.lines = {} \/ t \notin Changed(g, c)
        <5>1. /\ t \notin behind[g] /\ (t \in shown'[g] <=> t \in shown[g])
              /\ c.lines = {} \/ t \notin Sharing(g, c)
          BY <2>13, <2>15, <3>3, <4>3 DEF With
        <5>2. \A l \in Has[t] : l \notin c.lines
          BY <2>15, <5>1 DEF Sharing
        <5>3. \A l \in Has[t] : ~Asked(l)
          BY <2>12, <3>3, <5>2
        <5> QED BY <3>1, <5>1, <5>3 DEF SnippetsAgree
      <4> QED BY <4>2, <4>3
    <3>4. lines' = lines
      BY <1>1 DEF dbVars
    <3> QED BY <3>3, <3>4 DEF SnippetsAgree
  <2> QED BY <2>11, <2>14, <2>15
<1> QED BY <1>3, <1>4 DEF Kept, RInv, PInv

-----------------------------------------------------------------------------
(* Theorems. *)

LEMMA InitHolds == ASSUME Init PROVE TInv /\ RInv /\ PInv
<1>1. /\ lines \subseteq Lines /\ read = {p \in Posts : Of(p) \subseteq lines}
      /\ unread = Cardinality(Posts \ read)
      /\ calls = [s \in Slots |-> Free] /\ made = 0 /\ crossed = FALSE /\ faults = 0
      /\ open \in Openings /\ MaxCalls \in Nat /\ MaxFaults \in Nat
  BY ReadStateAssumption DEF Init, ReadInit
<1>2. \A s \in Slots : calls[s] = Free
  BY <1>1
<1>3. unread \in Int
  <2>1. (Posts \ read) \in SUBSET Posts
    OBVIOUS
  <2>2. Cardinality(Posts \ read) \in Nat
    BY <2>1, Counts
  <2> QED BY <1>1, <2>2
<1>4. /\ storage \in [Pages -> SUBSET Posts] /\ label \in [Pages -> BOOLEAN]
      /\ buttons \in [Pages -> SUBSET Posts] /\ loaded \in [Pages -> SUBSET Lines]
      /\ {shown, behind} \subseteq [Pages -> SUBSET (Topics \cup Lines)]
  <2>1. Readed(read, FALSE) \in BOOLEAN
    BY DEF Readed
  <2>2. \A g \in Pages : {t \in On[g] : Has[t] \subseteq lines} \in SUBSET (Topics \cup Lines)
    BY PagesAssumption
  <2>3. shown \in [Pages -> SUBSET (Topics \cup Lines)]
    BY <1>1, <2>2 DEF Init
  <2> QED BY <1>1, <2>1, <2>3 DEF Init
<1>5. TInv
  <2>1. calls \in [Slots -> Calls] /\ \A s \in Slots : Shape(calls[s])
    BY <1>1, <1>2, FreeTyped
  <2>2. read \subseteq Posts
    BY <1>1
  <2>3. made \in 0 .. MaxCalls /\ faults \in 0 .. MaxFaults /\ crossed \in BOOLEAN
    <3>1. made = 0 /\ faults = 0 /\ crossed = FALSE /\ MaxCalls \in Nat /\ MaxFaults \in Nat
      BY <1>1
    <3>2. crossed \in BOOLEAN
      BY <3>1, Zenon
    <3> QED BY <3>1, <3>2
  <2>4. ReadTypeOK
    BY <1>1, <1>3, <2>1, <2>2, <2>3 DEF ReadTypeOK
  <2> QED BY <1>1, <1>4, <2>1, <2>4 DEF TInv, TypeOK
<1>6. RInv
  <2>1. Counted(calls, read) = read
    BY <1>1, <1>2, FreeTyped DEF Counted
  <2>2. \A p \in Posts : Agree(p, read, lines)
    BY <1>1 DEF Agree
  <2> QED BY <1>1, <1>2, <2>1, <2>2, FreeTyped DEF RInv, Disjoint
<1>7. PInv
  <2> SUFFICES ASSUME NEW g \in Pages, Alone(g), Kind[g] # "grouped"
               PROVE  /\ HoldsPosts(g) => storage[g] = read
                      /\ Kind[g] = "hierarchy" => DialogAgrees(g)
                      /\ ShowsSnippets(g) => SnippetsAgree(g)
    BY DEF PInv
  <2>1. g \in open
    BY DEF Alone
  <2>2. HoldsPosts(g) => storage[g] = read
    BY <2>1 DEF Init
  <2>3. ASSUME Kind[g] = "hierarchy" PROVE DialogAgrees(g)
    <3>1. shown[g] = lines
      BY <2>1, <2>3 DEF Init, ShowsLines, ShowsSnippets
    <3>2. \A s \in Slots : calls[s].lines = {}
      BY <1>2, FreeTyped
    <3> QED BY <3>1, <3>2 DEF DialogAgrees
  <2>4. ShowsSnippets(g) => SnippetsAgree(g)
    BY <2>1 DEF Init, ShowsLines, ShowsSnippets, SnippetsAgree
  <2> QED BY <2>2, <2>3, <2>4
<1> QED BY <1>5, <1>6, <1>7

LEMMA Invariants == Spec => [](TInv /\ RInv /\ PInv)
<1>1. Init => TInv /\ RInv /\ PInv
  BY InitHolds
<1>2. ASSUME TInv /\ RInv /\ PInv, [Next]_vars PROVE (TInv /\ RInv /\ PInv)'
  <2>1. CASE Click
    BY <1>2, <2>1, ClickKept DEF Kept
  <2>2. ASSUME NEW s \in Slots, Handle(s) \/ Fail(s), UNCHANGED <<open, pageVars>>
        PROVE  (TInv /\ RInv /\ PInv)'
    BY <1>2, <2>2, HandleKept, FailKept DEF Kept
  <2>3. ASSUME NEW s \in Slots, Receive(s) PROVE (TInv /\ RInv /\ PInv)'
    BY <1>2, <2>3, ReceiveKept DEF Kept
  <2>4. CASE UNCHANGED vars
    <3>1. /\ UNCHANGED <<read, lines, unread, calls, made, crossed, faults>>
          /\ UNCHANGED <<open, storage, label, buttons, shown, loaded, behind>>
      BY <2>4 DEF vars, readVars, dbVars, pageVars, lineVars
    <3>2. TInv'
      BY <1>2, <3>1 DEF TInv, TypeOK, ReadTypeOK, Shape, About
    <3>3. RInv' /\ PInv'
      BY <1>2, <3>1 DEF RInv, PInv, DialogAgrees, SnippetsAgree, Undisturbed, Disjoint, Alone,
                        Moved, Asked
    <3> QED BY <3>2, <3>3
  <2> QED BY <1>2, <2>1, <2>2, <2>3, <2>4 DEF Next
<1> QED BY <1>1, <1>2, PTL DEF Spec

\* The state has the types that server and pages keep, whatever fails or overlaps.
THEOREM TypeCorrect == Spec => []TypeOK
<1>1. TInv => TypeOK
  BY DEF TInv
<1> QED BY <1>1, Invariants, PTL

\* The unread counter of /read/posts and /read/snippets is the number of unread posts once
\* the handlers are done, if none failed and no two were about one post: for any number of
\* requests about other posts that are served in between.
THEOREM CounterIsExact == Spec => []CounterExact
<1>1. ASSUME TInv, RInv, Quiet, Undisturbed PROVE unread = Cardinality(Posts \ read)
  <2>1. \A s \in Slots : Uncounted(calls[s]) = {}
    BY <1>1 DEF Quiet, Uncounted
  <2>2. Counted(calls, read) = read
    BY <1>1, <2>1, Own DEF Counted, TInv, TypeOK, ReadTypeOK
  <2> QED BY <1>1, <2>2 DEF RInv
<1>2. TInv /\ RInv => CounterExact
  BY <1>1 DEF CounterExact
<1> QED BY <1>2, Invariants, PTL

\* Under the same conditions a post is read exactly when its sentences all are, although
\* change_status, mark_sequences_read and mark_sentences write them one after the other.
THEOREM ReadRollsUp == Spec => []PostsRollUp
<1>1. ASSUME TInv, RInv, Quiet, Undisturbed PROVE read = {p \in Posts : Of(p) \subseteq lines}
  <2>1. \A s \in Slots : Midway(calls[s]) = {}
    BY <1>1 DEF Quiet, Midway
  <2>2. \A p \in Posts : Agree(p, read, lines)
    BY <1>1, <2>1 DEF RInv
  <2>3. read \subseteq Posts
    BY <1>1 DEF TInv, TypeOK, ReadTypeOK
  <2> QED BY <2>2, <2>3 DEF Agree
<1>2. TInv /\ RInv => PostsRollUp
  BY <1>1 DEF PostsRollUp
<1> QED BY <1>2, Invariants, PTL

\* A page that is open alone, of any kind but the grouped one, shows what is stored once its
\* requests are answered, although each kind takes an answer in its own way: every post, every
\* sentence of a dialog that was not opened again over a change of it, and every snippet that
\* shares no sentence with another one marked since it was.
THEOREM PagesAgree == Spec => []PageAgrees
<1>1. ASSUME TInv, PInv, NEW g \in open, Alone(g), Kind[g] # "grouped", Settled, Undisturbed
      PROVE  /\ HoldsPosts(g) => storage[g] = read
             /\ Kind[g] = "hierarchy" =>
                  \A l \in Lines \ behind[g] : (l \in shown[g]) = (l \in lines)
             /\ ShowsSnippets(g) =>
                  \A t \in On[g] \ behind[g] : (t \in shown[g]) = (Has[t] \subseteq lines)
  <2>1. g \in Pages /\ storage[g] \subseteq Posts /\ read \subseteq Posts
    BY <1>1, PagesAssumption DEF TInv, TypeOK, ReadTypeOK
  <2>2. \A s \in Slots : calls[s].posts = {} /\ calls[s].lines = {}
    BY <1>1, Own DEF Settled, Busy, Shape
  <2>3. (\A p : ~Moved(p)) /\ (\A l : ~Asked(l))
    BY <2>2 DEF Moved, Asked
  <2>4. HoldsPosts(g) => storage[g] = read
    BY <1>1, <2>1, <2>3 DEF PInv
  <2>5. Kind[g] = "hierarchy" => \A l \in Lines \ behind[g] : (l \in shown[g]) = (l \in lines)
    BY <1>1, <2>1, <2>3 DEF PInv, DialogAgrees
  <2>6. ShowsSnippets(g) =>
          \A t \in On[g] \ behind[g] : (t \in shown[g]) = (Has[t] \subseteq lines)
    BY <1>1, <2>1, <2>3 DEF PInv, SnippetsAgree
  <2> QED BY <2>4, <2>5, <2>6
<1>2. TInv /\ PInv => PageAgrees
  BY <1>1 DEF PageAgrees
<1> QED BY <1>2, Invariants, PTL

-----------------------------------------------------------------------------
(* Chat: the operators. *)

(* Prefixes. *)

\* A prefix agrees with the sequence as far as it goes.
LEMMA PrefixMeans ==
  ASSUME NEW S, NEW s \in Seq(S), NEW t \in Seq(S)
  PROVE  IsPrefix(s, t) <=> Len(s) <= Len(t) /\ \A i \in 1 .. Len(s) : s[i] = t[i]
<1>1. SubSeq(s, 1, Len(s)) = s
  BY SubSeqFull
<1>2. ASSUME Len(s) <= Len(t)
      PROVE  /\ SubSeq(t, 1, Len(s)) \in Seq(S)
             /\ Len(SubSeq(t, 1, Len(s))) = Len(s)
             /\ \A i \in 1 .. Len(s) : SubSeq(t, 1, Len(s))[i] = t[i]
  <2>1. \A i \in 1 .. Len(s) : t[i] \in S
    BY <1>2
  <2>2. Len(s) \in Nat
    OBVIOUS
  <2> DEFINE n == Len(s)
  <2>3. n \in Nat /\ \A i \in 1 .. n : t[i] \in S
    BY <2>1, <2>2
  <2>4. /\ SubSeq(t, 1, n) \in Seq(S)
        /\ Len(SubSeq(t, 1, n)) = IF 1 <= n THEN n - 1 + 1 ELSE 0
        /\ \A i \in 1 .. n - 1 + 1 : SubSeq(t, 1, n)[i] = t[1 + i - 1]
    <3> HIDE DEF n
    <3> QED BY <2>3, SubSeqProperties
  <2> QED BY <2>3, <2>4
<1>3. ASSUME Len(s) <= Len(t), s = SubSeq(t, 1, Len(s))
      PROVE  \A i \in 1 .. Len(s) : s[i] = t[i]
  BY <1>2, <1>3
<1>4. ASSUME Len(s) <= Len(t), \A i \in 1 .. Len(s) : s[i] = t[i]
      PROVE  s = SubSeq(t, 1, Len(s))
  <2> DEFINE u == SubSeq(t, 1, Len(s))
  <2>1. u \in Seq(S) /\ Len(u) = Len(s) /\ \A i \in 1 .. Len(s) : u[i] = t[i]
    BY <1>2, <1>4
  <2> HIDE DEF u
  <2>2. s = u
    BY <2>1, <1>4, SeqEqual
  <2> QED BY <2>2 DEF u
<1> QED BY <1>1, <1>3, <1>4 DEF IsPrefix

LEMMA PrefixOrder ==
  ASSUME NEW S, NEW s \in Seq(S), NEW t \in Seq(S), NEW u \in Seq(S)
  PROVE  /\ IsPrefix(s, s)
         /\ IsPrefix(s, t) /\ IsPrefix(t, u) => IsPrefix(s, u)
<1>1. IsPrefix(s, s)
  BY PrefixMeans
<1>2. ASSUME IsPrefix(s, t), IsPrefix(t, u) PROVE IsPrefix(s, u)
  <2>1. Len(s) <= Len(t) /\ Len(t) <= Len(u)
        /\ (\A i \in 1 .. Len(s) : s[i] = t[i]) /\ (\A i \in 1 .. Len(t) : t[i] = u[i])
    BY <1>2, PrefixMeans
  <2>2. Len(s) <= Len(u) /\ \A i \in 1 .. Len(s) : s[i] = u[i]
    BY <2>1
  <2> QED BY <2>2, PrefixMeans
<1> QED BY <1>1, <1>2

LEMMA PrefixAppend ==
  ASSUME NEW S, NEW s \in Seq(S), NEW e \in S
  PROVE  Append(s, e) \in Seq(S) /\ IsPrefix(s, Append(s, e))
<1>1. /\ Append(s, e) \in Seq(S) /\ Len(Append(s, e)) = Len(s) + 1
      /\ \A i \in 1 .. Len(s) : Append(s, e)[i] = s[i]
  BY AppendProperties
<1> DEFINE t == Append(s, e)
<1>2. t \in Seq(S) /\ Len(s) <= Len(t) /\ \A i \in 1 .. Len(s) : s[i] = t[i]
  BY <1>1
<1>3. IsPrefix(s, t)
  <2> HIDE DEF t
  <2> QED BY <1>2, PrefixMeans
<1> QED BY <1>1, <1>3

\* The first n elements of a sequence, and of any that it is a prefix of.
LEMMA PrefixCut ==
  ASSUME NEW S, NEW s \in Seq(S), NEW n \in 0 .. Len(s)
  PROVE  /\ SubSeq(s, 1, n) \in Seq(S) /\ Len(SubSeq(s, 1, n)) = n
         /\ IsPrefix(SubSeq(s, 1, n), s)
         /\ \A t \in Seq(S) : IsPrefix(s, t) => SubSeq(t, 1, n) = SubSeq(s, 1, n)
<1>1. ASSUME NEW t \in Seq(S), n <= Len(t)
      PROVE  /\ SubSeq(t, 1, n) \in Seq(S) /\ Len(SubSeq(t, 1, n)) = n
             /\ \A i \in 1 .. n : SubSeq(t, 1, n)[i] = t[i]
  <2>1. n \in Int /\ \A i \in 1 .. n : t[i] \in S
    BY <1>1
  <2>2. /\ SubSeq(t, 1, n) \in Seq(S)
        /\ Len(SubSeq(t, 1, n)) = IF 1 <= n THEN n - 1 + 1 ELSE 0
        /\ \A i \in 1 .. n - 1 + 1 : SubSeq(t, 1, n)[i] = t[1 + i - 1]
    BY <2>1, SubSeqProperties
  <2> QED BY <2>2
<1>2. IsPrefix(SubSeq(s, 1, n), s)
  <2> DEFINE r == SubSeq(s, 1, n)
  <2>1. r \in Seq(S) /\ Len(r) <= Len(s) /\ \A i \in 1 .. Len(r) : r[i] = s[i]
    BY <1>1
  <2> HIDE DEF r
  <2>2. IsPrefix(r, s)
    BY <2>1, PrefixMeans
  <2> QED BY <2>2 DEF r
<1>3. ASSUME NEW t \in Seq(S), IsPrefix(s, t) PROVE SubSeq(t, 1, n) = SubSeq(s, 1, n)
  <2>1. Len(s) <= Len(t) /\ \A i \in 1 .. Len(s) : s[i] = t[i]
    BY <1>3, PrefixMeans
  <2>2. /\ SubSeq(t, 1, n) \in Seq(S) /\ SubSeq(s, 1, n) \in Seq(S)
        /\ Len(SubSeq(t, 1, n)) = Len(SubSeq(s, 1, n))
        /\ Len(SubSeq(s, 1, n)) = n
        /\ \A i \in 1 .. n : SubSeq(t, 1, n)[i] = SubSeq(s, 1, n)[i]
    BY <2>1, <1>1
  <2> QED BY <2>2, SeqEqual
<1> QED BY <1>1, <1>2, <1>3

-----------------------------------------------------------------------------
(* Types.  A job is about a conversation that is there, and the steps it goes through
   are those of its kind. *)

Stages(kind) ==
  CASE kind = "none" -> {"free"}
    [] kind = "send" -> {"read", "title", "user", "answer", "get", "show"}
    [] kind = "fork" -> {"fork", "get", "show", "list", "listed"}
    [] kind = "rename" -> {"rename", "renamed"}
    [] kind = "select" -> {"get", "show"}
    [] kind = "delete" -> {"delete", "removed"}
    [] kind = "back" -> {"list", "listed"}
    [] OTHER -> {"create", "get", "show", "list", "listed"}

\* What the conversations cs become: there are more, and each goes on.
Continues(cs, ds) ==
  /\ Len(cs) <= Len(ds)
  /\ \A c \in 1 .. Len(cs) : IsPrefix(cs[c].messages, ds[c].messages)

\* A copy is how one of the conversations cs begins.
CopyOf(copy, cs) ==
  copy = None \/ (copy.id \in 1 .. Len(cs) /\ IsPrefix(copy.messages, cs[copy.id].messages))

JobOK(j, cs) ==
  /\ j.at \in Stages(j.kind)
  /\ j.at \notin {"free", "create", "list", "listed"} => j.chat \in 1 .. Len(cs)
  /\ j.at \in {"rename", "renamed", "fork"} => j.copy # None /\ j.copy.id = j.chat
  /\ j.at = "show" => j.copy # None
  /\ j.at = "get" /\ j.kind = "fork" => IsPrefix(j.copy.messages, cs[j.chat].messages)
  /\ j.found \subseteq 1 .. Len(cs)
  /\ CopyOf(j.copy, cs)
  /\ j.view => j.tab \in Tabs

ChatTInv ==
  /\ ChatTypeOK
  /\ \A t \in Tabs : CopyOf(active[t], chats) /\ CopyOf(storeActive[t], chats)
  /\ \A s \in JobSlots : JobOK(jobs[s], chats)

LEMMA FreeIsJob ==
  /\ None \in Copies /\ \A cs : CopyOf(None, cs)
  /\ FreeJob \in Jobs /\ FreeJob.view = FALSE /\ FreeJob.at = "free" /\ \A cs : JobOK(FreeJob, cs)
<1>1. None \in Copies
  <2>1. <<>> \in Seq(Messages)
    OBVIOUS
  <2> QED BY <2>1 DEF None, Copies, Titles
<1>2. FreeJob = [kind |-> "none", at |-> "free", tab |-> "none", chat |-> 0, question |-> 0,
              copy |-> None, found |-> {}, view |-> FALSE]
  BY DEF FreeJob, Job
<1>3. FreeJob \in Jobs
  BY <1>1, <1>2 DEF Jobs, Kinds, JobSteps
<1>4. \A cs : CopyOf(None, cs)
  BY DEF CopyOf
<1>5. ASSUME NEW cs PROVE JobOK(FreeJob, cs)
  BY <1>2, <1>4 DEF JobOK, Stages
<1> QED BY <1>1, <1>2, <1>3, <1>4, <1>5

LEMMA MessagesTyped ==
  /\ \A cs \in Seq(Conversations) : \A c \in 1 .. Len(cs) :
       cs[c] \in Conversations /\ cs[c].messages \in Seq(Messages)
  /\ \A copy \in Copies : copy.messages \in Seq(Messages) /\ copy.id \in Nat
<1>1. ASSUME NEW cs \in Seq(Conversations), NEW c \in 1 .. Len(cs)
      PROVE  cs[c] \in Conversations /\ cs[c].messages \in Seq(Messages)
  <2>1. cs[c] \in Conversations
    OBVIOUS
  <2> QED BY <2>1 DEF Conversations
<1>2. ASSUME NEW copy \in Copies PROVE copy.messages \in Seq(Messages) /\ copy.id \in Nat
  BY DEF Copies
<1> QED BY <1>1, <1>2

LEMMA ContinuesItself == ASSUME NEW cs \in Seq(Conversations) PROVE Continues(cs, cs)
<1>1. \A c \in 1 .. Len(cs) : cs[c].messages \in Seq(Messages)
  BY MessagesTyped
<1> QED BY <1>1, PrefixOrder DEF Continues

\* What is shown of a conversation is so when it goes on.
LEMMA OfKept ==
  ASSUME NEW cs \in Seq(Conversations), NEW ds \in Seq(Conversations), Continues(cs, ds),
         NEW copy \in Copies, NEW c \in 1 .. Len(cs), IsPrefix(copy.messages, cs[c].messages)
  PROVE  c \in 1 .. Len(ds) /\ IsPrefix(copy.messages, ds[c].messages)
<1>1. c \in 1 .. Len(ds) /\ IsPrefix(cs[c].messages, ds[c].messages)
  BY DEF Continues
<1>2. /\ copy.messages \in Seq(Messages) /\ cs[c].messages \in Seq(Messages)
      /\ ds[c].messages \in Seq(Messages)
  BY <1>1, MessagesTyped
<1> QED BY <1>1, <1>2, PrefixOrder

LEMMA OfGoesOn ==
  ASSUME NEW cs \in Seq(Conversations), NEW ds \in Seq(Conversations), Continues(cs, ds),
         NEW copy \in Copies, CopyOf(copy, cs)
  PROVE  CopyOf(copy, ds)
<1>1. CASE copy = None
  BY <1>1 DEF CopyOf
<1>2. CASE copy.id \in 1 .. Len(cs) /\ IsPrefix(copy.messages, cs[copy.id].messages)
  <2>1. copy.id \in 1 .. Len(ds) /\ IsPrefix(copy.messages, ds[copy.id].messages)
    BY <1>2, OfKept
  <2> QED BY <2>1 DEF CopyOf
<1> QED BY <1>1, <1>2 DEF CopyOf

\* A job stays in order when conversations go on, and when its view is gone.
LEMMA JobKept ==
  ASSUME NEW cs \in Seq(Conversations), NEW ds \in Seq(Conversations), Continues(cs, ds),
         NEW j \in Jobs, JobOK(j, cs)
  PROVE  /\ JobOK(j, ds)
         /\ [j EXCEPT !.view = FALSE] \in Jobs /\ JobOK([j EXCEPT !.view = FALSE], ds)
<1>1. 1 .. Len(cs) \subseteq 1 .. Len(ds)
  BY DEF Continues
<1>2. CopyOf(j.copy, ds)
  <2>1. j.copy \in Copies /\ CopyOf(j.copy, cs)
    BY DEF Jobs, JobOK
  <2> QED BY <2>1, OfGoesOn
<1>3. j.at = "get" /\ j.kind = "fork" => IsPrefix(j.copy.messages, ds[j.chat].messages)
  BY OfKept DEF JobOK, Jobs
<1>4. JobOK(j, ds)
  BY <1>1, <1>2, <1>3 DEF JobOK
<1> DEFINE k == [j EXCEPT !.view = FALSE]
<1>5. /\ k.at = j.at /\ k.kind = j.kind /\ k.chat = j.chat /\ k.copy = j.copy
      /\ k.found = j.found /\ k.view = FALSE /\ k \in Jobs
  BY DEF Jobs
<1>6. JobOK(k, ds)
  <2> HIDE DEF k
  <2> QED BY <1>4, <1>5 DEF JobOK
<1> QED BY <1>4, <1>5, <1>6

\* What a step may do to the conversations.
Grown == chats' \in Seq(Conversations) /\ Len(chats') <= MaxChats /\ Continues(chats, chats')

LEMMA Unchanged == ASSUME ChatTypeOK, UNCHANGED chats PROVE Grown
BY ContinuesItself DEF Grown, Continues, ChatTypeOK

\* A step that makes one slot's job j, and may take the views of a tab away.
LEMMA JobsStep ==
  ASSUME ChatTInv, Grown, NEW s \in JobSlots, NEW j \in Jobs, JobOK(j, chats'),
         \/ jobs' = [jobs EXCEPT ![s] = j]
         \/ \E t, isOpen, chat : jobs' = Mounted([jobs EXCEPT ![s] = j], t, isOpen, chat)
  PROVE  jobs' \in [JobSlots -> Jobs] /\ \A r \in JobSlots : JobOK(jobs'[r], chats')
<1> DEFINE js == [jobs EXCEPT ![s] = j]
<1>1. chats \in Seq(Conversations) /\ chats' \in Seq(Conversations) /\ Continues(chats, chats')
  BY DEF ChatTInv, ChatTypeOK, Grown
<1>2. js \in [JobSlots -> Jobs] /\ \A r \in JobSlots : JobOK(js[r], chats')
  BY <1>1, JobKept DEF ChatTInv, ChatTypeOK
<1>3. CASE jobs' = js
  BY <1>2, <1>3
<1>4. ASSUME NEW t, NEW isOpen, NEW chat, jobs' = Mounted(js, t, isOpen, chat)
      PROVE  jobs' \in [JobSlots -> Jobs] /\ \A r \in JobSlots : JobOK(jobs'[r], chats')
  <2> HIDE DEF js
  <2>1. \A r \in JobSlots : jobs'[r] = js[r] \/ jobs'[r] = [js[r] EXCEPT !.view = FALSE]
    BY <1>4 DEF Mounted
  <2>2. ASSUME NEW r \in JobSlots PROVE jobs'[r] \in Jobs /\ JobOK(jobs'[r], chats')
    <3>1. js[r] \in Jobs /\ JobOK(js[r], chats') /\ Continues(chats', chats')
      BY <1>1, <1>2, ContinuesItself
    <3>2. [js[r] EXCEPT !.view = FALSE] \in Jobs /\ JobOK([js[r] EXCEPT !.view = FALSE], chats')
      BY <1>1, <3>1, JobKept
    <3> QED BY <2>1, <3>1, <3>2
  <2>3. jobs' = [r \in JobSlots |-> jobs'[r]]
    BY <1>4 DEF Mounted
  <2> QED BY <2>2, <2>3
<1> QED BY <1>3, <1>4

\* A job that a click starts.
LEMMA ChainTyped ==
  ASSUME ChatTInv, UNCHANGED chats, NEW s \in JobSlots, Start(s), NEW j \in Jobs, JobOK(j, chats),
         \/ jobs' = [jobs EXCEPT ![s] = j]
         \/ \E t, isOpen, chat : jobs' = Mounted([jobs EXCEPT ![s] = j], t, isOpen, chat)
  PROVE  /\ jobs' \in [JobSlots -> Jobs] /\ \A r \in JobSlots : JobOK(jobs'[r], chats')
         /\ started' \in 0 .. MaxJobs
<1>1. Grown /\ chats' = chats
  BY Unchanged DEF ChatTInv
<1>2. started' \in 0 .. MaxJobs
  BY ChatAssumption DEF ChatTInv, ChatTypeOK, Start
<1> QED BY <1>1, <1>2, JobsStep

LEMMA ClickTyped ==
  ASSUME ChatTInv, NEW t \in Tabs, ClickInPanel(t)
  PROVE  ChatTInv'
<1> DEFINE n == Len(chats)
<1>1. /\ n \in Nat /\ UNCHANGED chatDbVars /\ UNCHANGED failures
      /\ \A c \in Copies : CopyOf(c, chats) => c = None \/ (c # None /\ c.id \in 1 .. n)
  <2>1. UNCHANGED chatDbVars /\ UNCHANGED failures
    BY DEF ClickInPanel, HandleSend, HandleRename, HandleCreate, HandleBack, Toggle, StartWithContext,
           HandleFork, HandleSelect, HandleDelete
  <2> QED BY <2>1 DEF ChatTInv, ChatTypeOK, CopyOf
<1>2. /\ active[t] \in Copies /\ CopyOf(active[t], chats) /\ list[t] \subseteq 1 .. n
      /\ storeActive[t] \in Copies /\ CopyOf(storeActive[t], chats) /\ questions \in Nat
  BY DEF ChatTInv, ChatTypeOK, Ids
\* What remains to be shown of an action.
<1>3. ASSUME jobs' \in [JobSlots -> Jobs], \A r \in JobSlots : JobOK(jobs'[r], chats),
             started' \in 0 .. MaxJobs, questions' \in Nat,
             panelOpen' = panelOpen \/ panelOpen' = [panelOpen EXCEPT ![t] = ~@],
             storeOpen' \in [Tabs -> BOOLEAN], UNCHANGED <<storeActive, list>>,
             \/ active' = active
             \/ \E c \in Copies : CopyOf(c, chats) /\ active' = [active EXCEPT ![t] = c]
      PROVE  ChatTInv'
  <2>1. active' \in [Tabs -> Copies] /\ \A u \in Tabs : CopyOf(active'[u], chats)
    BY <1>3 DEF ChatTInv, ChatTypeOK
  <2>2. panelOpen' \in [Tabs -> BOOLEAN]
    BY <1>3 DEF ChatTInv, ChatTypeOK
  <2> QED BY <1>1, <1>3, <2>1, <2>2 DEF ChatTInv, ChatTypeOK, Ids, chatDbVars
\* A chain that leaves the panel alone.
<1>4. ASSUME NEW j \in Jobs, JobOK(j, chats), Chain(j), questions' \in Nat,
             UNCHANGED panelVars, UNCHANGED storeVars
      PROVE  ChatTInv'
  <2>1. PICK s \in JobSlots : Start(s) /\ jobs' = [jobs EXCEPT ![s] = j]
    BY <1>4 DEF Chain
  <2>2. /\ jobs' \in [JobSlots -> Jobs] /\ \A r \in JobSlots : JobOK(jobs'[r], chats')
        /\ started' \in 0 .. MaxJobs
    BY <2>1, <1>1, <1>4, ChainTyped DEF chatDbVars
  <2>3. storeOpen' \in [Tabs -> BOOLEAN]
    BY <1>4 DEF ChatTInv, ChatTypeOK, storeVars
  <2> QED BY <1>1, <1>3, <1>4, <2>2, <2>3 DEF chatDbVars, panelVars, storeVars
<1>5. CASE HandleSend(t)
  <2> DEFINE j == [Job("send", "read", t, active[t].id) EXCEPT !.question = questions', !.view = TRUE]
  <2>1. active[t].id \in 1 .. n
    BY <1>1, <1>2, <1>5 DEF HandleSend, InView
  <2>2. questions' \in Nat
    BY <1>2, <1>5 DEF HandleSend
  <2>3. /\ j \in Jobs /\ j.kind = "send" /\ j.at = "read" /\ j.tab = t
        /\ j.chat = active[t].id /\ j.copy = None /\ j.found = {}
    <3> DEFINE x == Job("send", "read", t, active[t].id)
    <3>1. active[t].id \in Nat
      BY <1>2 DEF Copies
    <3>2. x = [kind |-> "send", at |-> "read", tab |-> t, chat |-> active[t].id, question |-> 0,
               copy |-> None, found |-> {}, view |-> FALSE]
      BY DEF Job
    <3> HIDE DEF x
    <3>3. x \in Jobs
      BY <3>1, <3>2, FreeIsJob DEF Jobs, Kinds, JobSteps
    <3>4. /\ x.kind = "send" /\ x.at = "read" /\ x.tab = t
          /\ x.chat = active[t].id /\ x.copy = None /\ x.found = {}
      BY <3>2
    <3> QED BY <3>3, <3>4, <1>2, <2>1, <2>2 DEF x, Jobs
  <2>4. j \in Jobs /\ JobOK(j, chats)
    <3> HIDE DEF j
    <3> QED BY <2>1, <2>2, <2>3, FreeIsJob DEF Jobs, JobOK, Stages, Kinds, JobSteps
  <2>5. Chain(j)
    BY <1>5 DEF HandleSend
  <2> HIDE DEF j
  <2> QED BY <1>4, <1>5, <2>2, <2>4, <2>5 DEF HandleSend
<1>6. ASSUME NEW i, HandleFork(t, i) PROVE ChatTInv'
  <2> DEFINE c == [active[t] EXCEPT !.messages = SubSeq(@, 1, i)]
             j == [Job("fork", "fork", t, active[t].id) EXCEPT !.copy = c]
  <2>1. active[t].id \in 1 .. n
    BY <1>1, <1>2, <1>6 DEF HandleFork, InView
  <2>2. c \in Copies /\ c.id = active[t].id
    <3>1. active[t].messages \in Seq(Messages) /\ i \in 0 .. Len(active[t].messages)
      BY <1>2, <1>6 DEF HandleFork, Copies
    <3>2. SubSeq(active[t].messages, 1, i) \in Seq(Messages)
      BY <3>1, PrefixCut
    <3> QED BY <1>2, <3>2 DEF Copies
  <2>3. /\ j \in Jobs /\ j.kind = "fork" /\ j.at = "fork" /\ j.tab = t
        /\ j.chat = active[t].id /\ j.copy = c /\ j.found = {}
    <3> DEFINE x == Job("fork", "fork", t, active[t].id)
    <3>1. active[t].id \in Nat
      BY <1>2 DEF Copies
    <3>2. x = [kind |-> "fork", at |-> "fork", tab |-> t, chat |-> active[t].id, question |-> 0,
               copy |-> None, found |-> {}, view |-> FALSE]
      BY DEF Job
    <3> HIDE DEF x
    <3>3. x \in Jobs
      BY <3>1, <3>2, FreeIsJob DEF Jobs, Kinds, JobSteps
    <3>4. /\ x.kind = "fork" /\ x.at = "fork" /\ x.tab = t
          /\ x.chat = active[t].id /\ x.copy = None /\ x.found = {}
      BY <3>2
    <3> QED BY <3>3, <3>4, <1>2, <2>1, <2>2 DEF x, Jobs
  <2>4. c # None /\ CopyOf(c, chats)
    <3> DEFINE before == active[t].messages
               stored == chats[active[t].id].messages
               cut == SubSeq(before, 1, i)
    <3>1. before \in Seq(Messages) /\ stored \in Seq(Messages) /\ i \in 0 .. Len(before)
      BY <1>2, <1>6, <2>1, MessagesTyped DEF HandleFork, ChatTInv, ChatTypeOK
    <3>2. active[t] # None
      BY <1>6 DEF HandleFork, InView
    <3>3. IsPrefix(before, stored)
      BY <1>2, <3>2 DEF CopyOf
    <3>4. cut \in Seq(Messages) /\ IsPrefix(cut, before)
      BY <3>1, PrefixCut
    <3>5. IsPrefix(cut, stored)
      <4> HIDE DEF cut, before, stored
      <4> QED BY <3>1, <3>3, <3>4, PrefixOrder
    <3>6. c.messages = cut
      BY <1>2 DEF Copies
    <3>7. None.id = 0
      BY DEF None
    <3> HIDE DEF c, cut
    <3> QED BY <2>1, <2>2, <3>5, <3>6, <3>7 DEF CopyOf
  <2>5. j \in Jobs /\ JobOK(j, chats)
    <3> HIDE DEF j, c
    <3> QED BY <2>1, <2>2, <2>3, <2>4, FreeIsJob DEF Jobs, JobOK, Stages, Kinds, JobSteps
  <2>6. Chain(j)
    BY <1>6 DEF HandleFork
  <2>7. questions' \in Nat
    BY <1>2, <1>6 DEF HandleFork
  <2> HIDE DEF j
  <2> QED BY <1>4, <1>6, <2>5, <2>6, <2>7 DEF HandleFork
<1>7. CASE HandleRename(t)
  <2> DEFINE j == [Job("rename", "rename", t, active[t].id) EXCEPT !.copy = active[t]]
  <2>1. active[t].id \in 1 .. n /\ active[t] # None
    BY <1>1, <1>2, <1>7 DEF HandleRename, InView
  <2>2. /\ j \in Jobs /\ j.kind = "rename" /\ j.at = "rename" /\ j.tab = t
        /\ j.chat = active[t].id /\ j.copy = active[t] /\ j.found = {}
    <3> DEFINE x == Job("rename", "rename", t, active[t].id)
    <3>1. active[t].id \in Nat
      BY <1>2 DEF Copies
    <3>2. x = [kind |-> "rename", at |-> "rename", tab |-> t, chat |-> active[t].id, question |-> 0,
               copy |-> None, found |-> {}, view |-> FALSE]
      BY DEF Job
    <3> HIDE DEF x
    <3>3. x \in Jobs
      BY <3>1, <3>2, FreeIsJob DEF Jobs, Kinds, JobSteps
    <3>4. /\ x.kind = "rename" /\ x.at = "rename" /\ x.tab = t
          /\ x.chat = active[t].id /\ x.copy = None /\ x.found = {}
      BY <3>2
    <3> QED BY <3>3, <3>4, <1>2, <2>1 DEF x, Jobs
  <2>3. j \in Jobs /\ JobOK(j, chats)
    <3> HIDE DEF j
    <3> QED BY <1>2, <2>1, <2>2, FreeIsJob DEF Jobs, JobOK, Stages, Kinds, JobSteps
  <2>4. Chain(j)
    BY <1>7 DEF HandleRename
  <2>5. questions' \in Nat
    BY <1>2, <1>7 DEF HandleRename
  <2> HIDE DEF j
  <2> QED BY <1>4, <1>7, <2>3, <2>4, <2>5 DEF HandleRename
\* The jobs that carry no copy.
<1>8. ASSUME NEW kind \in Kinds, NEW at \in Stages(kind), NEW c \in Nat,
             kind # "fork", at \notin {"free", "rename", "renamed", "fork", "show"},
             at \notin {"create", "list", "listed"} => c \in 1 .. n
      PROVE  Job(kind, at, t, c) \in Jobs /\ JobOK(Job(kind, at, t, c), chats)
  <2>1. at \in JobSteps
    BY <1>8 DEF Stages, JobSteps, Kinds
  <2>2. Job(kind, at, t, c) = [kind |-> kind, at |-> at, tab |-> t, chat |-> c, question |-> 0,
                               copy |-> None, found |-> {}, view |-> FALSE]
    BY DEF Job
  <2> QED BY <1>8, <2>1, <2>2, FreeIsJob DEF Jobs, JobOK
<1>9. ASSUME NEW c \in Nat, HandleSelect(t, c) PROVE ChatTInv'
  <2>1. Job("select", "get", t, c) \in Jobs /\ JobOK(Job("select", "get", t, c), chats)
    <3>1. c \in 1 .. n
      BY <1>2, <1>9 DEF HandleSelect
    <3> QED BY <3>1, <1>8 DEF Kinds, Stages
  <2> QED BY <1>2, <1>4, <1>9, <2>1 DEF HandleSelect
<1>10. CASE HandleCreate(t)
  <2>1. Job("create", "create", t, 0) \in Jobs /\ JobOK(Job("create", "create", t, 0), chats)
    BY <1>8 DEF Kinds, Stages
  <2> QED BY <1>2, <1>4, <1>10, <2>1 DEF HandleCreate
<1>11. ASSUME NEW c \in Nat, HandleDelete(t, c) PROVE ChatTInv'
  <2>1. Job("delete", "delete", t, c) \in Jobs /\ JobOK(Job("delete", "delete", t, c), chats)
    <3>1. c \in 1 .. n
      BY <1>2, <1>11 DEF HandleDelete
    <3> QED BY <3>1, <1>8 DEF Kinds, Stages
  <2> QED BY <1>2, <1>4, <1>11, <2>1 DEF HandleDelete
<1>12. CASE HandleBack(t)
  <2> DEFINE j == Job("back", "list", t, 0)
  <2>1. j \in Jobs /\ JobOK(j, chats)
    BY <1>8 DEF Kinds, Stages
  <2>2. PICK s \in JobSlots : Start(s) /\ ChatUpdated(t, None, [jobs EXCEPT ![s] = j])
    BY <1>12 DEF HandleBack
  <2> HIDE DEF j
  <2>3. jobs' = Mounted([jobs EXCEPT ![s] = j], t, panelOpen[t], None) /\ UNCHANGED <<panelOpen, list>>
        /\ active' = [active EXCEPT ![t] = None]
    BY <2>2 DEF ChatUpdated
  <2>4. /\ jobs' \in [JobSlots -> Jobs] /\ \A r \in JobSlots : JobOK(jobs'[r], chats')
        /\ started' \in 0 .. MaxJobs
    BY <1>1, <2>1, <2>2, <2>3, ChainTyped DEF chatDbVars
  <2>5. storeOpen' \in [Tabs -> BOOLEAN] /\ UNCHANGED storeActive /\ questions' \in Nat
    BY <1>2, <1>12 DEF HandleBack, ChatTInv, ChatTypeOK, storeVars
  <2> QED BY <1>1, <1>3, <2>3, <2>4, <2>5, FreeIsJob DEF chatDbVars
<1>13. CASE StartWithContext(t)
  <2> DEFINE j == Job("context", "create", t, 0)
  <2>1. j \in Jobs /\ JobOK(j, chats)
    BY <1>8 DEF Kinds, Stages
  <2>2. PICK s \in JobSlots : Start(s) /\ ChatUpdated(t, storeActive[t], [jobs EXCEPT ![s] = j])
    BY <1>13 DEF StartWithContext
  <2> HIDE DEF j
  <2>3. jobs' = Mounted([jobs EXCEPT ![s] = j], t, panelOpen[t], storeActive[t]) /\ UNCHANGED <<panelOpen, list>>
        /\ active' = [active EXCEPT ![t] = storeActive[t]]
    BY <2>2 DEF ChatUpdated
  <2>4. /\ jobs' \in [JobSlots -> Jobs] /\ \A r \in JobSlots : JobOK(jobs'[r], chats')
        /\ started' \in 0 .. MaxJobs
    BY <1>1, <2>1, <2>2, <2>3, ChainTyped DEF chatDbVars
  <2>5. storeOpen' \in [Tabs -> BOOLEAN] /\ UNCHANGED storeActive /\ questions' \in Nat
    BY <1>2, <1>13 DEF StartWithContext, ChatTInv, ChatTypeOK
  <2> QED BY <1>1, <1>2, <1>3, <2>3, <2>4, <2>5 DEF chatDbVars
<1>14. CASE Toggle(t)
  <2>1. \A r \in JobSlots : jobs'[r] = jobs[r] \/ jobs'[r] = [jobs[r] EXCEPT !.view = FALSE]
    BY <1>14 DEF Toggle, Mounted
  <2>2. jobs' = [r \in JobSlots |-> jobs'[r]]
    BY <1>14 DEF Toggle, Mounted
  <2>3. ASSUME NEW r \in JobSlots PROVE jobs'[r] \in Jobs /\ JobOK(jobs'[r], chats)
    <3>1. jobs[r] \in Jobs /\ JobOK(jobs[r], chats) /\ chats \in Seq(Conversations)
          /\ Continues(chats, chats)
      BY ContinuesItself DEF ChatTInv, ChatTypeOK
    <3>2. [jobs[r] EXCEPT !.view = FALSE] \in Jobs /\ JobOK([jobs[r] EXCEPT !.view = FALSE], chats)
      BY <1>1, <3>1, JobKept
    <3> QED BY <2>1, <3>1, <3>2
  <2>4. /\ panelOpen' = [panelOpen EXCEPT ![t] = ~@] /\ storeOpen' \in [Tabs -> BOOLEAN]
        /\ active' = [active EXCEPT ![t] = storeActive[t]] /\ UNCHANGED <<storeActive, list>>
        /\ started' \in 0 .. MaxJobs /\ questions' \in Nat
    BY <1>14 DEF Toggle, ChatTInv, ChatTypeOK
  <2>5. jobs' \in [JobSlots -> Jobs]
    BY <2>2, <2>3
  <2> QED BY <1>2, <1>3, <2>3, <2>4, <2>5
<1> QED BY <1>5, <1>6, <1>7, <1>9, <1>10, <1>11, <1>12, <1>13, <1>14, ChatAssumption DEF ClickInPanel

-----------------------------------------------------------------------------
(* Conversations grow. *)

\* One conversation is replaced by one that continues it.
LEMMA Continued ==
  ASSUME ChatTypeOK, NEW c \in 1 .. Len(chats), NEW x \in Conversations,
         IsPrefix(chats[c].messages, x.messages), chats' = [chats EXCEPT ![c] = x]
  PROVE  Grown
<1>1. \A d \in 1 .. Len(chats) : chats[d].messages \in Seq(Messages)
  BY MessagesTyped DEF ChatTypeOK
<1>2. /\ chats' \in Seq(Conversations) /\ Len(chats') = Len(chats)
      /\ \A d \in 1 .. Len(chats) : chats'[d] = IF d = c THEN x ELSE chats[d]
  BY ExceptSeq DEF ChatTypeOK
<1>3. \A d \in 1 .. Len(chats) : IsPrefix(chats[d].messages, chats'[d].messages)
  BY <1>1, <1>2, PrefixOrder
<1> QED BY <1>2, <1>3 DEF Grown, Continues, ChatTypeOK

LEMMA Retitled ==
  ASSUME ChatTypeOK, NEW c \in 1 .. Len(chats), NEW title \in Titles, SetTitle(c, title)
  PROVE  Grown
<1> DEFINE x == [chats[c] EXCEPT !.title = title]
<1>1. x \in Conversations /\ x.messages = chats[c].messages /\ x.messages \in Seq(Messages)
  <2>1. chats[c] \in Conversations /\ chats[c].messages \in Seq(Messages)
    BY MessagesTyped DEF ChatTypeOK
  <2> QED BY <2>1 DEF Conversations
<1>2. chats' = chats \/ chats' = [chats EXCEPT ![c] = x]
  BY DEF SetTitle, ChatTypeOK
<1> HIDE DEF x
<1>3. IsPrefix(chats[c].messages, x.messages)
  BY <1>1, PrefixOrder
<1> QED BY <1>1, <1>2, <1>3, Unchanged, Continued

LEMMA Added ==
  ASSUME ChatTypeOK, NEW s \in JobSlots, jobs[s].chat \in 1 .. Len(chats), NEW message \in Messages,
         AddMessage(s, message)
  PROVE  Grown
<1> DEFINE c == jobs[s].chat
           x == [chats[c] EXCEPT !.messages = Append(@, message)]
<1>1. chats[c] \in Conversations /\ chats[c].messages \in Seq(Messages)
  BY MessagesTyped DEF ChatTypeOK
<1>2. Append(chats[c].messages, message) \in Seq(Messages)
      /\ IsPrefix(chats[c].messages, Append(chats[c].messages, message))
  BY <1>1, PrefixAppend
<1>3. x \in Conversations /\ x.messages = Append(chats[c].messages, message)
  BY <1>1, <1>2 DEF Conversations
<1>4. chats' = chats \/ chats' = [chats EXCEPT ![c] = x]
  BY DEF AddMessage, ChatTypeOK
<1> HIDE DEF x
<1> QED BY <1>2, <1>3, <1>4, Unchanged, Continued

LEMMA Created ==
  ASSUME ChatTypeOK, CanCreate, NEW messages \in Seq(Messages), NewChat(messages)
  PROVE  /\ Grown /\ Len(chats') = Len(chats) + 1
         /\ chats'[Len(chats')].messages = messages
<1> DEFINE x == [messages |-> messages, title |-> "new"]
<1>1. x \in Conversations /\ x.messages = messages
  BY DEF Conversations, Titles
<1>2. chats' = Append(chats, x) /\ chats \in Seq(Conversations) /\ Len(chats) < MaxChats
      /\ MaxChats \in Nat
  BY ChatAssumption DEF NewChat, CanCreate, ChatTypeOK
<1> HIDE DEF x
<1>3. /\ chats' \in Seq(Conversations) /\ Len(chats') = Len(chats) + 1
      /\ \A d \in 1 .. Len(chats) : chats'[d] = chats[d]
      /\ chats'[Len(chats) + 1] = x
  BY <1>1, <1>2, AppendProperties
<1>4. \A d \in 1 .. Len(chats) : chats[d].messages \in Seq(Messages)
  BY MessagesTyped DEF ChatTypeOK
<1>5. \A d \in 1 .. Len(chats) : IsPrefix(chats[d].messages, chats'[d].messages)
  BY <1>3, <1>4, PrefixOrder
<1> QED BY <1>1, <1>2, <1>3, <1>5 DEF Grown, Continues

\* What the steps write is of the right type, and about a conversation that is there.
LEMMA Written ==
  ASSUME ChatTInv, NEW s \in JobSlots, jobs[s].at \notin {"free", "create", "list", "listed"}
  PROVE  /\ jobs[s].chat \in 1 .. Len(chats)
         /\ Question(jobs[s].question) \in Messages /\ AnswerTo(jobs[s].question) \in Messages
BY DEF ChatTInv, ChatTypeOK, Jobs, JobOK, Messages, Question, AnswerTo

\* What a fork stores is what the user saw: a copy, cut to its own length.
LEMMA ForkedAsSeen ==
  ASSUME ChatTInv, NEW s \in JobSlots, jobs[s].at = "fork"
  PROVE  LET stored == chats[jobs[s].chat].messages
             seen == jobs[s].copy.messages
         IN Forked(stored, Len(seen)) = seen /\ seen \in Seq(Messages)
<1> DEFINE c == jobs[s].chat
           stored == chats[c].messages
           seen == jobs[s].copy.messages
<1>1. /\ jobs[s].copy \in Copies /\ c \in 1 .. Len(chats) /\ IsPrefix(seen, stored)
      /\ chats \in Seq(Conversations)
  BY DEF ChatTInv, ChatTypeOK, Jobs, JobOK, CopyOf
<1>2. seen \in Seq(Messages) /\ stored \in Seq(Messages)
  BY <1>1, MessagesTyped
<1> HIDE DEF seen, stored
<1>3. Len(seen) \in 0 .. Len(seen)
  BY <1>2
<1>4. SubSeq(stored, 1, Len(seen)) = SubSeq(seen, 1, Len(seen))
  BY <1>1, <1>2, <1>3, PrefixCut
<1>5. SubSeq(seen, 1, Len(seen)) = seen
  BY <1>2, SubSeqFull
<1> QED BY <1>2, <1>4, <1>5 DEF Forked, seen, stored

LEMMA ServeGrows == ASSUME ChatTInv, NEW s \in JobSlots, Serve(s) PROVE Grown
<1> USE DEF ChatTInv
<1>1. CASE AutoTitle(s)
  BY <1>1, Written, Retitled DEF AutoTitle, Titles
<1>2. CASE RenameChat(s)
  BY <1>2, Written, Retitled DEF RenameChat, Titles
<1>3. CASE AppendQuestion(s)
  BY <1>3, Written, Added DEF AppendQuestion
<1>4. CASE AppendAnswer(s)
  BY <1>4, Written, Added DEF AppendAnswer
<1>5. CASE CreateChat(s)
  <2>1. <<>> \in Seq(Messages)
    OBVIOUS
  <2> QED BY <1>5, <2>1, Created DEF CreateChat
<1>6. CASE ForkChat(s)
  <2>1. CASE UNCHANGED chats
    BY <2>1, Unchanged
  <2>2. CASE CanCreate /\ NewChat(Forked(chats[jobs[s].chat].messages, Len(jobs[s].copy.messages)))
    BY <1>6, <2>2, ForkedAsSeen, Created DEF ForkChat
  <2> QED BY <1>6, <2>1, <2>2 DEF ForkChat
<1>7. CASE UNCHANGED chats
  BY <1>7, Unchanged
<1> QED BY <1>1, <1>2, <1>3, <1>4, <1>5, <1>6, <1>7
        DEF Serve, ReadChat, DeleteChat, GetChat, ListChats, chatDbVars

-----------------------------------------------------------------------------
(* The type invariant, for the steps of a request. *)

\* What remains to be shown of a step that leaves the panels alone.
LEMMA ServedTyped ==
  ASSUME ChatTInv, Grown, Served, NEW s \in JobSlots, NEW j \in Jobs, JobOK(j, chats'),
         jobs' = [jobs EXCEPT ![s] = j],
         deleted' \subseteq 1 .. Len(chats')
  PROVE  ChatTInv'
<1>1. jobs' \in [JobSlots -> Jobs] /\ \A r \in JobSlots : JobOK(jobs'[r], chats')
  BY JobsStep
<1>2. /\ chats \in Seq(Conversations) /\ chats' \in Seq(Conversations) /\ Continues(chats, chats')
      /\ 1 .. Len(chats) \subseteq 1 .. Len(chats')
  BY DEF ChatTInv, ChatTypeOK, Grown, Continues
<1>3. \A t \in Tabs : CopyOf(active'[t], chats') /\ CopyOf(storeActive'[t], chats')
  BY <1>2, OfGoesOn DEF ChatTInv, ChatTypeOK, Served, panelVars, storeVars
<1>4. list' \in [Tabs -> SUBSET (1 .. Len(chats'))]
  <2>1. list' = list /\ list \in [Tabs -> SUBSET (1 .. Len(chats))]
    BY DEF ChatTInv, ChatTypeOK, Ids, Served, panelVars
  <2> QED BY <1>2, <2>1
<1>5. ChatTypeOK'
  BY <1>1, <1>4 DEF ChatTInv, ChatTypeOK, Ids, Served, panelVars, storeVars, Grown
<1> QED BY <1>1, <1>3, <1>5 DEF ChatTInv

LEMMA CopyTyped ==
  ASSUME ChatTInv, NEW c \in 1 .. Len(chats)
  PROVE  Copy(c) \in Copies /\ Copy(c) # None /\ Copy(c).id = c /\ CopyOf(Copy(c), chats)
<1>1. chats[c] \in Conversations /\ chats[c].messages \in Seq(Messages)
  BY MessagesTyped DEF ChatTInv, ChatTypeOK
<1>2. Copy(c).id = c /\ Copy(c).messages = chats[c].messages /\ None.id = 0
  BY DEF Copy, None
<1>3. Copy(c) \in Copies
  BY <1>1 DEF Copy, Copies, Conversations
<1>4. IsPrefix(chats[c].messages, chats[c].messages)
  BY <1>1, PrefixOrder
<1> QED BY <1>2, <1>3, <1>4 DEF CopyOf

\* A job that goes on to another step of its kind.
LEMMA MovedJob ==
  ASSUME ChatTInv, Grown, NEW s \in JobSlots, NEW at \in Stages(jobs[s].kind), at # "show",
         at = "get" => jobs[s].kind # "fork",
         at \notin {"free", "create", "list", "listed"} =>
           jobs[s].at \notin {"free", "create", "list", "listed"},
         at \in {"rename", "renamed", "fork"} => jobs[s].at \in {"rename", "renamed", "fork"}
  PROVE  /\ [jobs[s] EXCEPT !.at = at] \in Jobs /\ JobOK([jobs[s] EXCEPT !.at = at], chats')
         /\ [jobs EXCEPT ![s].at = at] = [jobs EXCEPT ![s] = [jobs[s] EXCEPT !.at = at]]
<1>1. jobs[s] \in Jobs /\ JobOK(jobs[s], chats')
  BY JobKept DEF ChatTInv, ChatTypeOK, Grown
<1> DEFINE j == jobs[s]
           k == [j EXCEPT !.at = at]
<1>2. at \in JobSteps
  BY <1>1 DEF Stages, JobSteps, Jobs, Kinds
<1>3. /\ k \in Jobs /\ k.at = at /\ k.kind = j.kind /\ k.chat = j.chat /\ k.copy = j.copy
      /\ k.found = j.found /\ k.view = j.view /\ k.tab = j.tab
  BY <1>1, <1>2 DEF Jobs
<1>4. JobOK(k, chats')
  <2> HIDE DEF k
  <2> QED BY <1>1, <1>3 DEF JobOK
<1>5. [jobs EXCEPT ![s].at = at] = [jobs EXCEPT ![s] = [jobs[s] EXCEPT !.at = at]]
  BY DEF ChatTInv, ChatTypeOK
<1> QED BY <1>3, <1>4, <1>5

\* A job that goes on to show a copy of its conversation, or to write with it in hand.
LEMMA MovedWithCopy ==
  ASSUME ChatTInv, Grown, UNCHANGED chats, NEW s \in JobSlots, NEW at \in Stages(jobs[s].kind), 
         at \in {"title", "user", "show"}, jobs[s].chat \in 1 .. Len(chats)
  PROVE  LET k == [jobs[s] EXCEPT !.copy = Copy(jobs[s].chat), !.at = at]
         IN /\ k \in Jobs /\ JobOK(k, chats')
            /\ [jobs EXCEPT ![s].copy = Copy(jobs[s].chat), ![s].at = at] = [jobs EXCEPT ![s] = k]
<1> DEFINE j == jobs[s]
           copy == Copy(j.chat)
           k == [j EXCEPT !.copy = copy, !.at = at]
<1>1. j \in Jobs /\ JobOK(j, chats') /\ chats' = chats
  BY JobKept DEF ChatTInv, ChatTypeOK, Grown
<1>2. copy \in Copies /\ copy # None /\ CopyOf(copy, chats)
  BY CopyTyped
<1> HIDE DEF copy
<1>3. at \in JobSteps
  BY DEF JobSteps
<1>4. /\ k \in Jobs /\ k.at = at /\ k.kind = j.kind /\ k.chat = j.chat /\ k.copy = copy
      /\ k.found = j.found /\ k.view = j.view /\ k.tab = j.tab
  BY <1>1, <1>2, <1>3 DEF Jobs
<1>5. JobOK(k, chats')
  <2> HIDE DEF k
  <2> QED BY <1>1, <1>2, <1>4 DEF JobOK
<1>6. [jobs EXCEPT ![s].copy = copy, ![s].at = at] = [jobs EXCEPT ![s] = k]
  BY DEF ChatTInv, ChatTypeOK
<1> QED BY <1>4, <1>5, <1>6 DEF copy

\* A job that created a conversation.
LEMMA MovedToNew ==
  ASSUME ChatTInv, Grown, Len(chats') = Len(chats) + 1, NEW s \in JobSlots, WithNew(s),
         "get" \in Stages(jobs[s].kind),
         jobs[s].kind = "fork" => IsPrefix(jobs[s].copy.messages, chats'[Len(chats')].messages)
  PROVE  \E j \in Jobs : JobOK(j, chats') /\ jobs' = [jobs EXCEPT ![s] = j]
<1> DEFINE j == jobs[s]
           c == Len(chats')
           k == [j EXCEPT !.chat = c, !.at = "get"]
<1>1. j \in Jobs /\ JobOK(j, chats')
  BY JobKept DEF ChatTInv, ChatTypeOK, Grown
<1>2. c \in 1 .. Len(chats') /\ c \in Nat
  BY DEF ChatTInv, ChatTypeOK
<1>3. jobs' = [jobs EXCEPT ![s] = k]
  BY DEF WithNew, ChatTInv, ChatTypeOK
<1> HIDE DEF c
<1>4. /\ k \in Jobs /\ k.at = "get" /\ k.kind = j.kind /\ k.chat = c /\ k.copy = j.copy
      /\ k.found = j.found /\ k.view = j.view /\ k.tab = j.tab
  BY <1>1, <1>2 DEF Jobs, JobSteps
<1>5. JobOK(k, chats')
  <2> HIDE DEF k
  <2>1. j.kind = "fork" => IsPrefix(k.copy.messages, chats'[k.chat].messages)
    BY <1>4 DEF c
  <2> QED BY <1>1, <1>2, <1>4, <2>1 DEF JobOK
<1> QED BY <1>3, <1>4, <1>5

LEMMA AfterChatTyped ==
  ASSUME ChatTInv, Grown, NEW s \in JobSlots
  PROVE  \E j \in Jobs : JobOK(j, chats') /\ AfterChat(s) = [jobs EXCEPT ![s] = j]
<1>1. CASE jobs[s].kind \in {"create", "fork", "context"}
  <2>1. "list" \in Stages(jobs[s].kind)
    BY <1>1 DEF Stages
  <2> QED BY <1>1, <2>1, MovedJob DEF AfterChat
<1>2. CASE jobs[s].kind \notin {"create", "fork", "context"}
  BY <1>2, FreeIsJob DEF AfterChat, EndJob
<1> QED BY <1>1, <1>2

LEMMA ServeTyped == ASSUME ChatTInv, NEW s \in JobSlots, Serve(s) PROVE ChatTInv'
<1>1. Grown /\ Served
  BY ServeGrows DEF Serve, ReadChat, AutoTitle, AppendQuestion, AppendAnswer, CreateChat, ForkChat,
     RenameChat, DeleteChat, GetChat, ListChats
<1>2. /\ jobs[s] \in Jobs /\ JobOK(jobs[s], chats) /\ deleted \subseteq 1 .. Len(chats)
      /\ 1 .. Len(chats) \subseteq 1 .. Len(chats')
  BY <1>1 DEF ChatTInv, ChatTypeOK, Ids, Grown, Continues
<1>3. /\ deleted' \subseteq 1 .. Len(chats')
      /\ \E j \in Jobs : JobOK(j, chats') /\ jobs' = [jobs EXCEPT ![s] = j]
\* A job that only goes on.
  <2>1. ASSUME NEW from \in {"read", "title", "user", "answer", "rename", "delete"},
               NEW at \in {"user", "answer", "get", "renamed", "removed"},
               jobs[s].at = from, at \in Stages(jobs[s].kind), Go(s, at),
               at = "renamed" => from = "rename",
               jobs[s].kind # "fork"
        PROVE  \E j \in Jobs : JobOK(j, chats') /\ jobs' = [jobs EXCEPT ![s] = j]
    BY <1>1, <2>1, MovedJob DEF Go
  <2>2. CASE ReadChat(s)
    <3>1. jobs[s].at = "read" /\ jobs[s].chat \in 1 .. Len(chats) /\ UNCHANGED chatDbVars
          /\ {"get", "title", "user"} \subseteq Stages(jobs[s].kind) /\ jobs[s].kind # "fork"
      BY <1>2, <2>2 DEF ReadChat, JobOK, Stages, Jobs, Kinds
    <3>2. CASE jobs[s].chat \in deleted
      BY <1>2, <2>1, <2>2, <3>1, <3>2 DEF ReadChat, chatDbVars
    <3>3. CASE jobs[s].chat \notin deleted
      <4> DEFINE at == IF chats[jobs[s].chat].messages = <<>> THEN "title" ELSE "user"
      <4>1. jobs' = [jobs EXCEPT ![s].copy = Copy(jobs[s].chat), ![s].at = at]
        BY <2>2, <3>3 DEF ReadChat
      <4>2. at \in {"title", "user", "show"} /\ at \in Stages(jobs[s].kind)
        BY <3>1
      <4> HIDE DEF at
      <4> DEFINE k == [jobs[s] EXCEPT !.copy = Copy(jobs[s].chat), !.at = at]
      <4>3. k \in Jobs /\ JobOK(k, chats') /\ jobs' = [jobs EXCEPT ![s] = k]
        <5>1. UNCHANGED chats
          BY <3>1 DEF chatDbVars
        <5> QED BY <1>1, <3>1, <4>1, <4>2, <5>1, MovedWithCopy
      <4> HIDE DEF k
      <4> QED BY <1>2, <3>1, <4>3 DEF chatDbVars
    <3> QED BY <3>2, <3>3
  <2>3. CASE AutoTitle(s)
    <3>1. "user" \in Stages(jobs[s].kind) /\ jobs[s].kind # "fork"
      BY <1>2, <2>3 DEF AutoTitle, JobOK, Stages, Jobs, Kinds
    <3> QED BY <1>2, <2>1, <2>3, <3>1 DEF AutoTitle
  <2>4. CASE AppendQuestion(s)
    <3>1. "answer" \in Stages(jobs[s].kind) /\ jobs[s].kind # "fork"
      BY <1>2, <2>4 DEF AppendQuestion, JobOK, Stages, Jobs, Kinds
    <3> QED BY <1>2, <2>1, <2>4, <3>1 DEF AppendQuestion
  <2>5. CASE AppendAnswer(s)
    <3>1. "get" \in Stages(jobs[s].kind) /\ jobs[s].kind # "fork"
      BY <1>2, <2>5 DEF AppendAnswer, JobOK, Stages, Jobs, Kinds
    <3> QED BY <1>2, <2>1, <2>5, <3>1 DEF AppendAnswer
  <2>6. CASE CreateChat(s)
    <3>1. "get" \in Stages(jobs[s].kind) /\ jobs[s].kind # "fork"
      BY <1>2, <2>6 DEF CreateChat, JobOK, Stages, Jobs, Kinds
    <3>2. <<>> \in Seq(Messages)
      OBVIOUS
    <3>3. Len(chats') = Len(chats) + 1
      BY <2>6, <3>2, Created DEF CreateChat, ChatTInv
    <3> QED BY <1>1, <1>2, <2>6, <3>1, <3>3, MovedToNew DEF CreateChat
  <2>7. CASE ForkChat(s)
    <3>1. jobs[s].at = "fork" /\ UNCHANGED deleted
      BY <2>7 DEF ForkChat
    <3>2. CASE jobs[s].chat \in deleted
      BY <1>2, <2>7, <3>1, <3>2, FreeIsJob DEF ForkChat, EndJob
    <3>3. CASE jobs[s].chat \notin deleted
      <4> DEFINE seen == jobs[s].copy.messages
                 cut == Forked(chats[jobs[s].chat].messages, Len(seen))
      <4>1. CanCreate /\ NewChat(cut) /\ WithNew(s)
        BY <2>7, <3>3 DEF ForkChat
      <4>2. cut = seen /\ seen \in Seq(Messages)
        BY <3>1, ForkedAsSeen
      <4> HIDE DEF cut
      <4>3. Len(chats') = Len(chats) + 1 /\ chats'[Len(chats')].messages = seen
        BY <4>1, <4>2, Created DEF ChatTInv
      <4>4. IsPrefix(seen, chats'[Len(chats')].messages)
        BY <4>2, <4>3, PrefixOrder
      <4>5. "get" \in Stages(jobs[s].kind)
        BY <1>2, <3>1 DEF JobOK, Stages, Jobs, Kinds
      <4> QED BY <1>1, <1>2, <3>1, <4>1, <4>3, <4>4, <4>5, MovedToNew
    <3> QED BY <3>2, <3>3
  <2>8. CASE RenameChat(s)
    <3>1. "renamed" \in Stages(jobs[s].kind) /\ jobs[s].kind # "fork"
      BY <1>2, <2>8 DEF RenameChat, JobOK, Stages, Jobs, Kinds
    <3> QED BY <1>2, <2>1, <2>8, <3>1 DEF RenameChat
  <2>9. CASE DeleteChat(s)
    <3>1. /\ "removed" \in Stages(jobs[s].kind) /\ jobs[s].kind # "fork"
          /\ jobs[s].chat \in 1 .. Len(chats)
      BY <1>2, <2>9 DEF DeleteChat, JobOK, Stages, Jobs, Kinds
    <3> QED BY <1>2, <2>1, <2>9, <3>1 DEF DeleteChat
  <2>10. CASE GetChat(s)
    <3>1. jobs[s].at = "get" /\ jobs[s].chat \in 1 .. Len(chats) /\ UNCHANGED chatDbVars
          /\ "show" \in Stages(jobs[s].kind)
      BY <1>2, <2>10 DEF GetChat, JobOK, Stages, Jobs, Kinds
    <3>2. CASE jobs[s].chat \in deleted
      BY <1>1, <1>2, <2>10, <3>1, <3>2, AfterChatTyped DEF GetChat, chatDbVars
    <3>3. CASE jobs[s].chat \notin deleted
      <4> DEFINE k == [jobs[s] EXCEPT !.copy = Copy(jobs[s].chat), !.at = "show"]
      <4>1. jobs' = [jobs EXCEPT ![s].copy = Copy(jobs[s].chat), ![s].at = "show"]
        BY <2>10, <3>3 DEF GetChat
      <4>2. chats' = chats /\ deleted' = deleted
        BY <3>1 DEF chatDbVars
      <4>3. k \in Jobs /\ JobOK(k, chats') /\ jobs' = [jobs EXCEPT ![s] = k]
        BY <1>1, <1>2, <3>1, <4>1, <4>2, MovedWithCopy
      <4>4. deleted' \subseteq 1 .. Len(chats')
        BY <1>2, <4>2
      <4> QED BY <4>3, <4>4
    <3> QED BY <3>2, <3>3
  <2>11. CASE ListChats(s)
    <3> DEFINE k == [jobs[s] EXCEPT !.at = "listed", !.found = Existing]
    <3>1. jobs[s].at = "list" /\ UNCHANGED chatDbVars
      BY <2>11 DEF ListChats
    <3>2. jobs' = [jobs EXCEPT ![s] = k]
      BY <2>11 DEF ListChats, ChatTInv, ChatTypeOK
    <3>3. Existing \subseteq 1 .. Len(chats) /\ Existing \subseteq Nat
      BY DEF Existing
    <3>4. "listed" \in Stages(jobs[s].kind)
      BY <1>2, <3>1 DEF JobOK, Stages, Jobs, Kinds
    <3>5. /\ k \in Jobs /\ k.at = "listed" /\ k.kind = jobs[s].kind /\ k.chat = jobs[s].chat
          /\ k.copy = jobs[s].copy /\ k.found = Existing /\ k.view = jobs[s].view
          /\ k.tab = jobs[s].tab
      BY <1>2, <3>3 DEF Jobs, JobSteps
    <3> HIDE DEF k
    <3>6. JobOK(k, chats')
      BY <1>2, <3>1, <3>3, <3>4, <3>5 DEF JobOK, chatDbVars
    <3> QED BY <1>2, <3>1, <3>2, <3>5, <3>6 DEF chatDbVars
  <2> QED BY <2>2, <2>3, <2>4, <2>5, <2>6, <2>7, <2>8, <2>9, <2>10, <2>11 DEF Serve
<1> QED BY <1>1, <1>3, ServedTyped

-----------------------------------------------------------------------------
(* The type invariant, for answers that arrive and for those that do not. *)

\* What remains to be shown of a step that gives one tab something to show.
LEMMA PanelTyped ==
  ASSUME ChatTInv, NEW t \in Tabs \cup {"none"}, UNCHANGED chatDbVars,
         jobs' \in [JobSlots -> Jobs], \A r \in JobSlots : JobOK(jobs'[r], chats'),
         UNCHANGED <<panelOpen, started, questions>>, failures' \in 0 .. MaxFailures,
         storeOpen' = storeOpen \/ storeOpen' = [storeOpen EXCEPT ![t] = TRUE],
         \/ list' = list
         \/ \E found \in SUBSET (1 .. Len(chats)) : list' = [list EXCEPT ![t] = found],
         \/ active' = active
         \/ \E c \in Copies : CopyOf(c, chats) /\ active' = [active EXCEPT ![t] = c],
         \/ storeActive' = storeActive
         \/ \E c \in Copies : CopyOf(c, chats) /\ storeActive' = [storeActive EXCEPT ![t] = c]
  PROVE  ChatTInv'
<1>1. active' \in [Tabs -> Copies] /\ \A u \in Tabs : CopyOf(active'[u], chats)
  BY DEF ChatTInv, ChatTypeOK
<1>2. storeActive' \in [Tabs -> Copies] /\ \A u \in Tabs : CopyOf(storeActive'[u], chats)
  BY DEF ChatTInv, ChatTypeOK
<1>3. list' \in [Tabs -> SUBSET (1 .. Len(chats))] /\ storeOpen' \in [Tabs -> BOOLEAN]
  BY DEF ChatTInv, ChatTypeOK, Ids
<1> QED BY <1>1, <1>2, <1>3 DEF ChatTInv, ChatTypeOK, Ids, chatDbVars

LEMMA Stays == ASSUME ChatTInv, UNCHANGED chatDbVars PROVE Grown /\ chats' = chats
BY Unchanged DEF ChatTInv, chatDbVars

\* A chain that ends, of a context with the storage's state.
LEMMA ContextEndsTyped ==
  ASSUME ChatTInv, NEW s \in JobSlots, UNCHANGED chatDbVars, ContextEnds(s)
  PROVE  /\ jobs' \in [JobSlots -> Jobs] /\ \A r \in JobSlots : JobOK(jobs'[r], chats')
         /\ jobs[s].tab \in Tabs \cup {"none"}
         /\ storeOpen' = storeOpen \/ storeOpen' = [storeOpen EXCEPT ![jobs[s].tab] = TRUE]
         /\ \/ active' = active
            \/ \E c \in Copies : CopyOf(c, chats) /\ active' = [active EXCEPT ![jobs[s].tab] = c]
<1> DEFINE t == jobs[s].tab
<1>1. Grown /\ chats' = chats /\ t \in Tabs \cup {"none"}
  BY Stays DEF ChatTInv, ChatTypeOK, Jobs
<1>2. CASE jobs[s].kind # "context"
  <2>1. jobs' = [jobs EXCEPT ![s] = FreeJob] /\ UNCHANGED <<storeOpen, active>>
    BY <1>2 DEF ContextEnds, EndJob
  <2> QED BY <1>1, <2>1, FreeIsJob, JobsStep
<1>3. CASE jobs[s].kind = "context"
  <2>1. /\ jobs' = Mounted([jobs EXCEPT ![s] = FreeJob], t, panelOpen[t], storeActive[t])
        /\ storeOpen' = [storeOpen EXCEPT ![t] = TRUE]
        /\ active' = [active EXCEPT ![t] = storeActive[t]]
    BY <1>3 DEF ContextEnds, EndJob
  <2>2. jobs' \in [JobSlots -> Jobs] /\ \A r \in JobSlots : JobOK(jobs'[r], chats')
    BY <1>1, <2>1, FreeIsJob, JobsStep
  <2>3. \/ active' = active
        \/ \E c \in Copies : CopyOf(c, chats) /\ active' = [active EXCEPT ![t] = c]
    <3>1. CASE t \in Tabs
      BY <2>1, <3>1 DEF ChatTInv, ChatTypeOK
    <3>2. CASE t \notin Tabs
      BY <2>1, <3>2 DEF ChatTInv, ChatTypeOK
    <3> QED BY <3>1, <3>2
  <2> QED BY <1>1, <2>1, <2>2, <2>3
<1> QED BY <1>2, <1>3

LEMMA ArriveTyped == ASSUME ChatTInv, NEW s \in JobSlots, Arrive(s) PROVE ChatTInv'
<1> DEFINE j == jobs[s]
           t == j.tab
<1>1. UNCHANGED chatDbVars /\ UNCHANGED <<panelOpen, started, questions, failures>>
  BY DEF Arrive, ShowChat, ShowList, ShowTitle, ShowDeleted, Arrived, ChatUpdated
<1>2. /\ Grown /\ chats' = chats /\ failures' \in 0 .. MaxFailures
      /\ t \in Tabs \cup {"none"} /\ j \in Jobs /\ JobOK(j, chats) /\ j.copy \in Copies
  BY <1>1, Stays DEF ChatTInv, ChatTypeOK, Jobs
<1>3. CASE ShowChat(s)
  <2>1. /\ jobs' = Mounted(AfterChat(s), t, panelOpen[t], j.copy) /\ UNCHANGED <<list, storeOpen>>
        /\ active' = [active EXCEPT ![t] = j.copy]
        /\ storeActive' = storeActive \/ storeActive' = [storeActive EXCEPT ![t] = j.copy]
    BY <1>3 DEF ShowChat, ChatUpdated
  <2>2. PICK k \in Jobs : JobOK(k, chats') /\ AfterChat(s) = [jobs EXCEPT ![s] = k]
    BY <1>2, AfterChatTyped
  <2>3. jobs' \in [JobSlots -> Jobs] /\ \A r \in JobSlots : JobOK(jobs'[r], chats')
    <3>1. jobs' = Mounted([jobs EXCEPT ![s] = k], t, panelOpen[t], j.copy)
      BY <2>1, <2>2
    <3> QED BY <1>2, <2>2, <3>1, JobsStep
  <2>4. CopyOf(j.copy, chats)
    BY <1>2 DEF JobOK
  <2> QED BY <1>1, <1>2, <2>1, <2>3, <2>4, PanelTyped
<1>4. CASE ShowList(s)
  <2>1. /\ list' = [list EXCEPT ![t] = j.found] /\ ContextEnds(s) /\ UNCHANGED storeActive
    BY <1>4 DEF ShowList
  <2>2. j.found \subseteq 1 .. Len(chats)
    BY <1>2 DEF JobOK
  <2>3. /\ jobs' \in [JobSlots -> Jobs] /\ \A r \in JobSlots : JobOK(jobs'[r], chats')
        /\ storeOpen' = storeOpen \/ storeOpen' = [storeOpen EXCEPT ![t] = TRUE]
        /\ \/ active' = active
           \/ \E c \in Copies : CopyOf(c, chats) /\ active' = [active EXCEPT ![t] = c]
    BY <1>1, <2>1, ContextEndsTyped
  <2> QED BY <1>1, <1>2, <2>1, <2>2, <2>3, PanelTyped
<1>5. CASE ShowTitle(s)
  <2> DEFINE c == [j.copy EXCEPT !.title = "named"]
  <2>1. /\ jobs' = Mounted([jobs EXCEPT ![s] = FreeJob], t, panelOpen[t], c) /\ UNCHANGED list
        /\ active' = [active EXCEPT ![t] = c] /\ UNCHANGED <<storeOpen, storeActive>>
        /\ j.at = "renamed"
    BY <1>5 DEF ShowTitle, ChatUpdated, EndJob, storeVars
  <2>2. c \in Copies /\ c.id = j.copy.id /\ c.messages = j.copy.messages
    BY <1>2 DEF Copies, Titles
  <2>3. j.copy # None /\ CopyOf(j.copy, chats)
    BY <1>2, <2>1 DEF JobOK
  <2> HIDE DEF c
  <2>4. CopyOf(c, chats)
    BY <2>2, <2>3 DEF CopyOf
  <2>5. jobs' \in [JobSlots -> Jobs] /\ \A r \in JobSlots : JobOK(jobs'[r], chats')
    BY <1>2, <2>1, FreeIsJob, JobsStep
  <2> QED BY <1>1, <1>2, <2>1, <2>2, <2>4, <2>5, PanelTyped
<1>6. CASE ShowDeleted(s)
  <2> DEFINE c == IF active[t].id = j.chat THEN None ELSE active[t]
  <2>1. /\ jobs' = Mounted([jobs EXCEPT ![s] = FreeJob], t, panelOpen[t], c)
        /\ list' = [list EXCEPT ![t] = @ \ {j.chat}]
        /\ active' = [active EXCEPT ![t] = c] /\ UNCHANGED <<storeOpen, storeActive>>
    BY <1>6 DEF ShowDeleted, EndJob, storeVars
  <2>2. jobs' \in [JobSlots -> Jobs] /\ \A r \in JobSlots : JobOK(jobs'[r], chats')
    <3> HIDE DEF c
    <3> QED BY <1>2, <2>1, FreeIsJob, JobsStep
  <2>3. CASE t \in Tabs
    <3>1. c \in Copies /\ CopyOf(c, chats)
      BY <2>3, FreeIsJob DEF ChatTInv, ChatTypeOK
    <3>2. \E found \in SUBSET (1 .. Len(chats)) : list' = [list EXCEPT ![t] = found]
      BY <2>1, <2>3 DEF ChatTInv, ChatTypeOK, Ids
    <3> HIDE DEF c
    <3> QED BY <1>1, <1>2, <2>1, <2>2, <3>1, <3>2, PanelTyped
  <2>4. CASE t \notin Tabs
    <3>1. active' = active /\ list' = list
      BY <2>1, <2>4 DEF ChatTInv, ChatTypeOK
    <3> QED BY <1>1, <1>2, <2>1, <2>2, <3>1, PanelTyped
  <2> QED BY <2>3, <2>4
<1> QED BY <1>3, <1>4, <1>5, <1>6 DEF Arrive

LEMMA FailTyped == ASSUME ChatTInv, NEW s \in JobSlots, FailJob(s) PROVE ChatTInv'
<1> DEFINE j == jobs[s]
<1>1. UNCHANGED chatDbVars /\ UNCHANGED <<panelOpen, started, questions, list, storeActive>>
  BY DEF FailJob
<1>2. /\ Grown /\ chats' = chats /\ j.tab \in Tabs \cup {"none"} /\ j \in Jobs
      /\ JobOK(j, chats)
  BY <1>1, Stays DEF ChatTInv, ChatTypeOK, Jobs
<1>3. failures' \in 0 .. MaxFailures
  BY ChatAssumption DEF FailJob, ChatTInv, ChatTypeOK
<1>4. /\ jobs' \in [JobSlots -> Jobs] /\ \A r \in JobSlots : JobOK(jobs'[r], chats')
      /\ storeOpen' = storeOpen \/ storeOpen' = [storeOpen EXCEPT ![j.tab] = TRUE]
      /\ \/ active' = active
         \/ \E c \in Copies : CopyOf(c, chats) /\ active' = [active EXCEPT ![j.tab] = c]
  <2>1. PICK at \in FailTo(j) :
          IF at # "end" THEN Go(s, at) /\ UNCHANGED <<storeOpen, active>>
          ELSE IF j.at \in {"list", "listed"} THEN ContextEnds(s)
          ELSE jobs' = EndJob(s) /\ UNCHANGED <<storeOpen, active>>
    BY DEF FailJob
  <2>2. CASE at = "end" /\ j.at \in {"list", "listed"}
    BY <1>1, <2>1, <2>2, ContextEndsTyped
  <2>3. CASE at = "end" /\ j.at \notin {"list", "listed"}
    BY <1>2, <2>1, <2>3, FreeIsJob, JobsStep DEF EndJob
  <2>4. CASE at # "end"
    <3>1. j.at \notin {"free", "renamed", "removed"} /\ j.at \in Stages(j.kind)
      BY <1>2 DEF FailJob, JobOK
    <3>2. \/ at = "get" /\ j.kind = "send"
          \/ at = "list" /\ j.kind \in {"create", "context"}
          \/ at = "renamed" /\ j.kind = "rename"
          \/ at = "removed" /\ j.kind = "delete"
      BY <2>1, <2>4 DEF FailTo
    <3>3. /\ at \in Stages(j.kind) /\ at # "show" /\ (at = "get" => j.kind # "fork")
          /\ at \notin {"free", "create", "list", "listed"} =>
               j.at \notin {"free", "create", "list", "listed"}
          /\ at \in {"rename", "renamed", "fork"} => j.at \in {"rename", "renamed", "fork"}
      BY <3>1, <3>2 DEF Stages
    <3>4. jobs' = [jobs EXCEPT ![s].at = at] /\ UNCHANGED <<storeOpen, active>>
      BY <2>1, <2>4 DEF Go
    <3>5. \E k \in Jobs : JobOK(k, chats') /\ jobs' = [jobs EXCEPT ![s] = k]
      BY <1>2, <3>3, <3>4, MovedJob
    <3> QED BY <1>2, <3>4, <3>5, JobsStep
  <2> QED BY <2>2, <2>3, <2>4
<1> QED BY <1>1, <1>2, <1>3, <1>4, PanelTyped

-----------------------------------------------------------------------------
(* Theorems. *)

\* What is shown at the start are copies of the conversations there are.
LEMMA InitTyped == ASSUME ChatInit PROVE ChatTInv
<1>1. PICK chat \in {None} \cup {Copy(c) : c \in Chosen} : active = [t \in Tabs |-> chat]
  BY DEF ChatInit
<1>2. /\ chats = First /\ First \in Seq(Conversations) /\ Len(First) <= MaxChats
      /\ Chosen \subseteq 1 .. Len(First) /\ {MaxChats, MaxQuestions, MaxJobs, MaxFailures} \subseteq Nat
  BY ChatAssumption DEF ChatInit
<1>3. chat \in Copies /\ CopyOf(chat, chats)
  <2>1. CASE chat = None
    BY <2>1, FreeIsJob
  <2>2. ASSUME NEW c \in Chosen, chat = Copy(c) PROVE chat \in Copies /\ CopyOf(chat, chats)
    <3>1. chats[c] \in Conversations /\ chats[c].messages \in Seq(Messages) /\ c \in Nat
          /\ c \in 1 .. Len(chats)
      BY <1>2, MessagesTyped
    <3>2. chat.id = c /\ chat.messages = chats[c].messages
      BY <2>2 DEF Copy
    <3>3. chat \in Copies
      BY <2>2, <3>1 DEF Copy, Copies, Conversations
    <3>4. IsPrefix(chats[c].messages, chats[c].messages)
      BY <3>1, PrefixOrder
    <3> QED BY <3>1, <3>2, <3>3, <3>4 DEF CopyOf
  <2> QED BY <2>1, <2>2
<1>4. /\ active \in [Tabs -> Copies] /\ storeActive \in [Tabs -> Copies]
      /\ \A t \in Tabs : CopyOf(active[t], chats) /\ CopyOf(storeActive[t], chats)
  BY <1>1, <1>3, FreeIsJob DEF ChatInit
<1>5. jobs \in [JobSlots -> Jobs] /\ \A s \in JobSlots : JobOK(jobs[s], chats)
  BY FreeIsJob DEF ChatInit
<1>6. list \in [Tabs -> SUBSET Ids] /\ panelOpen \in [Tabs -> BOOLEAN] /\ storeOpen \in [Tabs -> BOOLEAN]
  BY DEF ChatInit, Existing, Ids
<1>7. questions \in Nat
  <2> DEFINE Q == {q \in 1 .. MaxQuestions :
                     \E c \in 1 .. Len(First) : Contains(First[c].messages, Question(q))}
  <2>1. IsFiniteSet(1 .. MaxQuestions)
    BY <1>2, FS_Interval
  <2>2. IsFiniteSet(Q)
    BY <2>1, FS_Subset
  <2>3. Cardinality(Q) \in Nat
    BY <2>2, FS_CardinalityType
  <2> QED BY <2>3 DEF ChatInit
<1>8. ChatTypeOK
  BY <1>2, <1>4, <1>5, <1>6, <1>7 DEF ChatInit, ChatTypeOK
<1> QED BY <1>4, <1>5, <1>8 DEF ChatTInv

LEMMA StepTyped == ASSUME ChatTInv, [ChatNext]_chatVars PROVE ChatTInv'
<1>1. CASE ChatNext
  BY <1>1, ClickTyped, ServeTyped, ArriveTyped, FailTyped DEF ChatNext
<1>2. CASE UNCHANGED chatVars
  BY <1>2 DEF chatVars, chatDbVars, panelVars, storeVars, ChatTInv, ChatTypeOK, Ids
<1> QED BY <1>1, <1>2

LEMMA Typed == ChatSpec => []ChatTInv
<1>1. ChatInit => ChatTInv
  BY InitTyped
<1>2. ChatTInv /\ [ChatNext]_chatVars => ChatTInv'
  BY StepTyped
<1> QED BY <1>1, <1>2, PTL DEF ChatSpec

\* The state has the types that the code keeps: whatever chains run side by side and
\* whatever fails, the lists, the panels and the storage name conversations that there are.
THEOREM ChatTypeCorrect == ChatSpec => []ChatTypeOK
<1>1. ChatTInv => ChatTypeOK
  BY DEF ChatTInv
<1> QED BY <1>1, Typed, PTL

\* What a panel shows is the beginning of its conversation (ChatStorage, GlobalChatPanel):
\* for any number of tabs, of chains under way and of answers that arrive out of order.
THEOREM ShowsWhatIsStored == ChatSpec => []ShownIsStored
<1>1. ChatTInv => ShownIsStored
  BY DEF ChatTInv, CopyOf, ShownIsStored
<1> QED BY <1>1, Typed, PTL

\* A fork begins with what the user saw up to the clicked message (fork_chat of RssTagChats
\* cuts what the conversation has become by the number of that message).
THEOREM ForksAsSeen == ChatSpec => []ForkAsSeen
<1>1. ChatTInv => ForkAsSeen
  BY DEF ChatTInv, JobOK, ForkAsSeen
<1> QED BY <1>1, Typed, PTL

\* No step takes a message of a conversation away or changes it (add_message pushes): the
\* writers of several tabs and chains may come in any order.
THEOREM HistoryIsKept == ChatSpec => HistoryKept
<1>1. ASSUME ChatTInv, [ChatNext]_chatVars
      PROVE  [\A c \in 1 .. Len(chats) : IsPrefix(chats[c].messages, chats'[c].messages)]_chatVars
  <2>1. CASE UNCHANGED chats
    <3>1. Grown
      BY <1>1, <2>1, Unchanged DEF ChatTInv
    <3> QED BY <3>1 DEF Grown, Continues
  <2>2. ASSUME NEW s \in JobSlots, Serve(s) PROVE Grown
    BY <1>1, <2>2, ServeGrows
  <2>3. ASSUME NEW t \in Tabs, ClickInPanel(t) PROVE UNCHANGED chats
    BY <2>3 DEF ClickInPanel, HandleSend, HandleRename, HandleCreate, HandleBack, Toggle, StartWithContext,
           HandleFork, HandleSelect, HandleDelete, chatDbVars
  <2>4. ASSUME NEW s \in JobSlots, Arrive(s) \/ FailJob(s) PROVE UNCHANGED chats
    BY <2>4 DEF Arrive, ShowChat, ShowList, ShowTitle, ShowDeleted, Arrived, FailJob, chatDbVars
  <2> QED BY <1>1, <2>1, <2>2, <2>3, <2>4 DEF ChatNext, Grown, Continues, chatVars
<1> QED BY <1>1, Typed, PTL DEF ChatSpec, HistoryKept
=============================================================================
