----------------------------- MODULE TopicMerge -----------------------------
(***************************************************************************)
(* The topic-merge task of one user: TopicMergeAgent.run collects the       *)
(* groupings that are not marked, gives every topic label below its parent   *)
(* a canonical id (an alias), level by level and bucket by bucket, with the   *)
(* help of a model that says which labels mean the same, and marks the       *)
(* groupings it collected.  Meanwhile other workers save groupings.          *)
(*                                                                         *)
(* A label is a number: the order is the one the labels are sorted in.  A     *)
(* canonical id is the sequence of the labels it was made from (slugify is    *)
(* taken to be injective on the labels), so its last element is its label.    *)
(* Of a time stamp only this counts: was it read after _run_start?  One run   *)
(* goes on at a time (TaskState), without scope.force.                       *)
(***************************************************************************)
EXTENDS Naturals, Sequences, FiniteSets

CONSTANTS
  Docs,           \* documents of post_grouping
  Labels,
  Normal,         \* normalize_label
  Near,           \* <<n, l>>: find_fuzzy_canonical takes l for the normal form n
  Groupings,      \* sets of topic paths: what a post may be grouped into
  ChunkSize,      \* _MAX_NEW_LABELS_PER_CALL
  Verdicts,       \* bound: the groups of one answer of the model
  MaxSaves,       \* bound: saves and deletions of groupings
  MaxFaults       \* bound: runs that fail or crash

ASSUME LabelsAssumption ==
  /\ Labels \subseteq Nat /\ ChunkSize \in Nat \ {0}
  /\ Normal \in [Labels -> Labels] /\ Near \subseteq Labels \X Labels
  /\ \A g \in Groupings : g \subseteq Seq(Labels) \ {<<>>}
  /\ {Verdicts, MaxSaves, MaxFaults} \subseteq Nat

VARIABLES
  docs,           \* the documents; late: is updated_at above _run_start?
  saving,         \* the saves in progress
  alias,          \* topic_aliases: <<parent id, raw label>> -> canonical id
  pc,             \* where the run is
  seen,           \* the collected documents, with their paths
  place,          \* parent_ids: a path -> the id of its labels so far
  level,
  todo,           \* the parents whose buckets of this level are left
  parent,         \* the bucket at hand
  known,          \* canonical_by_id
  ids,            \* label_to_id
  resolved,       \* a label of the bucket -> its id
  followers,      \* a label of the bucket -> its leader
  fresh,          \* the labels left for the model
  mapping,        \* the model's answer: a label of the chunk -> a label
  redirects,      \* the answer's <<loser, winner>> anchors
  left,           \* those redirect_canonical has not seen yet
  faults, saves

runVars == <<seen, place, level, todo>>
bucketVars == <<parent, known, ids, resolved, followers, fresh, mapping, redirects, left>>
dataVars == <<docs, saving, saves>>
vars == <<docs, saving, alias, pc, seen, place, level, todo, parent, known,
          ids, resolved, followers, fresh, mapping, redirects, left, faults, saves>>

None == <<>>          \* the function with an empty domain
Root == <<>>
Unmarked == {Root}    \* no topic_merged; a mark is the set of paths it was given for

Paths == UNION Groupings
Ids == Seq(Labels)    \* of canonical ids

TypeOK ==
  /\ DOMAIN docs \subseteq Docs
  /\ \A d \in DOMAIN docs :
       docs[d] \in [paths : Groupings, late : BOOLEAN, merged : Groupings \cup {Unmarked}]
  /\ saving \subseteq [doc : Docs, paths : Groupings, late : BOOLEAN]
  /\ DOMAIN alias \subseteq Ids \X Labels
  /\ \A k \in DOMAIN alias : alias[k] \in Ids
  /\ pc \in {"idle", "started", "level", "ask", "redirect", "settle", "close", "mark"}
  /\ DOMAIN seen \subseteq Docs /\ \A d \in DOMAIN seen : seen[d] \in Groupings
  /\ DOMAIN place \subseteq Paths /\ \A p \in DOMAIN place : place[p] \in Ids
  /\ level \in Nat
  /\ todo \subseteq Ids /\ parent \in Ids /\ known \subseteq Ids
  /\ fresh \subseteq Labels /\ DOMAIN followers \subseteq Labels
  /\ DOMAIN resolved \subseteq Labels /\ DOMAIN ids \subseteq Labels
  /\ DOMAIN mapping \subseteq fresh /\ left \subseteq redirects
  /\ faults \in 0..MaxFaults /\ saves \in 0..MaxSaves

Init ==
  /\ docs = None /\ saving = {} /\ alias = None
  /\ pc = "idle"
  /\ seen = None /\ place = None /\ level = 0 /\ todo = {}
  /\ parent = Root /\ known = {} /\ ids = None /\ resolved = None
  /\ followers = None /\ fresh = {} /\ mapping = None /\ redirects = {} /\ left = {}
  /\ faults = 0 /\ saves = 0
-----------------------------------------------------------------------------
Last(s) == s[Len(s)]

Over(f, g) == [x \in DOMAIN f \cup DOMAIN g |-> IF x \in DOMAIN f THEN f[x] ELSE g[x]]

\* rewrite_canonical_id_prefix
IsBelow(id, from) == Len(id) >= Len(from) /\ SubSeq(id, 1, Len(from)) = from

Rewrite(id, from, to) ==
  IF IsBelow(id, from) THEN to \o SubSeq(id, Len(from) + 1, Len(id)) ELSE id

ForgetBucket ==
  /\ parent' = Root /\ known' = {} /\ ids' = None /\ resolved' = None
  /\ followers' = None /\ fresh' = {} /\ mapping' = None /\ redirects' = {} /\ left' = {}

\* The run ends: with an exception, a crash, or after the marks.
EndRun ==
  /\ pc' = "idle"
  /\ seen' = None /\ place' = None /\ level' = 0 /\ todo' = {}
  /\ ForgetBucket

Fault == faults < MaxFaults /\ faults' = faults + 1

\* upsert_alias for each of new: the run may fail or die between two of them.
Upsert(new, go) ==
  \/ alias' = Over(new, alias) /\ go /\ UNCHANGED faults
  \/ \E K \in SUBSET DOMAIN new :
       alias' = Over([k \in K |-> new[k]], alias) /\ EndRun /\ Fault
-----------------------------------------------------------------------------
(* Other workers: save_grouped_posts and the clean-up *)

\* The time is read ...
BeginSave(d, paths) ==
  /\ saves < MaxSaves /\ saves' = saves + 1
  /\ saving' = saving \cup {[doc |-> d, paths |-> paths, late |-> pc # "idle"]}
  /\ UNCHANGED <<docs, alias, pc, runVars, bucketVars, faults>>

\* ... and then the document is written, with its topic_merged unset.
EndSave(s) ==
  /\ docs' = [d \in DOMAIN docs \cup {s.doc} |->
               IF d = s.doc THEN [paths |-> s.paths, late |-> s.late, merged |-> Unmarked]
               ELSE docs[d]]
  /\ saving' = saving \ {s}
  /\ UNCHANGED <<alias, pc, runVars, bucketVars, faults, saves>>

\* delete_grouped_posts_by_post_ids: saved again, it is another document than the
\* one the run collected.
DeleteDoc(d) ==
  /\ d \in DOMAIN docs /\ saves < MaxSaves /\ saves' = saves + 1
  /\ docs' = [e \in DOMAIN docs \ {d} |-> docs[e]]
  /\ seen' = [e \in DOMAIN seen \ {d} |-> seen[e]]
  /\ UNCHANGED <<saving, alias, pc, place, level, todo, bucketVars, faults>>
-----------------------------------------------------------------------------
(* run *)

\* build_pending_topic_merge_query
Pending == {d \in DOMAIN docs : docs[d].merged = Unmarked}

\* _run_start is read: every stamp so far is below it.  What starts a run is the
\* task, see MergeTask.
Start ==
  /\ pc = "idle"
  /\ docs' = [d \in DOMAIN docs |-> [docs[d] EXCEPT !.late = FALSE]]
  /\ saving' = {[s EXCEPT !.late = FALSE] : s \in saving}
  /\ pc' = "started"
  /\ UNCHANGED <<saves, alias, runVars, bucketVars, faults>>

\* The parents of the labels at level n.
Parents(at, n) == {at[p] : p \in {q \in DOMAIN at : Len(q) >= n}}

\* The buckets of _process_level.
BeginLevel(at, n) ==
  /\ place' = at /\ level' = n /\ todo' = Parents(at, n)
  /\ pc' = IF Parents(at, n) = {} THEN "mark" ELSE "level"

\* _collect_topic_paths
Collect ==
  /\ pc = "started"
  /\ seen' = [d \in Pending |-> docs[d].paths]
  /\ BeginLevel([p \in UNION {docs[d].paths : d \in Pending} |-> Root], 1)
  /\ UNCHANGED <<dataVars, alias, bucketVars, faults>>

\* The labels of the bucket of p.
Bucket(p) == {q[level] : q \in {r \in DOMAIN place : Len(r) >= level /\ place[r] = p}}

\* get_existing_canonicals
Canonicals(p) == {alias[k] : k \in {j \in DOMAIN alias : j[1] = p}}

\* What the pre-pass may resolve a label to without the model: an alias with the
\* same normal form, or else a canonical id with nearly the same label.
Cached(p, l) == {alias[k] : k \in {j \in DOMAIN alias : j[1] = p /\ Normal[j[2]] = Normal[l]}}
Similar(p, l) == {id \in Canonicals(p) : <<Normal[l], Last(id)>> \in Near}
PrepassIds(p, l) == IF Cached(p, l) # {} THEN Cached(p, l) ELSE Similar(p, l)

\* _resolve_bucket up to the model, with _prepass_resolve: of the labels with one
\* normal form the first one leads and the others follow.
OpenBucket(p) ==
  /\ pc = "level" /\ p \in todo
  /\ LET exact == {l \in Bucket(p) : <<p, l>> \in DOMAIN alias}
         pending == Bucket(p) \ exact
     IN  \E leaders \in SUBSET pending :
           /\ \A l \in pending :
                \E m \in leaders : {x \in leaders : Normal[x] = Normal[l]} = {m}
           /\ LET certain == {l \in leaders : PrepassIds(p, l) # {}}
              IN  \E found \in [certain -> Canonicals(p)] :
                    /\ \A l \in certain : found[l] \in PrepassIds(p, l)
                    /\ Upsert([k \in {p} \X certain |-> found[k[2]]],
                         /\ parent' = p
                         /\ known' = Canonicals(p)
                         /\ ids' = [l \in {Last(id) : id \in Canonicals(p)} |-> Append(p, l)]
                         /\ resolved' = Over(found, [l \in exact |-> alias[<<p, l>>]])
                         /\ followers' = [l \in pending \ leaders |->
                                            CHOOSE m \in leaders : Normal[m] = Normal[l]]
                         /\ fresh' = leaders \ certain
                         /\ pc' = IF leaders = certain THEN "close" ELSE "ask"
                         /\ UNCHANGED <<runVars, mapping, redirects, left>>)
  /\ UNCHANGED dataVars

\* The first ChunkSize labels of S.
Chunk(S) == {l \in S : Cardinality({m \in S : m < l}) < ChunkSize}

\* The entries of the prompt: <<0, l>> is an anchor, [E], and <<1, l>> is new, [N].
Entries(chunk) == {<<0, Last(id)>> : id \in known} \cup {<<1, l>> : l \in chunk}
Anchors(g) == {e[2] : e \in {f \in g : f[1] = 0}}

\* _union_groups: what the model says, as groups that do not overlap.
Answers(chunk) ==
  {G \in SUBSET {g \in SUBSET Entries(chunk) : Cardinality(g) >= 2} :
     Cardinality(G) <= Verdicts /\ \A g, h \in G : g = h \/ g \cap h = {}}

\* _merge_with_llm: the first of its anchors stands for a group, or any label of
\* a group without anchors; the other anchors lose.
Stands(l, g) ==
  IF Anchors(g) = {} THEN <<1, l>> \in g
  ELSE l \in Anchors(g) /\ \A m \in Anchors(g) : l <= m

Ask ==
  /\ pc = "ask"
  /\ LET chunk == Chunk(fresh)
     IN  \E G \in Answers(chunk) : \E rep \in [G -> Labels] :
           /\ \A g \in G : Stands(rep[g], g)
           /\ mapping' = [l \in chunk |->
                IF \E g \in G : <<1, l>> \in g
                THEN rep[CHOOSE g \in G : <<1, l>> \in g] ELSE l]
           /\ redirects' = UNION {{<<Append(parent, l), Append(parent, rep[g])>> :
                                      l \in Anchors(g) \ {rep[g]}} : g \in G}
  /\ left' = redirects'
  /\ pc' = IF left' = {} THEN "settle" ELSE "redirect"
  /\ UNCHANGED <<dataVars, alias, runVars, parent, known, ids, resolved, followers,
                 fresh, faults>>

\* redirect_canonical: the aliases of the loser go to the winner, ...
Exact(a, r) == [k \in DOMAIN a |-> IF a[k] = r[1] THEN r[2] ELSE a[k]]

\* ... and then those below it, if there is not one under the new parent already.
Moved(k, r) == <<Rewrite(k[1], r[1], r[2]), k[2]>>

\* mutant: only the loser's own aliases are redirected
MovableNone(a, r) == {}

Movable(a, r) == {k \in DOMAIN a : IsBelow(k[1], r[1]) /\ Moved(k, r) \notin DOMAIN a}

\* mutant: the parents are not rewritten
MoveIds(a, K, r) == [j \in DOMAIN a |-> IF j \in K THEN Rewrite(a[j], r[1], r[2]) ELSE a[j]]

Move(a, K, r) ==
  [j \in (DOMAIN a \ K) \cup {Moved(k, r) : k \in K} |->
     IF j \in DOMAIN a \ K THEN a[j]
     ELSE Rewrite(a[CHOOSE k \in K : Moved(k, r) = j], r[1], r[2])]

Redirect(r) ==
  /\ pc = "redirect" /\ r \in left
  /\ LET a == Exact(alias, r)
     IN  \/ /\ alias' = Move(a, Movable(a, r), r)
            /\ left' = left \ {r}
            /\ pc' = IF left' = {} THEN "settle" ELSE pc
            /\ UNCHANGED <<runVars, parent, known, ids, resolved, followers, fresh, mapping,
                           redirects, faults>>
         \/ \E K \in SUBSET Movable(a, r) : alias' = Move(a, K, r) /\ EndRun /\ Fault
  /\ UNCHANGED dataVars

\* mutant: the run forgets its own redirects
RedirectedNot(id) == id

\* _apply_anchor_redirects
Redirected(id) ==
  IF \E r \in redirects : r[1] = id THEN (CHOOSE r \in redirects : r[1] = id)[2] ELSE id

\* The rest of the chunk: an alias for each of its labels.
Settle ==
  /\ pc = "settle"
  /\ LET kept == known \ {r[1] : r \in redirects}
         idOf == [l \in DOMAIN ids |-> Redirected(ids[l])]
         chosen == [l \in DOMAIN mapping |->
                      IF mapping[l] \in DOMAIN idOf THEN idOf[mapping[l]]
                      ELSE Append(parent, mapping[l])]
     IN  Upsert([k \in {parent} \X DOMAIN mapping |-> chosen[k[2]]],
           /\ known' = kept \cup {chosen[l] : l \in DOMAIN mapping}
           /\ ids' = Over(idOf, [m \in {mapping[l] : l \in DOMAIN mapping} |-> Append(parent, m)])
           /\ resolved' = Over(chosen, [l \in DOMAIN resolved |-> Redirected(resolved[l])])
           /\ fresh' = fresh \ DOMAIN mapping
           /\ mapping' = None /\ redirects' = {}
           /\ pc' = IF fresh' = {} THEN "close" ELSE "ask"
           /\ UNCHANGED <<runVars, parent, followers, left>>)
  /\ UNCHANGED dataVars

\* _apply_followers, and the rest of _process_level: the next bucket or level.
CloseBucket ==
  /\ pc = "close"
  /\ LET led == [l \in DOMAIN followers |-> resolved[followers[l]]]
         all == Over(led, resolved)
         at == [p \in DOMAIN place |->
                  IF Len(p) >= level /\ place[p] = parent THEN all[p[level]] ELSE place[p]]
     IN  Upsert([k \in {parent} \X DOMAIN led |-> led[k[2]]],
           /\ IF todo = {parent} THEN BeginLevel(at, level + 1)
              ELSE place' = at /\ todo' = todo \ {parent} /\ pc' = "level" /\ UNCHANGED level
           /\ ForgetBucket
           /\ UNCHANGED seen)
  /\ UNCHANGED dataVars

\* _mark_docs_merged: the collected documents that were not written since.
Mark ==
  /\ pc = "mark"
  /\ docs' = [d \in DOMAIN docs |->
               IF d \in DOMAIN seen /\ ~ docs[d].late
               THEN [docs[d] EXCEPT !.merged = seen[d]] ELSE docs[d]]
  /\ EndRun
  /\ UNCHANGED <<saving, saves, alias, faults>>

\* The model or the database fails, or the worker crashes, between two steps of a
\* run or around it.
Fail ==
  /\ Fault /\ EndRun
  /\ UNCHANGED <<dataVars, alias>>
-----------------------------------------------------------------------------
Run ==
  \/ Start \/ Collect \/ Ask \/ Settle \/ CloseBucket \/ Mark
  \/ \E p \in todo : OpenBucket(p)
  \/ \E r \in left : Redirect(r)

Next ==
  \/ Run \/ Fail
  \/ \E d \in Docs, paths \in Groupings : BeginSave(d, paths)
  \/ \E s \in saving : EndSave(s)
  \/ \E d \in Docs : DeleteDoc(d)

Spec == Init /\ [][Next]_vars
-----------------------------------------------------------------------------
\* resolve_path: every label of p has an alias below the id of those before it.
Resolves(p) ==
  \E id \in [1..Len(p) -> {alias[k] : k \in DOMAIN alias}] : \A n \in 1..Len(p) :
    LET key == <<IF n = 1 THEN Root ELSE id[n - 1], p[n]>>
    IN  key \in DOMAIN alias /\ alias[key] = id[n]

\* Through merges, redirects and crashes half-way, every alias keeps a canonical
\* id that is one label below the id its document names as parent: the key and
\* the value of redirect_canonical's rewrites move together, and no bucket writes
\* below a parent that is not the one it was opened for.
WellRooted == \A k \in DOMAIN alias :
  \E l \in Labels : alias[k] = Append(k[1], l)

\* A document is marked only when each path it was collected with resolves: the
\* ids the run holds in memory followed every redirect it made in the database.  One
\* that was saved since the run began is not marked for the paths it had before.
MarksResolved == [][\A d \in DOMAIN docs \cap DOMAIN docs' :
  docs[d].merged = Unmarked /\ docs'[d].merged # Unmarked =>
    /\ \A p \in docs'[d].merged : Resolves(p)
    /\ docs[d].late => docs'[d].merged = docs[d].paths]_vars

\* The redirect r meets an alias of the winner's that leads elsewhere than the loser's,
\* which stays where it was and has others below it.
Splits(r) == \E k, j \in DOMAIN alias :
  /\ IsBelow(k[1], r[1]) /\ Moved(k, r) \in DOMAIN alias
  /\ alias[Moved(k, r)] # Rewrite(alias[k], r[1], r[2]) /\ j[1] = alias[k]

\* What resolves goes on to do so whatever is merged, so what was marked need not be
\* merged again: a redirect takes the aliases below the loser along, and no bucket
\* writes over an alias.  (Unless the run fails, or a redirect splits the labels below
\* a label: see README.md.)
StaysResolved ==
  [][faults' = faults /\ (\A r \in left \ left' : ~ Splits(r)) =>
       \A p \in Paths : Resolves(p) => Resolves(p)']_vars
=============================================================================
