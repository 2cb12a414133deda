-------------------------- MODULE TopicMergeProofs --------------------------
(***************************************************************************)
(* Proofs about TopicMerge, for any documents, labels and groupings, any     *)
(* size of a chunk and any number of levels, and about the task that starts  *)
(* its runs.                                                                 *)
(***************************************************************************)
EXTENDS MergeTask, SequenceTheorems, TLAPS

-----------------------------------------------------------------------------
(* Canonical ids. *)

\* A prefix, label by label.
LEMMA PrefixPoints ==
  ASSUME NEW x \in Ids, NEW m \in 0..Len(x)
  PROVE  /\ SubSeq(x, 1, m) \in Ids
         /\ Len(SubSeq(x, 1, m)) = m
         /\ \A i \in 1..m : SubSeq(x, 1, m)[i] = x[i]
<1>1. Len(x) \in Nat /\ m \in Int /\ 1 \in Int /\ \A i \in 1..m : x[i] \in Labels
  BY LenProperties, ElementOfSeq DEF Ids
<1>2. /\ SubSeq(x, 1, m) \in Seq(Labels)
      /\ Len(SubSeq(x, 1, m)) = IF 1 <= m THEN m - 1 + 1 ELSE 0
      /\ \A i \in 1..(m - 1 + 1) : SubSeq(x, 1, m)[i] = x[1 + i - 1]
  BY <1>1, SubSeqProperties
<1>3. \A i \in Nat : 1 + i - 1 = i
  OBVIOUS
<1> QED BY <1>1, <1>2, <1>3 DEF Ids

LEMMA AppendPoints ==
  ASSUME NEW s \in Ids, NEW l \in Labels
  PROVE  /\ Append(s, l) \in Ids
         /\ Len(Append(s, l)) = Len(s) + 1
         /\ \A i \in 1..Len(s) : Append(s, l)[i] = s[i]
         /\ Append(s, l)[Len(s) + 1] = l
BY LenProperties DEF Ids

\* Ids that agree label by label are one.
LEMMA SameId ==
  ASSUME NEW x \in Ids, NEW y \in Ids, Len(x) = Len(y), \A i \in 1..Len(x) : x[i] = y[i]
  PROVE  x = y
BY SeqEqual DEF Ids

LEMMA AppendOnce ==
  ASSUME NEW s \in Ids, NEW t \in Ids, NEW a \in Labels, NEW b \in Labels,
         Append(s, a) = Append(t, b)
  PROVE  s = t /\ a = b
<1>1. Len(s) \in Nat /\ Len(t) \in Nat
  BY LenProperties DEF Ids
<1>2. Len(s) = Len(t) /\ a = b
  BY <1>1, AppendPoints
<1>3. \A i \in 1..Len(s) : s[i] = t[i]
  BY <1>2, AppendPoints
<1> QED BY <1>2, <1>3, SameId

LEMMA BelowPoints ==
  ASSUME NEW x \in Ids, NEW from \in Ids
  PROVE  IsBelow(x, from) <=>
           Len(x) >= Len(from) /\ \A i \in 1..Len(from) : x[i] = from[i]
<1>1. Len(x) \in Nat /\ Len(from) \in Nat
  BY LenProperties DEF Ids
<1> SUFFICES ASSUME Len(x) >= Len(from)
             PROVE  SubSeq(x, 1, Len(from)) = from <=> \A i \in 1..Len(from) : x[i] = from[i]
  BY DEF IsBelow
<1>2. /\ SubSeq(x, 1, Len(from)) \in Ids /\ Len(SubSeq(x, 1, Len(from))) = Len(from)
      /\ \A i \in 1..Len(from) : SubSeq(x, 1, Len(from))[i] = x[i]
  BY <1>1, PrefixPoints
<1> QED BY <1>2, SameId

\* What is below one id goes below another, label by label.
LEMMA RewritePoints ==
  ASSUME NEW x \in Ids, NEW from \in Ids, NEW to \in Ids, Len(to) = Len(from),
         IsBelow(x, from)
  PROVE  /\ Rewrite(x, from, to) \in Ids
         /\ Len(Rewrite(x, from, to)) = Len(x)
         /\ \A i \in 1..Len(x) :
              Rewrite(x, from, to)[i] = IF i <= Len(from) THEN to[i] ELSE x[i]
<1> DEFINE n == Len(from)
           y == SubSeq(x, n + 1, Len(x))
<1>1. Len(x) \in Nat /\ n \in Nat /\ n <= Len(x)
  BY LenProperties DEF Ids, IsBelow
<1>2. \A i \in (n + 1)..Len(x) : x[i] \in Labels
  BY <1>1, ElementOfSeq DEF Ids
<1>3. /\ y \in Seq(Labels)
      /\ Len(y) = IF n + 1 <= Len(x) THEN Len(x) - (n + 1) + 1 ELSE 0
      /\ \A i \in 1..(Len(x) - (n + 1) + 1) : y[i] = x[(n + 1) + i - 1]
  BY <1>1, <1>2, SubSeqProperties
<1>4. Len(y) = Len(x) - n /\ \A i \in (n + 1)..Len(x) : y[i - n] = x[i]
  <2> HIDE DEF y
  <2>1. Len(y) = Len(x) - n
    BY <1>1, <1>3
  <2>2. ASSUME NEW i \in (n + 1)..Len(x) PROVE y[i - n] = x[i]
    <3>1. i - n \in 1..(Len(x) - (n + 1) + 1) /\ (n + 1) + (i - n) - 1 = i
      BY <1>1
    <3> QED BY <1>3, <3>1
  <2> QED BY <2>1, <2>2
<1>5. /\ to \o y \in Seq(Labels) /\ Len(to \o y) = Len(to) + Len(y)
      /\ \A i \in 1..(Len(to) + Len(y)) :
           (to \o y)[i] = IF i <= Len(to) THEN to[i] ELSE y[i - Len(to)]
  <2> HIDE DEF y
  <2>1. to \in Seq(Labels)
    BY DEF Ids
  <2> QED BY <1>3, <2>1, ConcatProperties
<1>6. Rewrite(x, from, to) = to \o y
  BY DEF Rewrite
<1> HIDE DEF y
<1>7. Len(to \o y) = Len(x)
  BY <1>1, <1>4, <1>5
<1>8. ASSUME NEW i \in 1..Len(x)
      PROVE  (to \o y)[i] = IF i <= n THEN to[i] ELSE x[i]
  BY <1>1, <1>4, <1>5
<1> QED BY <1>5, <1>6, <1>7, <1>8 DEF Ids

\* Ids below one id that are rewritten alike are one.
LEMMA RewriteOnce ==
  ASSUME NEW x \in Ids, NEW y \in Ids, NEW from \in Ids, NEW to \in Ids,
         Len(to) = Len(from), IsBelow(x, from), IsBelow(y, from),
         Rewrite(x, from, to) = Rewrite(y, from, to)
  PROVE  x = y
<1>1. Len(x) \in Nat /\ Len(from) \in Nat /\ Len(x) = Len(y)
  BY RewritePoints, LenProperties DEF Ids
<1>2. ASSUME NEW i \in 1..Len(x) PROVE x[i] = y[i]
  <2>1. CASE i <= Len(from)
    BY <1>1, <2>1, BelowPoints
  <2>2. CASE i > Len(from)
    <3>1. Rewrite(x, from, to)[i] = x[i] /\ Rewrite(y, from, to)[i] = y[i]
      BY <1>1, <2>2, RewritePoints
    <3> QED BY <3>1
  <2> QED BY <1>1, <2>1, <2>2
<1> QED BY <1>1, <1>2, SameId

\* Rewriting and appending commute.
LEMMA RewriteAppend ==
  ASSUME NEW x \in Ids, NEW l \in Labels, NEW from \in Ids, NEW to \in Ids,
         Len(to) = Len(from), IsBelow(x, from)
  PROVE  /\ IsBelow(Append(x, l), from)
         /\ Rewrite(Append(x, l), from, to) = Append(Rewrite(x, from, to), l)
<1> DEFINE z == Append(x, l)
           y == Rewrite(x, from, to)
<1>1. Len(x) \in Nat /\ Len(from) \in Nat /\ Len(x) >= Len(from)
  BY LenProperties, BelowPoints DEF Ids
<1>2. /\ z \in Ids /\ Len(z) = Len(x) + 1 /\ z[Len(x) + 1] = l
      /\ \A i \in 1..Len(x) : z[i] = x[i]
  BY AppendPoints
<1> HIDE DEF z
<1>3. IsBelow(z, from)
  <2>1. Len(z) >= Len(from) /\ \A i \in 1..Len(from) : z[i] = x[i] /\ x[i] = from[i]
    BY <1>1, <1>2, BelowPoints
  <2> QED BY <1>2, <2>1, BelowPoints
<1>4. /\ y \in Ids /\ Len(y) = Len(x)
      /\ \A i \in 1..Len(x) : y[i] = IF i <= Len(from) THEN to[i] ELSE x[i]
  BY RewritePoints
<1>5. /\ Append(y, l) \in Ids /\ Len(Append(y, l)) = Len(x) + 1
      /\ Append(y, l)[Len(x) + 1] = l
      /\ \A i \in 1..Len(x) : Append(y, l)[i] = y[i]
  BY <1>4, AppendPoints
<1>6. /\ Rewrite(z, from, to) \in Ids /\ Len(Rewrite(z, from, to)) = Len(z)
      /\ \A i \in 1..Len(z) :
           Rewrite(z, from, to)[i] = IF i <= Len(from) THEN to[i] ELSE z[i]
  BY <1>2, <1>3, RewritePoints
<1> HIDE DEF y
<1>7. ASSUME NEW i \in 1..Len(z) PROVE Rewrite(z, from, to)[i] = Append(y, l)[i]
  BY <1>1, <1>2, <1>4, <1>5, <1>6
<1>8. Rewrite(z, from, to) = Append(y, l)
  BY <1>2, <1>5, <1>6, <1>7, SameId
<1> QED BY <1>3, <1>8 DEF y, z
-----------------------------------------------------------------------------
(* The inductive invariants. *)

InBucket == pc \in {"ask", "redirect", "settle", "close"}

\* The canonical ids of the bucket at hand.
Under(p) == {Append(p, l) : l \in Labels}

\* What the variables of the bucket hold, beyond TypeOK.
Shape ==
  /\ known \subseteq Under(parent)
  /\ \A l \in DOMAIN ids : ids[l] \in Under(parent)
  /\ \A l \in DOMAIN resolved : resolved[l] \in Under(parent)
  /\ \A l \in DOMAIN mapping : mapping[l] \in Labels
  /\ \A r \in redirects :
       \E a, b \in Labels : a # b /\ r = <<Append(parent, a), Append(parent, b)>>
  /\ pc # "redirect" => left = {}
  /\ pc \notin {"redirect", "settle"} => redirects = {} /\ DOMAIN mapping = {}

\* Level by level and bucket by bucket: a path is at the level before while its bucket
\* is left, and at this one afterwards.
Levels ==
  /\ \A d \in DOMAIN seen : seen[d] \subseteq DOMAIN place
  /\ \A q \in todo : Len(q) + 1 = level
  /\ \A p \in DOMAIN place :
       \/ Len(p) < level /\ Len(place[p]) = Len(p)
       \/ Len(p) >= level /\ place[p] \in todo
       \/ /\ Len(p) >= level /\ Len(place[p]) = level
          /\ SubSeq(place[p], 1, level - 1) \notin todo
  /\ pc = "mark" => \A p \in DOMAIN place : Len(p) < level

\* Each label of the bucket has its id, or a leader which will, or is left.
Coverage ==
  InBucket =>
    /\ parent \in todo
    /\ Bucket(parent) = DOMAIN resolved \cup DOMAIN followers \cup fresh
    /\ \A l \in DOMAIN followers : followers[l] \in DOMAIN resolved \cup fresh
    /\ pc = "close" => fresh = {}

TInv == TypeOK /\ Shape /\ Levels /\ Coverage

\* The first labels of p lead to x: every prefix of x is the alias of the next label of
\* p below the prefix before.
Leads(a, p, x) ==
  /\ Len(x) <= Len(p)
  /\ \A m \in 1..Len(x) :
       LET key == <<SubSeq(x, 1, m - 1), p[m]>>
       IN  key \in DOMAIN a /\ a[key] = SubSeq(x, 1, m)

\* What redirect_canonical has made of an id so far.
Now(id) ==
  IF \E r \in redirects \ left : r[1] = id
  THEN (CHOOSE r \in redirects \ left : r[1] = id)[2] ELSE id

\* What the run holds in memory is what is stored, or what it will be corrected to.
InMemory ==
  /\ \A p \in DOMAIN place : Leads(alias, p, place[p])
  /\ \A r, q \in redirects : (r[1] = q[1] => r = q) /\ r[1] # q[2]
  /\ InBucket =>
       /\ \A l \in DOMAIN resolved :
            <<parent, l>> \in DOMAIN alias /\ alias[<<parent, l>>] = Now(resolved[l])
       /\ \A l \in fresh \cup DOMAIN followers : <<parent, l>> \notin DOMAIN alias
       /\ fresh \cap (DOMAIN resolved \cup DOMAIN followers) = {}

MInv == TInv /\ WellRooted /\ InMemory
-----------------------------------------------------------------------------
(* The parts of TypeOK. *)

Documents == [paths : Groupings, late : BOOLEAN, merged : Groupings \cup {Unmarked}]

DocsOK ==
  /\ DOMAIN docs \subseteq Docs
  /\ \A d \in DOMAIN docs : docs[d] \in Documents
  /\ saving \subseteq [doc : Docs, paths : Groupings, late : BOOLEAN]
  /\ faults \in 0..MaxFaults /\ saves \in 0..MaxSaves

AliasOK ==
  /\ DOMAIN alias \subseteq Ids \X Labels
  /\ \A k \in DOMAIN alias : alias[k] \in Ids

PlaceOK ==
  /\ DOMAIN seen \subseteq Docs /\ \A d \in DOMAIN seen : seen[d] \in Groupings
  /\ DOMAIN place \subseteq Paths /\ \A p \in DOMAIN place : place[p] \in Ids
  /\ level \in Nat /\ todo \subseteq Ids

BucketOK ==
  /\ parent \in Ids /\ known \subseteq Ids
  /\ fresh \subseteq Labels /\ DOMAIN followers \subseteq Labels
  /\ DOMAIN resolved \subseteq Labels /\ DOMAIN ids \subseteq Labels
  /\ DOMAIN mapping \subseteq fresh /\ left \subseteq redirects

Steps == {"idle", "started", "level", "ask", "redirect", "settle", "close", "mark"}

LEMMA TypeParts == TypeOK <=> DocsOK /\ AliasOK /\ PlaceOK /\ BucketOK /\ pc \in Steps
BY DEF TypeOK, DocsOK, Documents, AliasOK, PlaceOK, BucketOK, Steps

\* What a run leaves to the next one.
Stored == DocsOK /\ AliasOK /\ WellRooted

\* What a run holds.
Held == PlaceOK /\ BucketOK /\ pc \in Steps /\ Shape /\ Levels /\ Coverage /\ InMemory

LEMMA InvParts == MInv <=> Stored /\ Held
BY TypeParts DEF MInv, TInv, Stored, Held

LEMMA NoneEmpty == DOMAIN None = {}
BY DEF None

LEMMA RootIsId == Root \in Ids /\ Len(Root) = 0
BY EmptySeq DEF Root, Ids

LEMMA PathsAreLong ==
  \A p \in Paths : p \in Ids /\ Len(p) \in Nat /\ Len(p) >= 1
BY LabelsAssumption, EmptySeq, LenProperties DEF Paths, Ids

LEMMA LenNat == \A x \in Ids : Len(x) \in Nat
BY LenProperties DEF Ids

\* A run that ended holds nothing.
LEMMA EndRunHeld ==
  ASSUME EndRun
  PROVE  Held'
<1>1. /\ pc' = "idle" /\ seen' = None /\ place' = None /\ level' = 0 /\ todo' = {}
      /\ parent' = Root /\ known' = {} /\ ids' = None /\ resolved' = None
      /\ followers' = None /\ fresh' = {} /\ mapping' = None /\ redirects' = {} /\ left' = {}
  BY DEF EndRun, ForgetBucket
<1>2. PlaceOK' /\ BucketOK' /\ pc' \in Steps
  BY <1>1, NoneEmpty, RootIsId DEF PlaceOK, BucketOK, Steps
<1>3. Shape'
  BY <1>1, NoneEmpty DEF Shape
<1>4. Levels'
  BY <1>1, NoneEmpty DEF Levels
<1>5. Coverage' /\ InMemory'
  BY <1>1, NoneEmpty DEF Coverage, InMemory, InBucket
<1> QED BY <1>2, <1>3, <1>4, <1>5 DEF Held

LEMMA InvInit == Init => MInv
<1> SUFFICES ASSUME Init PROVE MInv
  OBVIOUS
<1>1. Stored
  BY NoneEmpty, LabelsAssumption DEF Init, Stored, DocsOK, AliasOK, WellRooted
<1>2. PlaceOK /\ BucketOK /\ pc \in Steps
  BY NoneEmpty, RootIsId DEF Init, PlaceOK, BucketOK, Steps
<1>3. Shape
  BY NoneEmpty DEF Init, Shape
<1>4. Levels
  BY NoneEmpty DEF Init, Levels
<1>5. Coverage /\ InMemory
  BY NoneEmpty DEF Init, Coverage, InMemory, InBucket
<1> QED BY <1>1, <1>2, <1>3, <1>4, <1>5, InvParts DEF Held

\* What others do does not touch what the run holds.
LEMMA HeldStays ==
  ASSUME Held, UNCHANGED <<pc, alias, runVars, bucketVars>>
  PROVE  Held'
<1>1. /\ pc' = pc /\ alias' = alias /\ seen' = seen /\ place' = place /\ level' = level
      /\ todo' = todo /\ parent' = parent /\ known' = known /\ ids' = ids
      /\ resolved' = resolved /\ followers' = followers /\ fresh' = fresh
      /\ mapping' = mapping /\ redirects' = redirects /\ left' = left
  BY DEF runVars, bucketVars
<1>2. PlaceOK' /\ BucketOK' /\ pc' \in Steps /\ Shape' /\ Levels'
  BY <1>1 DEF Held, PlaceOK, BucketOK, Shape, Levels
<1>3. Coverage'
  BY <1>1 DEF Held, Coverage, Bucket, InBucket
<1>4. InMemory'
  <2>1. \A p \in DOMAIN place' : Leads(alias', p, place'[p])
    BY <1>1 DEF Held, InMemory
  <2>2. \A id : Now(id)' = Now(id)
    BY <1>1 DEF Now
  <2>3. (\A p \in DOMAIN place : Leads(alias, p, place[p]))'
    BY <2>1 DEF Leads
  <2> QED BY <1>1, <2>2, <2>3 DEF Held, InMemory, InBucket
<1> QED BY <1>2, <1>3, <1>4 DEF Held
-----------------------------------------------------------------------------
(* One lemma for each kind of step: what is held goes on to be as it should. *)

\* Paths that are where the level before left them are where this one begins.
LEMMA BeginLevelHeld ==
  ASSUME NEW at, NEW n \in Nat, BeginLevel(at, n), DOMAIN at \subseteq Paths,
         \A p \in DOMAIN at :
           /\ at[p] \in Ids
           /\ \/ Len(p) < n /\ Len(at[p]) = Len(p)
              \/ Len(p) >= n /\ Len(at[p]) + 1 = n,
         DOMAIN seen' \subseteq Docs,
         \A d \in DOMAIN seen' : seen'[d] \in Groupings /\ seen'[d] \subseteq DOMAIN at
  PROVE  PlaceOK' /\ Levels' /\ place' = at /\ pc' \in {"level", "mark"}
<1>1. /\ place' = at /\ level' = n /\ todo' = Parents(at, n)
      /\ pc' \in {"level", "mark"} /\ (pc' = "mark" => todo' = {})
  BY DEF BeginLevel
<1>2. /\ \A q \in todo' : q \in Ids /\ Len(q) + 1 = n
      /\ \A p \in DOMAIN at : Len(p) >= n => at[p] \in todo'
  BY <1>1 DEF Parents
<1>3. PlaceOK'
  BY <1>1, <1>2 DEF PlaceOK
<1>4. Levels'
  <2>1. ASSUME NEW p \in DOMAIN at
        PROVE  \/ Len(p) < n /\ Len(at[p]) = Len(p)
               \/ Len(p) >= n /\ at[p] \in todo'
    BY <1>2
  <2>2. pc' = "mark" => \A p \in DOMAIN at : Len(p) < n
    BY <1>1, <1>2
  <2> QED BY <1>1, <1>2, <2>1, <2>2 DEF Levels
<1> QED BY <1>1, <1>3, <1>4

\* Between two buckets.
LEMMA NoBucketHeld ==
  ASSUME PlaceOK', Levels', pc' \in {"idle", "started", "level", "mark"},
         BucketOK', Shape', (\A p \in DOMAIN place : Leads(alias, p, place[p]))'
  PROVE  Held'
<1>1. redirects' = {} /\ pc' \in Steps /\ ~ InBucket'
  BY DEF Shape, InBucket, Steps
<1> QED BY <1>1 DEF Held, Coverage, InMemory

LEMMA ForgetBucketHeld ==
  ASSUME ForgetBucket
  PROVE  BucketOK' /\ Shape'
BY NoneEmpty, RootIsId DEF ForgetBucket, BucketOK, Shape

LEMMA StartHeld ==
  ASSUME Held, Start
  PROVE  Held'
<1>1. /\ pc = "idle" /\ pc' = "started"
      /\ UNCHANGED <<alias, runVars, bucketVars>>
  BY DEF Start
<1>2. /\ alias' = alias /\ seen' = seen /\ place' = place /\ level' = level
      /\ todo' = todo /\ parent' = parent /\ known' = known /\ ids' = ids
      /\ resolved' = resolved /\ followers' = followers /\ fresh' = fresh
      /\ mapping' = mapping /\ redirects' = redirects /\ left' = left
  BY <1>1 DEF runVars, bucketVars
<1>3. PlaceOK' /\ Levels' /\ BucketOK' /\ Shape'
  BY <1>1, <1>2 DEF Held, PlaceOK, Levels, BucketOK, Shape
<1>4. (\A p \in DOMAIN place : Leads(alias, p, place[p]))'
  <2>1. \A p \in DOMAIN place' : Leads(alias', p, place'[p])
    BY <1>2 DEF Held, InMemory
  <2> QED BY <2>1 DEF Leads
<1> QED BY <1>1, <1>3, <1>4, NoBucketHeld

\* A path of which no label has an id yet.
LEMMA RootLeads == \A a, p : Len(p) \in Nat => Leads(a, p, Root)
BY RootIsId DEF Leads

LEMMA CollectHeld ==
  ASSUME Stored, Held, Collect
  PROVE  Held'
<1> DEFINE at == [p \in UNION {docs[d].paths : d \in Pending} |-> Root]
<1>1. /\ pc = "started" /\ seen' = [d \in Pending |-> docs[d].paths] /\ BeginLevel(at, 1)
      /\ UNCHANGED <<alias, bucketVars>>
  BY DEF Collect
<1>2. /\ DOMAIN seen' \subseteq Docs
      /\ \A d \in DOMAIN seen' : seen'[d] \in Groupings /\ seen'[d] \subseteq DOMAIN at
      /\ DOMAIN at \subseteq Paths
  BY <1>1 DEF Stored, DocsOK, Documents, Pending, Paths
<1>3. \A p \in DOMAIN at : at[p] = Root /\ p \in Paths
  BY <1>2
<1> HIDE DEF at
<1>4. \A p \in DOMAIN at :
        /\ at[p] \in Ids
        /\ Len(p) >= 1 /\ Len(at[p]) + 1 = 1
  BY <1>3, RootIsId, PathsAreLong
<1>5. PlaceOK' /\ Levels' /\ place' = at /\ pc' \in {"level", "mark"}
  BY <1>1, <1>2, <1>4, BeginLevelHeld
<1>6. BucketOK' /\ Shape'
  BY <1>1, <1>5 DEF Held, BucketOK, Shape, bucketVars
<1>7. (\A p \in DOMAIN place : Leads(alias, p, place[p]))'
  <2>1. \A p \in DOMAIN place' : Leads(alias', p, place'[p])
    BY <1>3, <1>5, RootLeads, PathsAreLong
  <2> QED BY <2>1 DEF Leads
<1> QED BY <1>5, <1>6, <1>7, NoBucketHeld

\* Aliases written or written over with those of new, some of them or all.
Adds(new) ==
  /\ DOMAIN alias \subseteq DOMAIN alias'
  /\ \A k \in DOMAIN alias' :
       \/ k \in DOMAIN new /\ alias'[k] = new[k]
       \/ k \in DOMAIN alias /\ alias'[k] = alias[k]

LEMMA OverAdds ==
  ASSUME NEW new,
         \/ alias' = Over(new, alias)
         \/ \E K \in SUBSET DOMAIN new : alias' = Over([k \in K |-> new[k]], alias)
  PROVE  Adds(new)
<1>1. CASE alias' = Over(new, alias)
  BY <1>1 DEF Over, Adds
<1>2. ASSUME NEW K \in SUBSET DOMAIN new, alias' = Over([k \in K |-> new[k]], alias)
      PROVE  Adds(new)
  BY <1>2 DEF Over, Adds
<1> QED BY <1>1, <1>2

\* No bucket writes below another parent than its own.
LEMMA AddsRooted ==
  ASSUME AliasOK, WellRooted, NEW new, Adds(new), DOMAIN new \subseteq Ids \X Labels,
         \A k \in DOMAIN new : new[k] \in Under(k[1])
  PROVE  AliasOK' /\ WellRooted'
<1>1. ASSUME NEW k \in DOMAIN alias'
      PROVE  k \in Ids \X Labels /\ alias'[k] \in Under(k[1])
  BY <1>1 DEF Adds, AliasOK, WellRooted, Under
<1>2. \A x \in Ids : Under(x) \subseteq Ids
  BY AppendPoints DEF Under
<1> QED BY <1>1, <1>2 DEF AliasOK, WellRooted, Under

LEMMA DocsStay ==
  ASSUME DocsOK, UNCHANGED dataVars, UNCHANGED faults \/ Fault
  PROVE  DocsOK'
<1>1. docs' = docs /\ saving' = saving /\ saves' = saves /\ faults' \in 0..MaxFaults
  BY LabelsAssumption DEF dataVars, Fault, DocsOK
<1> QED BY <1>1 DEF DocsOK

\* Where labels lead to is not lost while aliases are only added.
LEMMA LeadsOn ==
  ASSUME NEW a, NEW b, NEW p, NEW x, Leads(a, p, x),
         \A k \in DOMAIN a : k \in DOMAIN b /\ b[k] = a[k]
  PROVE  Leads(b, p, x)
BY DEF Leads

LEMMA PlaceStays ==
  ASSUME \A p \in DOMAIN place : Leads(alias, p, place[p]),
         place' = place, \A k \in DOMAIN alias : k \in DOMAIN alias' /\ alias'[k] = alias[k]
  PROVE  (\A p \in DOMAIN place : Leads(alias, p, place[p]))'
<1>1. \A p \in DOMAIN place' : Leads(alias', p, place'[p])
  BY LeadsOn
<1> QED BY <1>1 DEF Leads

LEMMA BucketLabels ==
  ASSUME Held, NEW p \in todo
  PROVE  p \in Ids /\ Len(p) + 1 = level /\ Bucket(p) \subseteq Labels
<1>1. p \in Ids /\ Len(p) \in Nat /\ Len(p) + 1 = level
  BY LenNat DEF Held, PlaceOK, Levels
<1>2. ASSUME NEW q \in DOMAIN place, Len(q) >= level PROVE q[level] \in Labels
  <2>1. q \in Seq(Labels) /\ level \in 1..Len(q)
    BY <1>1, <1>2, PathsAreLong DEF Held, PlaceOK, Ids
  <2> QED BY <2>1, ElementOfSeq
<1> QED BY <1>1, <1>2 DEF Bucket

LEMMA CanonicalsUnder ==
  ASSUME WellRooted, NEW p
  PROVE  Canonicals(p) \subseteq Under(p)
BY DEF Canonicals, WellRooted, Under

LEMMA OpenBucketHeld ==
  ASSUME Stored, Held, NEW p \in todo, OpenBucket(p)
  PROVE  Stored' /\ Held' /\ \A k \in DOMAIN alias : k \in DOMAIN alias' /\ alias'[k] = alias[k]
<1> DEFINE exact == {l \in Bucket(p) : <<p, l>> \in DOMAIN alias}
           pending == Bucket(p) \ exact
<1>1. pc = "level" /\ UNCHANGED dataVars
  BY DEF OpenBucket
<1>2. PICK leaders \in SUBSET pending :
        /\ \A l \in pending :
             \E m \in leaders : {x \in leaders : Normal[x] = Normal[l]} = {m}
        /\ LET certain == {l \in leaders : PrepassIds(p, l) # {}}
           IN  \E found \in [certain -> Canonicals(p)] :
                    /\ \A l \in certain : found[l] \in PrepassIds(p, l)
                    /\ Upsert([k \in {p} \X certain |-> found[k[2]]],
                         /\ parent' = p
                         /\ known' = Canonicals(p)
                         /\ ids' = [l \in {Last(id) : id \in Canonicals(p)} |-> Append(p, l)]
                         /\ resolved' = Over(found, [l \in exact |-> alias[<<p, l>>]])
                         /\ followers' = [l \in pending \ leaders |->
                                            CHOOSE m \in leaders : Normal[m] = Normal[l]]
                         /\ fresh' = leaders \ certain
                         /\ pc' = IF leaders = certain THEN "close" ELSE "ask"
                         /\ UNCHANGED <<runVars, mapping, redirects, left>>)
  BY DEF OpenBucket
<1> DEFINE certain == {l \in leaders : PrepassIds(p, l) # {}}
<1>3. PICK found \in [certain -> Canonicals(p)] :
        Upsert([k \in {p} \X certain |-> found[k[2]]],
                         /\ parent' = p
                         /\ known' = Canonicals(p)
                         /\ ids' = [l \in {Last(id) : id \in Canonicals(p)} |-> Append(p, l)]
                         /\ resolved' = Over(found, [l \in exact |-> alias[<<p, l>>]])
                         /\ followers' = [l \in pending \ leaders |->
                                            CHOOSE m \in leaders : Normal[m] = Normal[l]]
                         /\ fresh' = leaders \ certain
                         /\ pc' = IF leaders = certain THEN "close" ELSE "ask"
                         /\ UNCHANGED <<runVars, mapping, redirects, left>>)
  BY <1>2
<1> DEFINE new == [k \in {p} \X certain |-> found[k[2]]]
           opened == /\ parent' = p
                     /\ known' = Canonicals(p)
                     /\ ids' = [l \in {Last(id) : id \in Canonicals(p)} |-> Append(p, l)]
                     /\ resolved' = Over(found, [l \in exact |-> alias[<<p, l>>]])
                     /\ followers' = [l \in pending \ leaders |->
                                        CHOOSE m \in leaders : Normal[m] = Normal[l]]
                     /\ fresh' = leaders \ certain
                     /\ pc' = IF leaders = certain THEN "close" ELSE "ask"
                     /\ UNCHANGED <<runVars, mapping, redirects, left>>
<1>4. \/ alias' = Over(new, alias) /\ opened /\ UNCHANGED faults
      \/ \E K \in SUBSET DOMAIN new : alias' = Over([k \in K |-> new[k]], alias) /\ EndRun /\ Fault
  BY <1>3 DEF Upsert
<1>5. /\ p \in Ids /\ Len(p) + 1 = level /\ Bucket(p) \subseteq Labels
      /\ Canonicals(p) \subseteq Under(p)
  BY BucketLabels, CanonicalsUnder DEF Stored
<1>6. /\ certain \subseteq leaders /\ leaders \subseteq pending
      /\ pending \subseteq Labels /\ exact \subseteq Labels
      /\ pending \cap exact = {} /\ Bucket(p) = pending \cup exact
      /\ \A l \in certain : found[l] \in Under(p)
      /\ \A l \in exact : <<p, l>> \in DOMAIN alias
      /\ \A l \in pending : <<p, l>> \notin DOMAIN alias
  BY <1>5
<1>7. /\ DOMAIN new = {p} \X certain
      /\ \A l \in certain : new[<<p, l>>] = found[l]
  OBVIOUS
<1>8. /\ DOMAIN new \subseteq Ids \X Labels
      /\ \A k \in DOMAIN new : k \notin DOMAIN alias /\ new[k] \in Under(k[1])
  BY <1>5, <1>6
<1>9. \A l \in pending : (CHOOSE m \in leaders : Normal[m] = Normal[l]) \in leaders
  BY <1>2
<1>10. DOMAIN found = certain
  OBVIOUS
<1> HIDE DEF exact, pending, certain, new
<1>11. Adds(new)
  BY <1>4, OverAdds
<1>12. \A k \in DOMAIN alias : k \in DOMAIN alias' /\ alias'[k] = alias[k]
  BY <1>8, <1>11 DEF Adds
<1>13. Stored'
  BY <1>1, <1>4, <1>8, <1>11, AddsRooted, DocsStay DEF Stored
<1>14. ASSUME EndRun PROVE Held'
  BY <1>14, EndRunHeld
<1>15. ASSUME alias' = Over(new, alias), opened PROVE Held'
  <2>1. /\ pc' \in {"ask", "close"} /\ parent' = p /\ known' = Canonicals(p)
        /\ fresh' = leaders \ certain /\ (pc' = "close" => fresh' = {})
        /\ seen' = seen /\ place' = place /\ level' = level /\ todo' = todo
        /\ mapping' = mapping /\ redirects' = redirects /\ left' = left
    BY <1>15 DEF runVars
  <2>2. /\ DOMAIN mapping = {} /\ redirects = {} /\ left = {}
    BY <1>1 DEF Held, Shape, BucketOK
  <2>3. /\ DOMAIN resolved' = certain \cup exact
        /\ \A l \in certain : resolved'[l] = found[l]
        /\ \A l \in exact : resolved'[l] = alias[<<p, l>>]
    BY <1>6, <1>10, <1>15 DEF Over
  <2>4. /\ DOMAIN followers' = pending \ leaders
        /\ \A l \in pending \ leaders : followers'[l] \in leaders
    BY <1>9, <1>15
  <2>5. /\ DOMAIN ids' \subseteq Labels
        /\ \A l \in DOMAIN ids' : ids'[l] \in Under(p)
    <3>1. \A id \in Under(p) : Last(id) \in Labels
      BY <1>5, AppendPoints DEF Under, Last
    <3>2. DOMAIN ids' = {Last(id) : id \in Canonicals(p)}
      BY <1>15
    <3>3. DOMAIN ids' \subseteq Labels
      BY <1>5, <3>1, <3>2
    <3> QED BY <1>15, <3>2, <3>3 DEF Under
  <2>6. \A l \in exact : alias[<<p, l>>] \in Under(p)
    BY <1>6 DEF Stored, WellRooted, Under
  <2>7. /\ DOMAIN alias' = ({p} \X certain) \cup DOMAIN alias
        /\ \A l \in certain : alias'[<<p, l>>] = found[l]
    BY <1>7, <1>15 DEF Over
  <2> HIDE DEF opened
  <2>8. PlaceOK' /\ Levels' /\ pc' \in Steps
    BY <2>1 DEF Held, PlaceOK, Levels, Steps
  <2>9. BucketOK'
    <3>1. Under(p) \subseteq Ids
      BY <1>5, AppendPoints DEF Under
    <3> QED BY <1>5, <1>6, <2>1, <2>2, <2>3, <2>4, <2>5, <3>1 DEF BucketOK
  <2>10. Shape'
    <3>1. \A l \in DOMAIN resolved' : resolved'[l] \in Under(p)
      BY <1>6, <2>3, <2>6
    <3>2. Under(parent)' = Under(p)
      BY <2>1 DEF Under
    <3> QED BY <1>5, <2>1, <2>2, <2>5, <3>1, <3>2 DEF Shape
  <2>11. Coverage'
    <3>1. (Bucket(parent))' = Bucket(p)
      BY <2>1 DEF Bucket
    <3>2. Bucket(p) = DOMAIN resolved' \cup DOMAIN followers' \cup fresh'
      BY <1>6, <2>1, <2>3, <2>4
    <3>3. \A l \in DOMAIN followers' : followers'[l] \in DOMAIN resolved' \cup fresh'
      BY <2>1, <2>3, <2>4
    <3> QED BY <2>1, <3>1, <3>2, <3>3 DEF Coverage
  <2>12. InMemory'
    <3>1. (\A q \in DOMAIN place : Leads(alias, q, place[q]))'
      BY <1>12, <2>1, PlaceStays DEF Held, InMemory
    <3>2. \A id : (Now(id))' = id
      BY <2>1, <2>2 DEF Now
    <3>3. \A l \in DOMAIN resolved' :
            <<p, l>> \in DOMAIN alias' /\ alias'[<<p, l>>] = resolved'[l]
      BY <1>6, <1>12, <2>3, <2>7
    <3>4. \A l \in fresh' \cup DOMAIN followers' :
            l \in pending /\ l \notin certain
      BY <1>6, <2>1, <2>4
    <3>5. \A l \in fresh' \cup DOMAIN followers' : <<p, l>> \notin DOMAIN alias'
      BY <1>6, <2>7, <3>4
    <3>6. fresh' \cap (DOMAIN resolved' \cup DOMAIN followers') = {}
      BY <1>6, <2>1, <2>3, <2>4
    <3> QED BY <2>1, <2>2, <3>1, <3>2, <3>3, <3>5, <3>6 DEF InMemory
  <2> QED BY <2>8, <2>9, <2>10, <2>11, <2>12 DEF Held
<1> QED BY <1>4, <1>12, <1>13, <1>14, <1>15

LEMMA LastUnder ==
  ASSUME NEW p \in Ids
  PROVE  /\ Under(p) \subseteq Ids
         /\ \A l \in Labels : Last(Append(p, l)) = l
<1>1. Under(p) \subseteq Ids
  BY AppendPoints DEF Under
<1>2. ASSUME NEW l \in Labels PROVE Last(Append(p, l)) = l
  BY AppendPoints DEF Last
<1> QED BY <1>1, <1>2

\* A level is in hand, and so it stays.
LEMMA LevelStays ==
  ASSUME Held, UNCHANGED runVars, pc' \in Steps \ {"mark"}
  PROVE  PlaceOK' /\ Levels' /\ pc' \in Steps
<1>1. seen' = seen /\ place' = place /\ level' = level /\ todo' = todo
  BY DEF runVars
<1> QED BY <1>1 DEF Held, PlaceOK, Levels, Steps

LEMMA AskHeld ==
  ASSUME Held, Ask
  PROVE  Held'
<1> DEFINE chunk == Chunk(fresh)
<1>0. PICK G \in Answers(chunk) : \E rep \in [G -> Labels] :
        /\ \A g \in G : Stands(rep[g], g)
        /\ mapping' = [l \in chunk |->
             IF \E g \in G : <<1, l>> \in g
             THEN rep[CHOOSE g \in G : <<1, l>> \in g] ELSE l]
        /\ redirects' = UNION {{<<Append(parent, l), Append(parent, rep[g])>> :
                                   l \in Anchors(g) \ {rep[g]}} : g \in G}
  BY DEF Ask
<1>1. PICK rep \in [G -> Labels] :
        /\ \A g \in G : Stands(rep[g], g)
        /\ mapping' = [l \in chunk |->
             IF \E g \in G : <<1, l>> \in g
             THEN rep[CHOOSE g \in G : <<1, l>> \in g] ELSE l]
        /\ redirects' = UNION {{<<Append(parent, l), Append(parent, rep[g])>> :
                                   l \in Anchors(g) \ {rep[g]}} : g \in G}
  BY <1>0
<1>2. /\ pc = "ask" /\ left' = redirects'
      /\ pc' = IF left' = {} THEN "settle" ELSE "redirect"
      /\ alias' = alias /\ UNCHANGED runVars
      /\ parent' = parent /\ known' = known /\ ids' = ids /\ resolved' = resolved
      /\ followers' = followers /\ fresh' = fresh
  BY DEF Ask
<1>3. chunk \subseteq fresh /\ fresh \subseteq Labels /\ parent \in Ids
  BY DEF Chunk, Held, BucketOK
<1>4. \A g \in G : g \subseteq Entries(chunk)
  BY DEF Answers
<1>5. \A g, h \in G : g = h \/ g \cap h = {}
  BY DEF Answers
<1>6. ASSUME NEW g \in G, NEW l \in Anchors(g) PROVE <<0, l>> \in g /\ l \in Labels
  <2>1. PICK e \in g : e[1] = 0 /\ e[2] = l
    BY <1>6 DEF Anchors
  <2>2. e \in {<<0, Last(id)>> : id \in known} \cup {<<1, m>> : m \in chunk}
    BY <1>4, <2>1 DEF Entries
  <2>3. PICK id \in known : e = <<0, Last(id)>>
    BY <2>1, <2>2
  <2>4. PICK m \in Labels : id = Append(parent, m)
    BY DEF Held, Shape, Under
  <2>5. Last(id) \in Labels
    BY <1>3, <2>4, LastUnder
  <2> QED BY <2>1, <2>3, <2>5
<1>7. \A g \in G : rep[g] \in Labels /\ (Anchors(g) # {} => rep[g] \in Anchors(g))
  BY <1>1 DEF Stands
<1>8. \A l \in DOMAIN mapping' : mapping'[l] \in Labels
  <2>1. ASSUME NEW l \in chunk, \E g \in G : <<1, l>> \in g
        PROVE  rep[CHOOSE g \in G : <<1, l>> \in g] \in Labels
    BY <1>7, <2>1
  <2> QED BY <1>1, <1>3, <2>1
<1>9. DOMAIN mapping' \subseteq fresh
  BY <1>1, <1>3
<1>10. \A r \in redirects' : \E g \in G : \E l \in Anchors(g) \ {rep[g]} :
         r = <<Append(parent, l), Append(parent, rep[g])>>
  BY <1>1
<1> HIDE DEF chunk
<1>11. \A r \in redirects' :
         \E a, b \in Labels : a # b /\ r = <<Append(parent, a), Append(parent, b)>>
  BY <1>6, <1>7, <1>10
<1>12. \A r, q \in redirects' : (r[1] = q[1] => r = q) /\ r[1] # q[2]
  <2> TAKE r, q \in redirects'
  <2>1. PICK g \in G : \E l \in Anchors(g) \ {rep[g]} :
          r = <<Append(parent, l), Append(parent, rep[g])>>
    BY <1>10
  <2>2. PICK l \in Anchors(g) \ {rep[g]} :
          r = <<Append(parent, l), Append(parent, rep[g])>>
    BY <2>1
  <2>3. PICK h \in G : \E m \in Anchors(h) \ {rep[h]} :
          q = <<Append(parent, m), Append(parent, rep[h])>>
    BY <1>10
  <2>4. PICK m \in Anchors(h) \ {rep[h]} :
          q = <<Append(parent, m), Append(parent, rep[h])>>
    BY <2>3
  <2>5. /\ l \in Labels /\ m \in Labels /\ rep[g] \in Labels /\ rep[h] \in Labels
        /\ <<0, l>> \in g /\ <<0, m>> \in h /\ <<0, rep[h]>> \in h
    BY <1>6, <1>7
  <2>6. ASSUME r[1] = q[1] PROVE r = q
    <3>1. l = m
      BY <1>3, <2>2, <2>4, <2>5, <2>6, AppendOnce
    <3>2. g = h
      BY <1>5, <2>5, <3>1
    <3> QED BY <2>2, <2>4, <3>1, <3>2
  <2>7. ASSUME r[1] = q[2] PROVE FALSE
    <3>1. l = rep[h]
      BY <1>3, <2>2, <2>4, <2>5, <2>7, AppendOnce
    <3>2. g = h
      BY <1>5, <2>5, <3>1
    <3> QED BY <2>2, <3>1, <3>2
  <2> QED BY <2>6, <2>7
<1>13. pc' \in {"redirect", "settle"} /\ (pc' # "redirect" => left' = {})
  BY <1>2
<1>14. PlaceOK' /\ Levels' /\ pc' \in Steps
  BY <1>2, <1>13, LevelStays DEF Steps
<1>15. BucketOK'
  BY <1>2, <1>9 DEF Held, BucketOK
<1>16. Shape'
  <2>1. Under(parent)' = Under(parent)
    BY <1>2 DEF Under
  <2> QED BY <1>2, <1>8, <1>11, <1>13, <2>1 DEF Held, Shape
<1>17. Coverage'
  <2>1. Bucket(parent)' = Bucket(parent)
    BY <1>2 DEF Bucket, runVars
  <2> QED BY <1>2, <1>13, <2>1 DEF Held, Coverage, InBucket, runVars
<1>18. InMemory'
  <2>1. (\A q \in DOMAIN place : Leads(alias, q, place[q]))'
    BY <1>2, PlaceStays DEF Held, InMemory, runVars
  <2>2. \A id : Now(id) = id
    BY <1>2 DEF Held, Shape, Now
  <2>3. \A id : (Now(id))' = id
    BY <1>2 DEF Now
  <2>4. InBucket
    BY <1>2 DEF InBucket
  <2> QED BY <1>2, <1>12, <2>1, <2>2, <2>3, <2>4 DEF Held, InMemory
<1> QED BY <1>14, <1>15, <1>16, <1>17, <1>18 DEF Held

\* The aliases b after the moves of those of K, one by one.
MovedAs(a, b, K, r) ==
  /\ DOMAIN b = (DOMAIN a \ K) \cup {Moved(k, r) : k \in K}
  /\ \A j \in DOMAIN a \ K : b[j] = a[j]
  /\ \A j \in {Moved(k, r) : k \in K} :
       \E k \in K : Moved(k, r) = j /\ b[j] = Rewrite(a[k], r[1], r[2])

LEMMA MovePoints ==
  ASSUME NEW a, NEW r, NEW K \in SUBSET Movable(a, r)
  PROVE  MovedAs(a, Move(a, K, r), K, r)
<1> DEFINE b == Move(a, K, r)
           news == {Moved(k, r) : k \in K}
<1>1. \A k \in K : k \in DOMAIN a /\ Moved(k, r) \notin DOMAIN a
  BY DEF Movable
<1>2. b = [j \in (DOMAIN a \ K) \cup news |->
             IF j \in DOMAIN a \ K THEN a[j]
             ELSE Rewrite(a[CHOOSE k \in K : Moved(k, r) = j], r[1], r[2])]
  BY DEF Move
<1> HIDE DEF b
<1>3. DOMAIN b = (DOMAIN a \ K) \cup news /\ \A j \in DOMAIN a \ K : b[j] = a[j]
  BY <1>2
<1>4. ASSUME NEW j \in news
      PROVE  \E k \in K : Moved(k, r) = j /\ b[j] = Rewrite(a[k], r[1], r[2])
  <2> DEFINE k == CHOOSE k \in K : Moved(k, r) = j
  <2>1. k \in K /\ Moved(k, r) = j
    OBVIOUS
  <2>2. j \notin DOMAIN a
    BY <1>1, <2>1
  <2>3. b[j] = Rewrite(a[k], r[1], r[2])
    BY <1>2, <2>2
  <2> QED BY <2>1, <2>3
<1> QED BY <1>3, <1>4 DEF MovedAs, b

\* A redirect r of the bucket of p leaves the aliases that are not below the loser, and
\* writes no other in a bucket of that level or the levels before.
Redirects(r, p) ==
  /\ \A k \in DOMAIN alias : ~ IsBelow(k[1], r[1]) =>
       k \in DOMAIN alias' /\ alias'[k] = IF alias[k] = r[1] THEN r[2] ELSE alias[k]
  /\ \A k \in DOMAIN alias' : k \in DOMAIN alias \/ Len(k[1]) > Len(p)

\* redirect_canonical moves the key and the value of an alias together.
LEMMA MoveFacts ==
  ASSUME AliasOK, WellRooted, NEW p \in Ids, NEW f \in Labels, NEW t \in Labels, NEW r,
         r = <<Append(p, f), Append(p, t)>>,
         NEW K \in SUBSET Movable(Exact(alias, r), r),
         alias' = Move(Exact(alias, r), K, r)
  PROVE  /\ DOMAIN alias' \subseteq Ids \X Labels
         /\ \A k \in DOMAIN alias' : alias'[k] \in Under(k[1])
         /\ Redirects(r, p)
<1> DEFINE a == Exact(alias, r)
           from == Append(p, f)
           to == Append(p, t)
<1>1. /\ from \in Ids /\ to \in Ids /\ Len(p) \in Nat
      /\ Len(from) = Len(p) + 1 /\ Len(to) = Len(from)
  BY AppendPoints, LenNat
<1>2. r[1] = from /\ r[2] = to
  OBVIOUS
<1>3. /\ DOMAIN a = DOMAIN alias
      /\ \A k \in DOMAIN alias : a[k] = IF alias[k] = from THEN to ELSE alias[k]
  BY <1>2 DEF Exact
<1>4. \A k \in DOMAIN a : k \in Ids \X Labels /\ k[1] \in Ids /\ k[2] \in Labels
  BY <1>3 DEF AliasOK
<1>5. \A k \in DOMAIN a : a[k] \in Under(k[1])
  <2> TAKE k \in DOMAIN a
  <2>1. PICK l \in Labels : alias[k] = Append(k[1], l)
    BY <1>3 DEF WellRooted
  <2>2. CASE alias[k] = from
    <3>1. k[1] \in Ids /\ Append(k[1], l) = Append(p, f)
      BY <1>4, <2>1, <2>2
    <3>2. k[1] = p
      BY <3>1, AppendOnce
    <3> QED BY <1>3, <2>2, <3>2 DEF Under
  <2>3. CASE alias[k] # from
    BY <1>3, <2>1, <2>3 DEF Under
  <2> QED BY <2>2, <2>3
<1>6. \A k \in K : /\ k \in DOMAIN a /\ IsBelow(k[1], from)
                   /\ Moved(k, r) \notin DOMAIN a
                   /\ Moved(k, r) = <<Rewrite(k[1], from, to), k[2]>>
  BY <1>2 DEF Movable, Moved
<1> DEFINE news == {Moved(k, r) : k \in K}
<1>7. MovedAs(a, alias', K, r)
  BY MovePoints
<1> HIDE DEF a
<1>8. /\ DOMAIN alias' = (DOMAIN a \ K) \cup news
      /\ \A j \in DOMAIN a \ K : alias'[j] = a[j]
  BY <1>7 DEF MovedAs
<1>9. ASSUME NEW j \in news
      PROVE  \E k \in K : Moved(k, r) = j /\ alias'[j] = Rewrite(a[k], from, to)
  BY <1>2, <1>7 DEF MovedAs
<1> HIDE DEF from, to, news
<1>10. ASSUME NEW j \in news
       PROVE  j \in Ids \X Labels /\ alias'[j] \in Under(j[1]) /\ Len(j[1]) > Len(p)
  <2>1. PICK k \in K : Moved(k, r) = j /\ alias'[j] = Rewrite(a[k], from, to)
    BY <1>9
  <2>2. k[1] \in Ids /\ k[2] \in Labels /\ IsBelow(k[1], from)
    BY <1>4, <1>6
  <2>3. PICK l \in Labels : a[k] = Append(k[1], l)
    BY <1>5, <1>6 DEF Under
  <2> DEFINE y == Rewrite(k[1], from, to)
  <2>4. Rewrite(Append(k[1], l), from, to) = Append(y, l)
    BY <1>1, <2>2, RewriteAppend
  <2>5. y \in Ids /\ Len(y) = Len(k[1])
    BY <1>1, <2>2, RewritePoints
  <2>6. j = <<y, k[2]>>
    BY <1>6, <2>1
  <2>7. Len(k[1]) \in Nat /\ Len(k[1]) >= Len(from)
    BY <1>1, <2>2, LenNat, BelowPoints
  <2> HIDE DEF y
  <2>8. alias'[j] = Append(y, l)
    BY <2>1, <2>3, <2>4 DEF y
  <2>9. alias'[j] \in Under(j[1])
    BY <2>6, <2>8 DEF Under
  <2> QED BY <1>1, <2>2, <2>5, <2>6, <2>7, <2>9
<1>11. DOMAIN alias' \subseteq Ids \X Labels /\ \A k \in DOMAIN alias' : alias'[k] \in Under(k[1])
  BY <1>4, <1>5, <1>8, <1>10
<1>12. \A k \in DOMAIN alias : ~ IsBelow(k[1], from) =>
         k \in DOMAIN alias' /\ alias'[k] = IF alias[k] = from THEN to ELSE alias[k]
  <2> TAKE k \in DOMAIN alias
  <2> HAVE ~ IsBelow(k[1], from)
  <2>1. k \in DOMAIN a \ K
    BY <1>3, <1>6
  <2> QED BY <1>3, <1>8, <2>1
<1>13. \A k \in DOMAIN alias' : k \in DOMAIN alias \/ Len(k[1]) > Len(p)
  BY <1>3, <1>8, <1>10
<1> QED BY <1>2, <1>11, <1>12, <1>13 DEF Redirects

LEMMA AppendPrefix ==
  ASSUME NEW p \in Ids, NEW l \in Labels
  PROVE  SubSeq(Append(p, l), 1, Len(p)) = p
<1>1. Len(p) \in Nat /\ Append(p, l) \in Ids /\ Len(Append(p, l)) = Len(p) + 1
      /\ \A i \in 1..Len(p) : Append(p, l)[i] = p[i]
  BY AppendPoints, LenNat
<1>2. Len(p) \in 0..Len(Append(p, l))
  BY <1>1
<1>3. /\ SubSeq(Append(p, l), 1, Len(p)) \in Ids
      /\ Len(SubSeq(Append(p, l), 1, Len(p))) = Len(p)
      /\ \A i \in 1..Len(p) : SubSeq(Append(p, l), 1, Len(p))[i] = Append(p, l)[i]
  BY <1>1, <1>2, PrefixPoints
<1> QED BY <1>1, <1>3, SameId

LEMMA WholePrefix ==
  ASSUME NEW x \in Ids
  PROVE  SubSeq(x, 1, Len(x)) = x
BY SubSeqFull DEF Ids

\* A redirect in the bucket at hand does not touch what the paths have so far.
LEMMA PlaceKept ==
  ASSUME Held, parent \in todo, NEW f \in Labels, NEW b, NEW r,
         r[1] = Append(parent, f),
         \A k \in DOMAIN alias : ~ IsBelow(k[1], r[1]) =>
           k \in DOMAIN b /\ b[k] = IF alias[k] = r[1] THEN r[2] ELSE alias[k],
         NEW p \in DOMAIN place
  PROVE  Leads(b, p, place[p])
<1> DEFINE x == place[p]
<1>1. /\ x \in Ids /\ Len(x) \in Nat /\ parent \in Ids /\ Len(parent) \in Nat
      /\ Len(parent) + 1 = level /\ Leads(alias, p, x) /\ Len(p) \in Nat
  BY LenNat, PathsAreLong DEF Held, PlaceOK, Levels, InMemory
<1>2. Len(x) < level \/ (Len(x) = level /\ SubSeq(x, 1, level - 1) \notin todo)
  <2>1. CASE Len(p) < level /\ Len(x) = Len(p)
    BY <2>1
  <2>2. CASE x \in todo
    <3>1. Len(x) + 1 = level
      BY <2>2 DEF Held, Levels
    <3> QED BY <1>1, <3>1
  <2> QED BY <2>1, <2>2 DEF Held, Levels
<1>3. r[1] \in Ids /\ Len(r[1]) = level /\ SubSeq(r[1], 1, level - 1) = parent
  <2>1. level - 1 = Len(parent)
    BY <1>1
  <2> QED BY <1>1, <2>1, AppendPoints, AppendPrefix
<1> HIDE DEF x
<1>4. ASSUME NEW m \in 1..Len(x)
      PROVE  LET key == <<SubSeq(x, 1, m - 1), p[m]>>
             IN  key \in DOMAIN b /\ b[key] = SubSeq(x, 1, m)
  <2> DEFINE key == <<SubSeq(x, 1, m - 1), p[m]>>
  <2>1. key \in DOMAIN alias /\ alias[key] = SubSeq(x, 1, m)
    BY <1>1 DEF Leads
  <2>2. m - 1 \in 0..Len(x) /\ m \in 0..Len(x) /\ m <= level
    BY <1>1, <1>2
  <2>3. Len(SubSeq(x, 1, m - 1)) = m - 1 /\ Len(SubSeq(x, 1, m)) = m
    BY <1>1, <2>2, PrefixPoints
  <2>4. ~ IsBelow(key[1], r[1])
    BY <1>1, <1>3, <2>2, <2>3 DEF IsBelow
  <2>5. SubSeq(x, 1, m) # r[1]
    <3> SUFFICES ASSUME SubSeq(x, 1, m) = r[1] PROVE FALSE
      OBVIOUS
    <3>1. m = level /\ Len(x) = level
      BY <1>1, <1>2, <1>3, <2>2, <2>3
    <3>2. x = r[1]
      BY <1>1, <3>1, WholePrefix
    <3>3. SubSeq(x, 1, level - 1) \notin todo
      BY <1>1, <1>2, <3>1
    <3> QED BY <1>3, <3>2, <3>3
  <2> QED BY <2>1, <2>4, <2>5
<1>5. Len(x) <= Len(p)
  BY <1>1 DEF Leads
<1> QED BY <1>4, <1>5 DEF Leads, x

LEMMA RedirectHeld ==
  ASSUME Stored, Held, NEW r \in left, Redirect(r)
  PROVE  Stored' /\ Held'
<1>1. pc = "redirect" /\ UNCHANGED dataVars /\ r \in redirects /\ InBucket
  BY DEF Redirect, Held, BucketOK, InBucket
<1>2. parent \in todo /\ parent \in Ids /\ Len(parent) \in Nat
  BY <1>1, LenNat DEF Held, Coverage, BucketOK
<1>3. PICK f \in Labels, t \in Labels : f # t /\ r = <<Append(parent, f), Append(parent, t)>>
  BY <1>1 DEF Held, Shape
<1> DEFINE a == Exact(alias, r)
<1>4. PICK K \in SUBSET Movable(a, r) :
        /\ alias' = Move(a, K, r)
        /\ \/ /\ left' = left \ {r}
              /\ pc' = IF left' = {} THEN "settle" ELSE pc
              /\ UNCHANGED <<runVars, parent, known, ids, resolved, followers, fresh, mapping,
                             redirects, faults>>
           \/ EndRun /\ Fault
  BY DEF Redirect
<1> HIDE DEF a
<1>5. /\ DOMAIN alias' \subseteq Ids \X Labels
      /\ \A k \in DOMAIN alias' : alias'[k] \in Under(k[1])
      /\ Redirects(r, parent)
  <2>1. /\ AliasOK /\ WellRooted /\ parent \in Ids
        /\ K \in SUBSET Movable(Exact(alias, r), r) /\ alias' = Move(Exact(alias, r), K, r)
    BY <1>2, <1>4 DEF Stored, a
  <2>2. r = <<Append(parent, f), Append(parent, t)>>
    BY <1>3
  <2> QED BY <2>1, <2>2, MoveFacts
<1>6. Stored'
  <2>1. \A x \in Ids : Under(x) \subseteq Ids
    BY LastUnder
  <2>2. AliasOK' /\ WellRooted'
    BY <1>5, <2>1 DEF AliasOK, WellRooted, Under
  <2> QED BY <1>1, <1>4, <2>2, DocsStay DEF Stored
<1>7. CASE EndRun
  BY <1>6, <1>7, EndRunHeld
<1>8. CASE /\ left' = left \ {r}
           /\ pc' = IF left' = {} THEN "settle" ELSE pc
           /\ UNCHANGED <<runVars, parent, known, ids, resolved, followers, fresh, mapping,
                          redirects, faults>>
  <2>1. /\ pc' \in {"redirect", "settle"} /\ (pc' # "redirect" => left' = {})
        /\ left' \subseteq left /\ parent' = parent /\ known' = known /\ ids' = ids
        /\ resolved' = resolved /\ followers' = followers /\ fresh' = fresh
        /\ mapping' = mapping /\ redirects' = redirects /\ UNCHANGED runVars
    BY <1>1, <1>8
  <2>2. PlaceOK' /\ Levels' /\ pc' \in Steps
    BY <2>1, LevelStays DEF Steps
  <2>3. BucketOK'
    BY <2>1 DEF Held, BucketOK
  <2>4. Shape'
    <3>1. Under(parent)' = Under(parent)
      BY <2>1 DEF Under
    <3> QED BY <2>1, <3>1 DEF Held, Shape
  <2>5. Coverage'
    <3>1. Bucket(parent)' = Bucket(parent)
      BY <2>1 DEF Bucket, runVars
    <3> QED BY <1>1, <2>1, <3>1 DEF Held, Coverage, runVars
  <2>6. \A p \in DOMAIN place : Leads(alias', p, place[p])
    <3>1. r[1] = Append(parent, f)
      BY <1>3
    <3> QED BY <1>2, <1>5, <3>1, PlaceKept DEF Redirects
  <2>7. (\A p \in DOMAIN place : Leads(alias, p, place[p]))'
    <3>1. \A p \in DOMAIN place' : Leads(alias', p, place'[p])
      BY <2>1, <2>6 DEF runVars
    <3> QED BY <3>1 DEF Leads
  <2>8. \A l : ~ IsBelow(<<parent, l>>[1], r[1])
    BY <1>2, <1>3, AppendPoints DEF IsBelow
  <2>9. \A l \in DOMAIN resolved :
          /\ <<parent, l>> \in DOMAIN alias'
          /\ alias'[<<parent, l>>] = IF Now(resolved[l]) = r[1] THEN r[2] ELSE Now(resolved[l])
    BY <1>1, <1>5, <2>8 DEF Held, InMemory, Redirects
  <2>10. \A q, s \in redirects : (q[1] = s[1] => q = s) /\ q[1] # s[2]
    BY DEF Held, InMemory
  <2>11. ASSUME NEW id
         PROVE  Now(id)' = IF Now(id) = r[1] THEN r[2] ELSE Now(id)
    <3> DEFINE done == redirects \ left
    <3>1. redirects' \ left' = done \cup {r} /\ r \notin done /\ done \subseteq redirects
      BY <1>1, <1>8
    <3>2. CASE \E q \in done : q[1] = id
      <4>1. PICK q \in done : q[1] = id
        BY <3>2
      <4>2. (CHOOSE s \in done : s[1] = id) = q
        BY <2>10, <3>1, <4>1
      <4>3. (CHOOSE s \in done \cup {r} : s[1] = id) = q
        BY <1>1, <2>10, <3>1, <4>1
      <4>4. q[2] # r[1]
        BY <1>1, <2>10, <3>1
      <4>5. Now(id) = q[2]
        BY <3>2, <4>2 DEF Now
      <4>6. Now(id)' = q[2]
        BY <3>1, <4>1, <4>3 DEF Now
      <4> QED BY <4>4, <4>5, <4>6
    <3>3. CASE ~ \E q \in done : q[1] = id
      <4>1. Now(id) = id
        BY <3>3 DEF Now
      <4>2. CASE id = r[1]
        <5>1. (CHOOSE s \in done \cup {r} : s[1] = id) = r
          BY <3>3, <4>2
        <5> QED BY <3>1, <4>1, <4>2, <5>1 DEF Now
      <4>3. CASE id # r[1]
        <5>1. ~ \E q \in done \cup {r} : q[1] = id
          BY <3>3, <4>3
        <5> QED BY <3>1, <4>1, <4>3, <5>1 DEF Now
      <4> QED BY <4>2, <4>3
    <3> QED BY <3>2, <3>3
  <2>12. \A l \in fresh \cup DOMAIN followers : <<parent, l>> \notin DOMAIN alias'
    <3>1. \A l \in fresh \cup DOMAIN followers : <<parent, l>> \notin DOMAIN alias
      BY <1>1 DEF Held, InMemory
    <3> QED BY <1>2, <1>5, <3>1 DEF Redirects
  <2>13. fresh \cap (DOMAIN resolved \cup DOMAIN followers) = {}
    BY <1>1 DEF Held, InMemory
  <2>14. InMemory'
    BY <2>1, <2>7, <2>9, <2>10, <2>11, <2>12, <2>13 DEF InMemory
  <2> QED BY <1>6, <2>2, <2>3, <2>4, <2>5, <2>14 DEF Held
<1> QED BY <1>4, <1>7, <1>8

LEMMA RedirectedUnder ==
  ASSUME Held, NEW id \in Under(parent)
  PROVE  Redirected(id) \in Under(parent)
<1>1. CASE \E r \in redirects : r[1] = id
  <2>1. (CHOOSE r \in redirects : r[1] = id) \in redirects
    BY <1>1
  <2>2. \A r \in redirects : r[2] \in Under(parent)
    BY DEF Held, Shape, Under
  <2> QED BY <1>1, <2>1, <2>2 DEF Redirected
<1>2. CASE ~ \E r \in redirects : r[1] = id
  BY <1>2 DEF Redirected
<1> QED BY <1>1, <1>2

LEMMA SettleHeld ==
  ASSUME Stored, Held, Settle
  PROVE  Stored' /\ Held' /\ \A k \in DOMAIN alias : k \in DOMAIN alias' /\ alias'[k] = alias[k]
<1> DEFINE kept == known \ {r[1] : r \in redirects}
           idOf == [l \in DOMAIN ids |-> Redirected(ids[l])]
           chosen == [l \in DOMAIN mapping |->
                        IF mapping[l] \in DOMAIN idOf THEN idOf[mapping[l]]
                        ELSE Append(parent, mapping[l])]
           new == [k \in {parent} \X DOMAIN mapping |-> chosen[k[2]]]
           old == [l \in DOMAIN resolved |-> Redirected(resolved[l])]
           named == [m \in {mapping[l] : l \in DOMAIN mapping} |-> Append(parent, m)]
           settled == /\ known' = kept \cup {chosen[l] : l \in DOMAIN mapping}
                      /\ ids' = Over(idOf, named)
                      /\ resolved' = Over(chosen, old)
                      /\ fresh' = fresh \ DOMAIN mapping
                      /\ mapping' = None /\ redirects' = {}
                      /\ pc' = IF fresh' = {} THEN "close" ELSE "ask"
                      /\ UNCHANGED <<runVars, parent, followers, left>>
<1>1. pc = "settle" /\ UNCHANGED dataVars
  BY DEF Settle
<1>2. Upsert(new, settled)
  BY DEF Settle
<1>3. \/ alias' = Over(new, alias) /\ settled /\ UNCHANGED faults
      \/ \E K \in SUBSET DOMAIN new : alias' = Over([k \in K |-> new[k]], alias) /\ EndRun /\ Fault
  BY <1>2 DEF Upsert
<1>4. /\ parent \in Ids /\ DOMAIN mapping \subseteq fresh /\ fresh \subseteq Labels
      /\ left = {} /\ InBucket
      /\ \A l \in DOMAIN mapping : mapping[l] \in Labels
      /\ DOMAIN ids \subseteq Labels /\ DOMAIN resolved \subseteq Labels
      /\ \A l \in fresh \cup DOMAIN followers : <<parent, l>> \notin DOMAIN alias
  BY <1>1 DEF Held, BucketOK, Shape, InMemory, InBucket
<1>5. /\ DOMAIN idOf = DOMAIN ids
      /\ \A l \in DOMAIN ids : idOf[l] \in Under(parent)
  BY RedirectedUnder DEF Held, Shape
<1>6. \A l \in DOMAIN resolved : Redirected(resolved[l]) \in Under(parent)
  BY RedirectedUnder DEF Held, Shape
<1> HIDE DEF idOf
<1>7. /\ DOMAIN chosen = DOMAIN mapping
      /\ \A l \in DOMAIN mapping : chosen[l] \in Under(parent)
  BY <1>4, <1>5 DEF Under
<1> HIDE DEF chosen
<1>8. /\ DOMAIN new = {parent} \X DOMAIN mapping
      /\ \A l \in DOMAIN mapping : new[<<parent, l>>] = chosen[l]
      /\ DOMAIN new \subseteq Ids \X Labels
      /\ \A k \in DOMAIN new : k \notin DOMAIN alias /\ new[k] \in Under(k[1])
  BY <1>4, <1>7
<1>9. /\ DOMAIN old = DOMAIN resolved
      /\ \A l \in DOMAIN resolved : old[l] = Redirected(resolved[l]) /\ old[l] \in Under(parent)
  BY <1>6
<1>10. /\ DOMAIN named \subseteq Labels
       /\ \A l \in DOMAIN named : named[l] \in Under(parent)
  BY <1>4 DEF Under
<1> HIDE DEF new, old, named
<1>11. Adds(new)
  BY <1>3, OverAdds
<1>12. \A k \in DOMAIN alias : k \in DOMAIN alias' /\ alias'[k] = alias[k]
  BY <1>8, <1>11 DEF Adds
<1>13. Stored'
  BY <1>1, <1>3, <1>8, <1>11, AddsRooted, DocsStay DEF Stored
<1>14. ASSUME EndRun PROVE Held'
  BY <1>14, EndRunHeld
<1>15. ASSUME alias' = Over(new, alias), settled PROVE Held'
  <2>1. /\ pc' \in {"ask", "close"} /\ parent' = parent
        /\ fresh' = fresh \ DOMAIN mapping /\ (pc' = "close" => fresh' = {})
        /\ UNCHANGED runVars /\ followers' = followers /\ left' = {}
        /\ DOMAIN mapping' = {} /\ redirects' = {}
    BY <1>4, <1>15, NoneEmpty
  <2>2. known' \subseteq Under(parent)
    BY <1>7, <1>15 DEF Held, Shape
  <2>3. /\ DOMAIN ids' \subseteq Labels
        /\ \A l \in DOMAIN ids' : ids'[l] \in Under(parent)
    BY <1>4, <1>5, <1>10, <1>15 DEF Over
  <2>4. /\ DOMAIN resolved' = DOMAIN mapping \cup DOMAIN resolved
        /\ \A l \in DOMAIN mapping : resolved'[l] = chosen[l]
        /\ \A l \in DOMAIN resolved \ DOMAIN mapping : resolved'[l] = Redirected(resolved[l])
    BY <1>7, <1>9, <1>15 DEF Over
  <2>5. \A l \in DOMAIN resolved' : resolved'[l] \in Under(parent)
    BY <1>6, <1>7, <2>4
  <2>6. /\ DOMAIN alias' = ({parent} \X DOMAIN mapping) \cup DOMAIN alias
        /\ \A l \in DOMAIN mapping : alias'[<<parent, l>>] = chosen[l]
    BY <1>8, <1>15 DEF Over
  <2> HIDE DEF settled
  <2>7. PlaceOK' /\ Levels' /\ pc' \in Steps
    BY <2>1, LevelStays DEF Steps
  <2>8. BucketOK'
    <3>1. Under(parent) \subseteq Ids
      BY <1>4, LastUnder
    <3>2. followers' = followers /\ DOMAIN followers \subseteq Labels
      BY <2>1 DEF Held, BucketOK
    <3> QED BY <1>4, <2>1, <2>2, <2>3, <2>4, <3>1, <3>2 DEF BucketOK
  <2>9. Shape'
    <3>1. Under(parent)' = Under(parent)
      BY <2>1 DEF Under
    <3> QED BY <2>1, <2>2, <2>3, <2>5, <3>1 DEF Shape
  <2>10. Coverage'
    <3>1. Bucket(parent)' = Bucket(parent)
      BY <2>1 DEF Bucket, runVars
    <3>2. /\ parent \in todo
          /\ Bucket(parent) = DOMAIN resolved \cup DOMAIN followers \cup fresh
          /\ \A l \in DOMAIN followers : followers[l] \in DOMAIN resolved \cup fresh
      BY <1>4 DEF Held, Coverage
    <3>3. DOMAIN resolved' \cup fresh' = DOMAIN resolved \cup fresh
      BY <1>4, <2>1, <2>4
    <3>4. Bucket(parent)' = DOMAIN resolved' \cup DOMAIN followers' \cup fresh'
      BY <2>1, <3>1, <3>2, <3>3
    <3> QED BY <2>1, <3>2, <3>3, <3>4 DEF Coverage, runVars
  <2>11. InMemory'
    <3>1. (\A q \in DOMAIN place : Leads(alias, q, place[q]))'
      BY <1>12, <2>1, PlaceStays DEF Held, InMemory, runVars
    <3>2. \A id : (Now(id))' = id
      BY <2>1 DEF Now
    <3>3. \A id : Now(id) = Redirected(id)
      BY <1>4 DEF Now, Redirected
    <3>4. \A l \in DOMAIN resolved :
            <<parent, l>> \in DOMAIN alias /\ alias[<<parent, l>>] = Redirected(resolved[l])
      BY <1>4, <3>3 DEF Held, InMemory
    <3>5. \A l \in DOMAIN resolved' :
            <<parent, l>> \in DOMAIN alias' /\ alias'[<<parent, l>>] = resolved'[l]
      BY <1>12, <2>4, <2>6, <3>4
    <3>6. fresh \cap (DOMAIN resolved \cup DOMAIN followers) = {}
      BY <1>4 DEF Held, InMemory
    <3>7. fresh' \cap (DOMAIN resolved' \cup DOMAIN followers') = {}
      BY <2>1, <2>4, <3>6
    <3>8. \A l \in fresh' \cup DOMAIN followers' :
            l \in fresh \cup DOMAIN followers /\ l \notin DOMAIN mapping
      BY <1>4, <2>1, <3>6
    <3>9. \A l \in fresh' \cup DOMAIN followers' : <<parent, l>> \notin DOMAIN alias'
      BY <1>4, <2>6, <3>8
    <3> QED BY <2>1, <3>1, <3>2, <3>5, <3>7, <3>9 DEF InMemory
  <2> QED BY <2>7, <2>8, <2>9, <2>10, <2>11 DEF Held
<1> QED BY <1>3, <1>12, <1>13, <1>14, <1>15

\* The alias of the next label takes a path one label on.
LEMMA LeadsFurther ==
  ASSUME NEW a, NEW p \in Ids, NEW x \in Ids, NEW l \in Labels, Leads(a, p, x),
         Len(x) < Len(p), <<x, p[Len(x) + 1]>> \in DOMAIN a,
         a[<<x, p[Len(x) + 1]>>] = Append(x, l)
  PROVE  Leads(a, p, Append(x, l))
<1> DEFINE y == Append(x, l)
<1>1. Len(x) \in Nat /\ Len(p) \in Nat /\ y \in Ids /\ Len(y) = Len(x) + 1
      /\ \A i \in 1..Len(x) : y[i] = x[i]
  BY AppendPoints, LenNat
<1> HIDE DEF y
<1>2. \A m \in 0..Len(x) : SubSeq(y, 1, m) = SubSeq(x, 1, m)
  <2> TAKE m \in 0..Len(x)
  <2>1. m \in 0..Len(y) /\ m \in Nat /\ 1..m \subseteq 1..Len(x)
    BY <1>1
  <2>2. /\ SubSeq(x, 1, m) \in Ids /\ Len(SubSeq(x, 1, m)) = m
        /\ \A i \in 1..m : SubSeq(x, 1, m)[i] = x[i]
    BY PrefixPoints
  <2>3. /\ SubSeq(y, 1, m) \in Ids /\ Len(SubSeq(y, 1, m)) = m
        /\ \A i \in 1..m : SubSeq(y, 1, m)[i] = y[i]
    BY <1>1, <2>1, PrefixPoints
  <2>4. \A i \in 1..m : SubSeq(y, 1, m)[i] = SubSeq(x, 1, m)[i]
    BY <1>1, <2>1, <2>2, <2>3
  <2> QED BY <2>2, <2>3, <2>4, SameId
<1>3. SubSeq(y, 1, Len(x) + 1) = y /\ SubSeq(x, 1, Len(x)) = x
  BY <1>1, WholePrefix
<1>4. ASSUME NEW m \in 1..Len(y)
      PROVE  LET key == <<SubSeq(y, 1, m - 1), p[m]>>
             IN  key \in DOMAIN a /\ a[key] = SubSeq(y, 1, m)
  <2>1. CASE m = Len(x) + 1
    <3>1. m - 1 = Len(x) /\ Len(x) \in 0..Len(x)
      BY <1>1, <2>1
    <3>2. SubSeq(y, 1, m - 1) = x /\ SubSeq(y, 1, m) = y
      BY <1>2, <1>3, <2>1, <3>1
    <3> QED BY <2>1, <3>2 DEF y
  <2>2. CASE m # Len(x) + 1
    <3>1. m \in 1..Len(x) /\ m - 1 \in 0..Len(x) /\ m \in 0..Len(x)
      BY <1>1, <2>2
    <3>2. SubSeq(y, 1, m - 1) = SubSeq(x, 1, m - 1) /\ SubSeq(y, 1, m) = SubSeq(x, 1, m)
      BY <1>2, <3>1
    <3> QED BY <3>1, <3>2 DEF Leads
  <2> QED BY <2>1, <2>2
<1>5. Len(y) <= Len(p)
  BY <1>1
<1> QED BY <1>4, <1>5 DEF Leads, y

LEMMA CloseBucketHeld ==
  ASSUME Stored, Held, CloseBucket
  PROVE  Stored' /\ Held' /\ \A k \in DOMAIN alias : k \in DOMAIN alias' /\ alias'[k] = alias[k]
<1> DEFINE led == [l \in DOMAIN followers |-> resolved[followers[l]]]
           all == Over(led, resolved)
           at == [p \in DOMAIN place |->
                    IF Len(p) >= level /\ place[p] = parent THEN all[p[level]] ELSE place[p]]
           new == [k \in {parent} \X DOMAIN led |-> led[k[2]]]
           closed == /\ IF todo = {parent} THEN BeginLevel(at, level + 1)
                        ELSE /\ place' = at /\ todo' = todo \ {parent} /\ pc' = "level"
                             /\ UNCHANGED level
                     /\ ForgetBucket
                     /\ UNCHANGED seen
<1>1. pc = "close" /\ UNCHANGED dataVars /\ InBucket
  BY DEF CloseBucket, InBucket
<1>2. Upsert(new, closed)
  BY DEF CloseBucket
<1>3. \/ alias' = Over(new, alias) /\ closed /\ UNCHANGED faults
      \/ \E K \in SUBSET DOMAIN new : alias' = Over([k \in K |-> new[k]], alias) /\ EndRun /\ Fault
  BY <1>2 DEF Upsert
<1>4. /\ parent \in todo /\ parent \in Ids /\ fresh = {} /\ redirects = {}
      /\ level \in Nat /\ Len(parent) \in Nat /\ Len(parent) + 1 = level
      /\ DOMAIN followers \subseteq Labels /\ DOMAIN resolved \subseteq Labels
      /\ Bucket(parent) = DOMAIN resolved \cup DOMAIN followers
      /\ \A l \in DOMAIN followers : followers[l] \in DOMAIN resolved
      /\ \A l \in DOMAIN resolved : resolved[l] \in Under(parent)
      /\ \A l \in DOMAIN followers : <<parent, l>> \notin DOMAIN alias
  BY <1>1, LenNat DEF Held, Coverage, BucketOK, PlaceOK, Levels, Shape, InMemory
<1>5. \A l \in DOMAIN resolved :
        <<parent, l>> \in DOMAIN alias /\ alias[<<parent, l>>] = resolved[l]
  <2>1. \A id : Now(id) = id
    BY <1>4 DEF Now
  <2> QED BY <1>1, <2>1 DEF Held, InMemory
<1>6. /\ DOMAIN led = DOMAIN followers
      /\ \A l \in DOMAIN followers : led[l] \in Under(parent)
  BY <1>4
<1>7. /\ DOMAIN all = Bucket(parent)
      /\ \A l \in Bucket(parent) : all[l] \in Under(parent)
      /\ \A l \in DOMAIN followers : all[l] = led[l]
      /\ \A l \in Bucket(parent) \ DOMAIN followers : l \in DOMAIN resolved /\ all[l] = resolved[l]
  BY <1>4, <1>6 DEF Over
<1>8. /\ DOMAIN new = {parent} \X DOMAIN followers
      /\ \A l \in DOMAIN followers : new[<<parent, l>>] = led[l]
      /\ DOMAIN new \subseteq Ids \X Labels
      /\ \A k \in DOMAIN new : k \notin DOMAIN alias /\ new[k] \in Under(k[1])
  BY <1>4, <1>6
<1>9. /\ DOMAIN at = DOMAIN place
      /\ \A p \in DOMAIN place : Len(p) >= level /\ place[p] = parent => at[p] = all[p[level]]
      /\ \A p \in DOMAIN place : ~ (Len(p) >= level /\ place[p] = parent) => at[p] = place[p]
  OBVIOUS
<1> HIDE DEF led, all, at, new
<1>10. Adds(new)
  BY <1>3, OverAdds
<1>11. \A k \in DOMAIN alias : k \in DOMAIN alias' /\ alias'[k] = alias[k]
  BY <1>8, <1>10 DEF Adds
<1>12. Stored'
  BY <1>1, <1>3, <1>8, <1>10, AddsRooted, DocsStay DEF Stored
<1>13. ASSUME EndRun PROVE Held'
  BY <1>13, EndRunHeld
<1>14. ASSUME alias' = Over(new, alias), closed PROVE Held'
  <2>1. ForgetBucket /\ seen' = seen
    BY <1>14
  <2>2. BucketOK' /\ Shape'
    BY <2>1, ForgetBucketHeld
  <2>3. \A l \in DOMAIN followers : <<parent, l>> \in DOMAIN alias' /\ alias'[<<parent, l>>] = led[l]
    BY <1>8, <1>14 DEF Over
  <2>4. \A l \in Bucket(parent) : <<parent, l>> \in DOMAIN alias' /\ alias'[<<parent, l>>] = all[l]
    BY <1>5, <1>7, <1>11, <2>3
  \* The paths of the bucket go one label on, ...
  <2>5. ASSUME NEW p \in DOMAIN place, Len(p) >= level, place[p] = parent
        PROVE  /\ at[p] \in Ids /\ Len(at[p]) = level /\ Leads(alias', p, at[p])
               /\ SubSeq(at[p], 1, level - 1) = parent
    <3>1. p \in Ids /\ Len(p) \in Nat /\ p[level] \in Bucket(parent)
      BY <2>5, PathsAreLong DEF Held, PlaceOK, Bucket
    <3>2. PICK m \in Labels : at[p] = Append(parent, m)
      BY <1>7, <1>9, <2>5, <3>1 DEF Under
    <3>3. at[p] = all[p[level]] /\ level - 1 = Len(parent)
      BY <1>4, <1>9, <2>5
    <3>4. Leads(alias', p, parent)
      BY <1>11, <2>5, LeadsOn DEF Held, InMemory
    <3>5. <<parent, p[Len(parent) + 1]>> \in DOMAIN alias'
          /\ alias'[<<parent, p[Len(parent) + 1]>>] = Append(parent, m)
      BY <1>4, <2>4, <3>1, <3>2, <3>3
    <3>6. Len(parent) < Len(p)
      BY <1>4, <2>5, <3>1
    <3>7. Leads(alias', p, Append(parent, m))
      BY <1>4, <3>1, <3>4, <3>5, <3>6, LeadsFurther
    <3>8. /\ Append(parent, m) \in Ids /\ Len(Append(parent, m)) = level
          /\ SubSeq(Append(parent, m), 1, level - 1) = parent
      BY <1>4, <3>3, AppendPoints, AppendPrefix
    <3> QED BY <3>2, <3>7, <3>8
  \* ... and the others stay where they are.
  <2>6. ASSUME NEW p \in DOMAIN place, ~ (Len(p) >= level /\ place[p] = parent)
        PROVE  at[p] = place[p] /\ at[p] \in Ids /\ Leads(alias', p, at[p])
    <3>1. at[p] = place[p] /\ Leads(alias, p, place[p]) /\ place[p] \in Ids
      BY <1>9, <2>6 DEF Held, InMemory, PlaceOK
    <3> QED BY <1>11, <3>1, LeadsOn
  <2>7. CASE todo = {parent}
    <3>1. BeginLevel(at, level + 1) /\ level + 1 \in Nat
      BY <1>4, <1>14, <2>7
    <3>2. ASSUME NEW p \in DOMAIN at
          PROVE  /\ at[p] \in Ids
                 /\ \/ Len(p) < level + 1 /\ Len(at[p]) = Len(p)
                    \/ Len(p) >= level + 1 /\ Len(at[p]) + 1 = level + 1
      <4>1. p \in DOMAIN place /\ Len(p) \in Nat
        BY <1>9, PathsAreLong DEF Held, PlaceOK
      <4>2. CASE Len(p) >= level /\ place[p] = parent
        BY <1>4, <2>5, <4>1, <4>2
      <4>3. CASE ~ (Len(p) >= level /\ place[p] = parent)
        <5>1. \/ Len(p) < level /\ Len(place[p]) = Len(p)
              \/ Len(p) >= level /\ Len(place[p]) = level
          BY <2>7, <4>1, <4>3 DEF Held, Levels
        <5> QED BY <1>4, <2>6, <4>1, <4>3, <5>1
      <4> QED BY <4>2, <4>3
    <3>3. /\ DOMAIN at \subseteq Paths /\ DOMAIN seen' \subseteq Docs
          /\ \A d \in DOMAIN seen' : seen'[d] \in Groupings /\ seen'[d] \subseteq DOMAIN at
      BY <1>9, <2>1 DEF Held, PlaceOK, Levels
    <3>4. PlaceOK' /\ Levels' /\ place' = at /\ pc' \in {"level", "mark"}
      BY <3>1, <3>2, <3>3, BeginLevelHeld
    <3>5. (\A p \in DOMAIN place : Leads(alias, p, place[p]))'
      <4>1. \A p \in DOMAIN place' : Leads(alias', p, place'[p])
        BY <1>9, <2>5, <2>6, <3>4
      <4> QED BY <4>1 DEF Leads
    <3> QED BY <2>2, <3>4, <3>5, NoBucketHeld
  <2>8. CASE todo # {parent}
    <3>1. place' = at /\ todo' = todo \ {parent} /\ pc' = "level" /\ level' = level
      BY <1>14, <2>8
    <3>2. PlaceOK'
      BY <1>9, <2>1, <2>5, <2>6, <3>1 DEF Held, PlaceOK
    <3>3. ASSUME NEW p \in DOMAIN place
          PROVE  \/ Len(p) < level /\ Len(at[p]) = Len(p)
                 \/ Len(p) >= level /\ at[p] \in todo'
                 \/ /\ Len(p) >= level /\ Len(at[p]) = level
                    /\ SubSeq(at[p], 1, level - 1) \notin todo'
      <4>1. CASE Len(p) >= level /\ place[p] = parent
        BY <2>5, <3>1, <4>1
      <4>2. CASE ~ (Len(p) >= level /\ place[p] = parent)
        <5>1. at[p] = place[p]
          BY <2>6, <4>2
        <5> QED BY <3>1, <4>2, <5>1 DEF Held, Levels
      <4> QED BY <4>1, <4>2
    <3>4. Levels'
      BY <1>9, <2>1, <3>1, <3>3 DEF Held, Levels
    <3>5. (\A p \in DOMAIN place : Leads(alias, p, place[p]))'
      <4>1. \A p \in DOMAIN place' : Leads(alias', p, place'[p])
        BY <1>9, <2>5, <2>6, <3>1
      <4> QED BY <4>1 DEF Leads
    <3> QED BY <2>2, <3>1, <3>2, <3>4, <3>5, NoBucketHeld
  <2> QED BY <2>7, <2>8
<1> QED BY <1>3, <1>11, <1>12, <1>13, <1>14

LEMMA MarkHeld ==
  ASSUME Stored, Held, Mark
  PROVE  Stored' /\ Held'
<1>1. EndRun /\ alias' = alias /\ saving' = saving /\ saves' = saves /\ faults' = faults
  BY DEF Mark
<1>2. docs' = [d \in DOMAIN docs |->
                IF d \in DOMAIN seen /\ ~ docs[d].late
                THEN [docs[d] EXCEPT !.merged = seen[d]] ELSE docs[d]]
  BY DEF Mark
<1>3. ASSUME NEW d \in DOMAIN docs'
      PROVE  d \in DOMAIN docs /\ docs'[d] \in Documents
  <2>1. d \in DOMAIN docs
    BY <1>2
  <2>2. CASE d \in DOMAIN seen /\ ~ docs[d].late
    BY <1>2, <2>1, <2>2 DEF Stored, DocsOK, Documents, Held, PlaceOK
  <2>3. CASE ~ (d \in DOMAIN seen /\ ~ docs[d].late)
    BY <1>2, <2>1, <2>3 DEF Stored, DocsOK
  <2> QED BY <2>1, <2>2, <2>3
<1> QED BY <1>1, <1>3, EndRunHeld DEF Stored, DocsOK, AliasOK, WellRooted

LEMMA InvStep == MInv /\ [Next]_vars => MInv'
<1> SUFFICES ASSUME MInv, [Next]_vars PROVE MInv'
  OBVIOUS
<1>0. (MInv <=> Stored /\ Held)'
  BY InvParts, PTL
<1>1. Stored /\ Held
  BY InvParts
<1>2. ASSUME alias' = alias, DocsOK' PROVE Stored'
  BY <1>1, <1>2 DEF Stored, AliasOK, WellRooted
<1>3. CASE Start
  <2>1. DocsOK'
    <3>1. /\ docs' = [d \in DOMAIN docs |-> [docs[d] EXCEPT !.late = FALSE]]
          /\ saving' = {[s EXCEPT !.late = FALSE] : s \in saving}
          /\ faults' = faults /\ saves' = saves
      BY <1>3 DEF Start
    <3>2. \A d \in DOMAIN docs' :
            d \in DOMAIN docs /\ docs'[d] \in Documents
      BY <1>1, <3>1 DEF Stored, DocsOK, Documents
    <3>3. saving' \subseteq [doc : Docs, paths : Groupings, late : BOOLEAN]
      BY <1>1, <3>1 DEF Stored, DocsOK
    <3> QED BY <1>1, <3>1, <3>2, <3>3 DEF Stored, DocsOK
  <2>2. alias' = alias
    BY <1>3 DEF Start
  <2> QED BY <1>0, <1>1, <1>2, <1>3, <2>1, <2>2, StartHeld
<1>4. CASE Collect
  <2>1. alias' = alias /\ UNCHANGED dataVars /\ UNCHANGED faults
    BY <1>4 DEF Collect
  <2>2. Stored'
    BY <1>1, <1>2, <2>1, DocsStay DEF Stored
  <2> QED BY <1>0, <1>1, <1>4, <2>2, CollectHeld
<1>5. CASE Ask
  <2>1. alias' = alias /\ UNCHANGED dataVars /\ UNCHANGED faults
    BY <1>5 DEF Ask
  <2>2. Stored'
    BY <1>1, <1>2, <2>1, DocsStay DEF Stored
  <2> QED BY <1>0, <1>1, <1>5, <2>2, AskHeld
<1>6. CASE Settle
  BY <1>0, <1>1, <1>6, SettleHeld
<1>7. CASE CloseBucket
  BY <1>0, <1>1, <1>7, CloseBucketHeld
<1>8. CASE Mark
  BY <1>0, <1>1, <1>8, MarkHeld
<1>9. CASE \E p \in todo : OpenBucket(p)
  BY <1>0, <1>1, <1>9, OpenBucketHeld
<1>10. CASE \E r \in left : Redirect(r)
  BY <1>0, <1>1, <1>10, RedirectHeld
<1>11. CASE Fail
  <2>1. alias' = alias /\ UNCHANGED dataVars /\ Fault /\ EndRun
    BY <1>11 DEF Fail
  <2>2. Stored'
    BY <1>1, <1>2, <2>1, DocsStay DEF Stored
  <2> QED BY <1>0, <2>1, <2>2, EndRunHeld
<1>12. ASSUME NEW d \in Docs, NEW paths \in Groupings, BeginSave(d, paths) PROVE MInv'
  <2>1. /\ alias' = alias /\ docs' = docs /\ faults' = faults
        /\ UNCHANGED <<pc, alias, runVars, bucketVars>>
    BY <1>12 DEF BeginSave
  <2>2. DocsOK'
    <3>1. saves' \in 0..MaxSaves
      BY <1>1, <1>12, LabelsAssumption DEF BeginSave, Stored, DocsOK
    <3>2. saving' \subseteq [doc : Docs, paths : Groupings, late : BOOLEAN]
      <4> DEFINE s == [doc |-> d, paths |-> paths, late |-> pc # "idle"]
      <4>1. saving' = saving \cup {s}
        BY <1>12 DEF BeginSave
      <4>2. (pc # "idle") \in BOOLEAN
        OBVIOUS
      <4>3. s \in [doc : Docs, paths : Groupings, late : BOOLEAN]
        BY <4>2
      <4> QED BY <1>1, <4>1, <4>3 DEF Stored, DocsOK
    <3> QED BY <1>1, <2>1, <3>1, <3>2 DEF Stored, DocsOK
  <2> QED BY <1>0, <1>1, <1>2, <2>1, <2>2, HeldStays
<1>13. ASSUME NEW s \in saving, EndSave(s) PROVE MInv'
  <2>1. /\ alias' = alias /\ faults' = faults /\ saves' = saves
        /\ saving' \subseteq saving
        /\ docs' = [d \in DOMAIN docs \cup {s.doc} |->
               IF d = s.doc THEN [paths |-> s.paths, late |-> s.late, merged |-> Unmarked]
               ELSE docs[d]]
        /\ UNCHANGED <<pc, alias, runVars, bucketVars>>
    BY <1>13 DEF EndSave
  <2>2. s.doc \in Docs /\ s.paths \in Groupings /\ s.late \in BOOLEAN
    BY <1>1 DEF Stored, DocsOK
  <2>3. \A d \in DOMAIN docs' :
          d \in Docs /\ docs'[d] \in Documents
    BY <1>1, <2>1, <2>2 DEF Stored, DocsOK, Documents
  <2>4. DocsOK'
    BY <1>1, <2>1, <2>3 DEF Stored, DocsOK
  <2> QED BY <1>0, <1>1, <1>2, <2>1, <2>4, HeldStays
<1>14. ASSUME NEW d \in Docs, DeleteDoc(d) PROVE MInv'
  <2>1. /\ alias' = alias /\ faults' = faults /\ saving' = saving
        /\ pc' = pc /\ place' = place /\ level' = level /\ todo' = todo
        /\ saves < MaxSaves /\ saves' = saves + 1
        /\ docs' = [e \in DOMAIN docs \ {d} |-> docs[e]]
        /\ seen' = [e \in DOMAIN seen \ {d} |-> seen[e]]
        /\ UNCHANGED bucketVars
    BY <1>14 DEF DeleteDoc
  <2>2. DocsOK'
    <3>1. saves' \in 0..MaxSaves
      BY <1>1, <2>1, LabelsAssumption DEF Stored, DocsOK
    <3>2. \A e \in DOMAIN docs' : e \in DOMAIN docs /\ docs'[e] = docs[e]
      BY <2>1
    <3> QED BY <1>1, <2>1, <3>1, <3>2 DEF Stored, DocsOK
  <2>3. \A e \in DOMAIN seen' : e \in DOMAIN seen /\ seen'[e] = seen[e]
    BY <2>1
  <2>4. PlaceOK' /\ Levels'
    BY <1>1, <2>1, <2>3 DEF Held, PlaceOK, Levels
  <2>5. BucketOK' /\ pc' \in Steps /\ Shape'
    BY <1>1, <2>1 DEF Held, BucketOK, Shape, Under, bucketVars
  <2>6. Coverage'
    BY <1>1, <2>1 DEF Held, Coverage, Bucket, InBucket, bucketVars
  <2>7. InMemory'
    <3>1. (\A p \in DOMAIN place : Leads(alias, p, place[p]))'
      BY <1>1, <2>1, PlaceStays DEF Held, InMemory
    <3>2. \A id : Now(id)' = Now(id)
      BY <2>1 DEF Now, bucketVars
    <3> QED BY <1>1, <2>1, <3>1, <3>2 DEF Held, InMemory, InBucket, bucketVars
  <2>8. Held'
    BY <2>4, <2>5, <2>6, <2>7 DEF Held
  <2> QED BY <1>0, <1>2, <2>1, <2>2, <2>8
<1>15. CASE UNCHANGED vars
  <2>1. /\ alias' = alias /\ docs' = docs /\ saving' = saving /\ faults' = faults
        /\ saves' = saves /\ UNCHANGED <<pc, alias, runVars, bucketVars>>
    BY <1>15 DEF vars, runVars, bucketVars
  <2>2. DocsOK'
    BY <1>1, <2>1 DEF Stored, DocsOK
  <2> QED BY <1>0, <1>1, <1>2, <2>1, <2>2, HeldStays
<1> QED BY <1>3, <1>4, <1>5, <1>6, <1>7, <1>8, <1>9, <1>10, <1>11, <1>12, <1>13, <1>14, <1>15
     DEF Next, Run

\* What a run holds and what it has written agree, in every reachable state.
LEMMA InvAlways == Spec => []MInv
<1> QED BY InvInit, InvStep, PTL DEF Spec

\* Every reachable state has its type: in particular every label of a bucket gets an
\* id, and the run's tables are those of the level and the bucket at hand.
THEOREM TypeCorrect == Spec => []TypeOK
<1>1. MInv => TypeOK
  BY DEF MInv, TInv
<1> QED BY <1>1, InvAlways, PTL

\* In every reachable state, half-way through a redirect or after a crash too, every
\* alias keeps an id that is one label below the id its document names as parent.
THEOREM AliasesRooted == Spec => []WellRooted
<1>1. MInv => WellRooted
  BY DEF MInv
<1> QED BY <1>1, InvAlways, PTL
-----------------------------------------------------------------------------
(* What is marked resolves, and goes on to resolve. *)

LEMMA LeadsResolves ==
  ASSUME NEW p \in Paths, NEW x \in Ids, Len(x) = Len(p), Leads(alias, p, x)
  PROVE  Resolves(p)
<1> DEFINE id == [m \in 1..Len(p) |-> SubSeq(x, 1, m)]
<1>1. Len(p) \in Nat
  BY PathsAreLong
<1>2. \A m \in 1..Len(p) :
        LET key == <<SubSeq(x, 1, m - 1), p[m]>>
        IN  key \in DOMAIN alias /\ alias[key] = SubSeq(x, 1, m)
  BY DEF Leads
<1>3. id \in [1..Len(p) -> {alias[k] : k \in DOMAIN alias}]
  BY <1>2
<1>4. SubSeq(x, 1, 0) = Root
  BY SubSeqEmpty DEF Root
<1>5. ASSUME NEW n \in 1..Len(p)
      PROVE  (IF n = 1 THEN Root ELSE id[n - 1]) = SubSeq(x, 1, n - 1)
  <2>1. CASE n = 1
    BY <1>4, <2>1
  <2>2. CASE n # 1
    <3>1. n - 1 \in 1..Len(p)
      BY <1>1, <2>2
    <3> QED BY <2>2, <3>1
  <2> QED BY <2>1, <2>2
<1>6. \A n \in 1..Len(p) :
        LET key == <<IF n = 1 THEN Root ELSE id[n - 1], p[n]>>
        IN  key \in DOMAIN alias /\ alias[key] = id[n]
  BY <1>2, <1>5
<1> QED BY <1>3, <1>6 DEF Resolves

\* What MarksResolved says of one document.
Marked(d) ==
  docs[d].merged = Unmarked /\ docs'[d].merged # Unmarked =>
    /\ \A p \in docs'[d].merged : Resolves(p)
    /\ docs[d].late => docs'[d].merged = docs[d].paths

\* A document is marked only when each path it was collected with resolves, and not for
\* what it had before when it was saved since the run began.
THEOREM MarksAreResolved == Spec => MarksResolved
<1>1. ASSUME MInv, [Next]_vars, NEW d \in DOMAIN docs \cap DOMAIN docs'
      PROVE  Marked(d)
  <2>1. /\ DocsOK /\ docs[d] \in Documents /\ PlaceOK /\ Levels /\ InMemory
    BY <1>1, InvParts DEF Stored, Held, DocsOK
  <2>2. CASE Mark
    <3>1. /\ pc = "mark"
          /\ docs' = [e \in DOMAIN docs |->
                       IF e \in DOMAIN seen /\ ~ docs[e].late
                       THEN [docs[e] EXCEPT !.merged = seen[e]] ELSE docs[e]]
      BY <2>2 DEF Mark
    <3>2. CASE d \in DOMAIN seen /\ ~ docs[d].late
      <4>1. ASSUME NEW p \in seen[d] PROVE Resolves(p)
        <5>1. p \in DOMAIN place /\ p \in Paths /\ place[p] \in Ids
          BY <2>1, <3>2 DEF Levels, PlaceOK
        <5>2. Len(p) < level /\ Len(p) \in Nat /\ level \in Nat
          BY <2>1, <3>1, <5>1, PathsAreLong DEF Levels, PlaceOK
        <5>3. Len(place[p]) = Len(p)
          BY <2>1, <5>1, <5>2 DEF Levels
        <5>4. Leads(alias, p, place[p])
          BY <2>1, <5>1 DEF InMemory
        <5> QED BY <5>1, <5>3, <5>4, LeadsResolves
      <4>2. docs'[d].merged = seen[d]
        BY <2>1, <3>1, <3>2 DEF Documents
      <4> QED BY <3>2, <4>1, <4>2 DEF Marked
    <3>3. CASE ~ (d \in DOMAIN seen /\ ~ docs[d].late)
      BY <3>1, <3>3 DEF Marked
    <3> QED BY <3>2, <3>3
  <2>3. CASE Start
    <3>1. docs'[d] = [docs[d] EXCEPT !.late = FALSE]
      BY <2>3 DEF Start
    <3>2. docs'[d].merged = docs[d].merged
      BY <2>1, <3>1 DEF Documents
    <3> QED BY <3>2 DEF Marked
  <2>4. ASSUME NEW s \in saving, EndSave(s) PROVE Marked(d)
    <3>1. docs'[d] = IF d = s.doc
                     THEN [paths |-> s.paths, late |-> s.late, merged |-> Unmarked]
                     ELSE docs[d]
      BY <2>4 DEF EndSave
    <3> QED BY <3>1 DEF Marked
  <2>5. ASSUME NEW e \in Docs, DeleteDoc(e) PROVE Marked(d)
    <3>1. docs'[d] = docs[d]
      BY <2>5 DEF DeleteDoc
    <3> QED BY <3>1 DEF Marked
  <2>6. ASSUME docs' = docs PROVE Marked(d)
    BY <2>6 DEF Marked
  <2>7. CASE Collect \/ Ask \/ Settle \/ CloseBucket \/ Fail
    <3>1. docs' = docs
      BY <2>7 DEF Collect, Ask, Settle, CloseBucket, Fail, dataVars
    <3> QED BY <2>6, <3>1
  <2>8. ASSUME NEW p \in todo, OpenBucket(p) PROVE Marked(d)
    BY <2>6, <2>8 DEF OpenBucket, dataVars
  <2>9. ASSUME NEW r \in left, Redirect(r) PROVE Marked(d)
    BY <2>6, <2>9 DEF Redirect, dataVars
  <2>10. ASSUME NEW e \in Docs, NEW paths \in Groupings, BeginSave(e, paths) PROVE Marked(d)
    BY <2>6, <2>10 DEF BeginSave
  <2>11. CASE UNCHANGED vars
    BY <2>6, <2>11 DEF vars
  <2> QED BY <1>1, <2>2, <2>3, <2>4, <2>5, <2>7, <2>8, <2>9, <2>10, <2>11 DEF Next, Run
<1>2. MInv /\ [Next]_vars =>
        [\A d \in DOMAIN docs \cap DOMAIN docs' :
           docs[d].merged = Unmarked /\ docs'[d].merged # Unmarked =>
             /\ \A p \in docs'[d].merged : Resolves(p)
             /\ docs[d].late => docs'[d].merged = docs[d].paths]_vars
  BY <1>1 DEF Marked
<1> QED BY <1>2, InvAlways, PTL DEF Spec, MarksResolved

\* What a path resolves to is not lost while aliases are only added.
LEMMA ResolvesOn ==
  ASSUME NEW p, Resolves(p),
         \A k \in DOMAIN alias : k \in DOMAIN alias' /\ alias'[k] = alias[k]
  PROVE  Resolves(p)'
<1>1. PICK id \in [1..Len(p) -> {alias[k] : k \in DOMAIN alias}] : \A n \in 1..Len(p) :
        LET key == <<IF n = 1 THEN Root ELSE id[n - 1], p[n]>>
        IN  key \in DOMAIN alias /\ alias[key] = id[n]
  BY DEF Resolves
<1>2. id \in [1..Len(p) -> {alias'[k] : k \in DOMAIN alias'}]
  OBVIOUS
<1>3. \A n \in 1..Len(p) :
        LET key == <<IF n = 1 THEN Root ELSE id[n - 1], p[n]>>
        IN  key \in DOMAIN alias' /\ alias'[key] = id[n]
  BY <1>1
<1> QED BY <1>2, <1>3 DEF Resolves

LEMMA BelowAppend ==
  ASSUME NEW x \in Ids, NEW l \in Labels, NEW from \in Ids, IsBelow(Append(x, l), from),
         Append(x, l) # from
  PROVE  IsBelow(x, from)
<1> DEFINE z == Append(x, l)
<1>1. Len(x) \in Nat /\ Len(from) \in Nat
  BY LenNat
<1>2. z \in Ids /\ Len(z) = Len(x) + 1 /\ \A i \in 1..Len(x) : z[i] = x[i]
  BY AppendPoints
<1> HIDE DEF z
<1>3. Len(z) >= Len(from) /\ \A i \in 1..Len(from) : z[i] = from[i]
  BY <1>2, BelowPoints DEF z
<1>4. Len(x) >= Len(from)
  <2> SUFFICES ASSUME Len(from) = Len(x) + 1 PROVE FALSE
    BY <1>1, <1>2, <1>3
  <2>1. z = from
    BY <1>2, <1>3, SameId
  <2> QED BY <2>1 DEF z
<1>5. \A i \in 1..Len(from) : x[i] = from[i]
  BY <1>1, <1>2, <1>3, <1>4
<1> QED BY <1>4, <1>5, BelowPoints

LEMMA RewriteSelf ==
  ASSUME NEW from \in Ids, NEW to \in Ids, Len(to) = Len(from)
  PROVE  Rewrite(from, from, to) = to
<1>1. Len(from) \in Nat /\ IsBelow(from, from)
  BY LenNat, BelowPoints
<1>2. /\ Rewrite(from, from, to) \in Ids /\ Len(Rewrite(from, from, to)) = Len(from)
      /\ \A i \in 1..Len(from) :
           Rewrite(from, from, to)[i] = IF i <= Len(from) THEN to[i] ELSE from[i]
  BY <1>1, RewritePoints
<1>3. \A i \in 1..Len(from) : Rewrite(from, from, to)[i] = to[i]
  BY <1>1, <1>2
<1> QED BY <1>2, <1>3, SameId

LEMMA RewriteLeaves ==
  ASSUME NEW x \in Ids, NEW from \in Ids, NEW to \in Ids, Len(to) = Len(from),
         IsBelow(x, from), to # from
  PROVE  ~ IsBelow(Rewrite(x, from, to), from)
<1> DEFINE y == Rewrite(x, from, to)
<1>1. Len(from) \in Nat /\ Len(x) \in Nat /\ Len(x) >= Len(from)
  BY LenNat, BelowPoints
<1>2. y \in Ids /\ Len(y) = Len(x)
      /\ \A i \in 1..Len(x) : y[i] = IF i <= Len(from) THEN to[i] ELSE x[i]
  BY RewritePoints
<1> HIDE DEF y
<1>3. PICK i \in 1..Len(from) : to[i] # from[i]
  BY SameId
<1>4. y[i] # from[i]
  BY <1>1, <1>2, <1>3
<1> QED BY <1>2, <1>4, BelowPoints DEF y

\* A redirect that does not split takes every alias along: the key and, if others are
\* below it, the value.
LEMMA RedirectTakes ==
  ASSUME AliasOK, WellRooted, NEW p \in Ids, NEW f \in Labels, NEW t \in Labels, f # t, NEW r,
         r = <<Append(p, f), Append(p, t)>>, ~ Splits(r),
         alias' = Move(Exact(alias, r), Movable(Exact(alias, r), r), r),
         NEW k \in DOMAIN alias
  PROVE  LET j == <<Rewrite(k[1], r[1], r[2]), k[2]>>
         IN  /\ j \in DOMAIN alias'
             /\ (\E i \in DOMAIN alias : i[1] = alias[k]) =>
                  alias'[j] = Rewrite(alias[k], r[1], r[2])
<1> DEFINE a == Exact(alias, r)
           K == Movable(a, r)
           from == Append(p, f)
           to == Append(p, t)
           j == <<Rewrite(k[1], from, to), k[2]>>
<1>1. /\ from \in Ids /\ to \in Ids /\ Len(p) \in Nat
      /\ Len(from) = Len(p) + 1 /\ Len(to) = Len(from) /\ from # to
  BY AppendPoints, AppendOnce, LenNat
<1>2. r[1] = from /\ r[2] = to /\ j = Moved(k, r)
  BY DEF Moved
<1>3. /\ DOMAIN a = DOMAIN alias
      /\ \A i \in DOMAIN alias : a[i] = IF alias[i] = from THEN to ELSE alias[i]
  BY <1>2 DEF Exact
<1>4. \A i \in DOMAIN alias : i \in Ids \X Labels /\ i[1] \in Ids /\ i[2] \in Labels
                              /\ i = <<i[1], i[2]>>
  BY DEF AliasOK
<1>5. MovedAs(a, alias', K, r)
  BY MovePoints
<1>6. Redirects(r, p)
  <2>1. K \in SUBSET Movable(Exact(alias, r), r) /\ alias' = Move(Exact(alias, r), K, r)
    OBVIOUS
  <2> QED BY <2>1, MoveFacts
<1>7. /\ \A i \in DOMAIN alias : ~ IsBelow(i[1], from) =>
           i \in DOMAIN alias' /\ alias'[i] = IF alias[i] = from THEN to ELSE alias[i]
  BY <1>2, <1>6 DEF Redirects
<1>8. PICK l \in Labels : alias[k] = Append(k[1], l)
  BY DEF WellRooted
<1>9. \A i \in DOMAIN alias :
        i \in K <=> IsBelow(i[1], from) /\ Moved(i, r) \notin DOMAIN alias
  BY <1>2, <1>3 DEF Movable
<1>10. \A i \in K : i \in DOMAIN alias
  BY <1>3 DEF Movable
<1>11. \A i \in DOMAIN alias : Moved(i, r) = <<Rewrite(i[1], from, to), i[2]>>
  BY <1>2 DEF Moved
<1>12. \A i \in DOMAIN alias : IsBelow(i[1], from) => a[i] = alias[i]
  <2> TAKE i \in DOMAIN alias
  <2> HAVE IsBelow(i[1], from)
  <2>1. PICK m \in Labels : alias[i] = Append(i[1], m)
    BY DEF WellRooted
  <2>2. Len(i[1]) \in Nat /\ Len(i[1]) >= Len(from) /\ Len(alias[i]) = Len(i[1]) + 1
    <3>1. i[1] \in Ids /\ Len(i[1]) \in Nat
      BY <1>4, LenNat
    <3>2. Len(i[1]) >= Len(from)
      BY <1>1, <3>1, BelowPoints
    <3> QED BY <2>1, <3>1, <3>2, AppendPoints
  <2>3. alias[i] # from
    BY <1>1, <2>2
  <2> QED BY <1>3, <2>3
<1>13. ~ \E i, m \in DOMAIN alias :
         /\ IsBelow(i[1], from) /\ Moved(i, r) \in DOMAIN alias
         /\ alias[Moved(i, r)] # Rewrite(alias[i], from, to) /\ m[1] = alias[i]
  BY <1>2 DEF Splits
<1>14. \A m \in {Moved(i, r) : i \in K} :
         \E i \in K : Moved(i, r) = m /\ alias'[m] = Rewrite(a[i], from, to)
  BY <1>2, <1>5 DEF MovedAs
<1>15. \A i \in K : Moved(i, r) \in DOMAIN alias'
  BY <1>5 DEF MovedAs
<1> HIDE DEF a, K, from, to, j
<1> SUFFICES /\ j \in DOMAIN alias'
             /\ (\E i \in DOMAIN alias : i[1] = alias[k]) => alias'[j] = Rewrite(alias[k], from, to)
  BY <1>2 DEF j
<1>16. CASE ~ IsBelow(k[1], from)
  <2>1. j = k
    BY <1>4, <1>16 DEF j, Rewrite
  <2>2. k \in DOMAIN alias' /\ alias'[k] = IF alias[k] = from THEN to ELSE alias[k]
    BY <1>7, <1>16
  <2>3. CASE alias[k] = from
    <3>1. Rewrite(alias[k], from, to) = to
      BY <1>1, <2>3, RewriteSelf
    <3> QED BY <2>1, <2>2, <2>3, <3>1
  <2>4. CASE alias[k] # from
    <3>1. ~ IsBelow(alias[k], from)
      BY <1>1, <1>4, <1>8, <1>16, <2>4, BelowAppend
    <3> QED BY <2>1, <2>2, <2>4, <3>1 DEF Rewrite
  <2> QED BY <2>3, <2>4
<1>17. CASE IsBelow(k[1], from) /\ j \notin DOMAIN alias
  <2>1. k \in K
    BY <1>2, <1>9, <1>17
  <2>2. PICK i \in K : Moved(i, r) = j /\ alias'[j] = Rewrite(a[i], from, to)
    BY <1>2, <1>14, <2>1
  <2>3. i \in DOMAIN alias /\ IsBelow(i[1], from) /\ i[1] \in Ids /\ i = <<i[1], i[2]>>
    BY <1>4, <1>9, <1>10
  <2>4. k[1] \in Ids /\ k = <<k[1], k[2]>>
    BY <1>4
  <2>5. Rewrite(i[1], from, to) = Rewrite(k[1], from, to) /\ i[2] = k[2]
    <3>1. <<Rewrite(i[1], from, to), i[2]>> = <<Rewrite(k[1], from, to), k[2]>>
      BY <1>11, <2>2, <2>3 DEF j
    <3> QED BY <3>1
  <2>6. i[1] = k[1]
    BY <1>1, <1>17, <2>3, <2>4, <2>5, RewriteOnce
  <2>7. i = k
    BY <2>3, <2>4, <2>5, <2>6
  <2>8. alias'[j] = Rewrite(alias[k], from, to)
    BY <1>12, <1>17, <2>2, <2>7
  <2> QED BY <1>2, <1>15, <2>1, <2>8
<1>18. CASE IsBelow(k[1], from) /\ j \in DOMAIN alias
  <2>1. j[1] = Rewrite(k[1], from, to)
    BY DEF j
  <2>2. ~ IsBelow(j[1], from)
    BY <1>1, <1>4, <1>18, <2>1, RewriteLeaves
  <2>3. Len(j[1]) = Len(k[1]) /\ j[1] \in Ids /\ Len(k[1]) \in Nat /\ Len(k[1]) >= Len(from)
    BY <1>1, <1>4, <1>18, <2>1, RewritePoints, BelowPoints, LenNat
  <2>4. PICK m \in Labels : alias[j] = Append(j[1], m)
    BY <1>18 DEF WellRooted
  <2>5. alias[j] # from
    BY <1>1, <2>3, <2>4, AppendPoints
  <2>6. j \in DOMAIN alias' /\ alias'[j] = alias[j]
    BY <1>7, <1>18, <2>2, <2>5
  <2>7. (\E i \in DOMAIN alias : i[1] = alias[k]) => alias[j] = Rewrite(alias[k], from, to)
    BY <1>2, <1>13, <1>18
  <2> QED BY <2>6, <2>7
<1> QED BY <1>16, <1>17, <1>18

\* So what a path resolved to goes on: its ids are rewritten, and the last one is the
\* one that is stored for the last label.
LEMMA RedirectResolves ==
  ASSUME AliasOK, WellRooted, NEW p \in Ids, NEW f \in Labels, NEW t \in Labels, f # t, NEW r,
         r = <<Append(p, f), Append(p, t)>>, ~ Splits(r),
         alias' = Move(Exact(alias, r), Movable(Exact(alias, r), r), r),
         NEW path \in Paths, Resolves(path)
  PROVE  Resolves(path)'
<1> DEFINE Re(x) == Rewrite(x, r[1], r[2])
           n == Len(path)
<1>1. PICK id \in [1..n -> {alias[k] : k \in DOMAIN alias}] : \A m \in 1..n :
        LET key == <<IF m = 1 THEN Root ELSE id[m - 1], path[m]>>
        IN  key \in DOMAIN alias /\ alias[key] = id[m]
  BY DEF Resolves
<1> DEFINE Before(m) == IF m = 1 THEN Root ELSE id[m - 1]
           new == [m \in 1..n |-> alias'[<<Re(Before(m)), path[m]>>]]
<1>2. n \in Nat /\ n >= 1
  BY PathsAreLong
<1>3. Re(Root) = Root
  <2>1. r[1] \in Ids /\ Len(r[1]) = Len(p) + 1 /\ Len(p) \in Nat
    BY AppendPoints, LenNat
  <2>2. ~ IsBelow(Root, r[1])
    BY <2>1, RootIsId DEF IsBelow
  <2> QED BY <2>2 DEF Rewrite
<1>4. ASSUME NEW k \in DOMAIN alias
      PROVE  /\ <<Re(k[1]), k[2]>> \in DOMAIN alias'
             /\ (\E i \in DOMAIN alias : i[1] = alias[k]) =>
                  alias'[<<Re(k[1]), k[2]>>] = Re(alias[k])
  BY RedirectTakes, ZenonT(40)
<1> HIDE DEF Re
<1>5. ASSUME NEW m \in 1..n
      PROVE  /\ <<Before(m), path[m]>> \in DOMAIN alias
             /\ alias[<<Before(m), path[m]>>] = id[m]
             /\ <<Re(Before(m)), path[m]>> \in DOMAIN alias'
             /\ new[m] = alias'[<<Re(Before(m)), path[m]>>]
  <2>1. <<Before(m), path[m]>> \in DOMAIN alias /\ alias[<<Before(m), path[m]>>] = id[m]
    BY <1>1
  <2> HIDE DEF Before
  <2> QED BY <1>4, <2>1
<1>6. ASSUME NEW m \in 1..n, m # n
      PROVE  new[m] = Re(id[m])
  <2>1. m + 1 \in 1..n /\ Before(m + 1) = id[m]
    BY <1>2, <1>6
  <2>2. <<id[m], path[m + 1]>> \in DOMAIN alias
    BY <1>5, <2>1
  <2>3. /\ <<Before(m), path[m]>> \in DOMAIN alias
        /\ alias[<<Before(m), path[m]>>] = id[m]
        /\ new[m] = alias'[<<Re(Before(m)), path[m]>>]
    BY <1>5
  <2>4. <<id[m], path[m + 1]>>[1] = id[m]
    OBVIOUS
  <2> HIDE DEF Before, new
  <2> QED BY <1>4, <2>2, <2>3, <2>4
<1>7. ASSUME NEW m \in 1..n
      PROVE  (IF m = 1 THEN Root ELSE new[m - 1]) = Re(Before(m))
  <2>1. CASE m = 1
    BY <1>3, <2>1
  <2>2. CASE m # 1
    <3>1. m - 1 \in 1..n /\ m - 1 # n
      BY <1>2, <2>2
    <3>2. new[m - 1] = Re(id[m - 1])
      BY <1>6, <3>1
    <3> QED BY <2>2, <3>2
  <2> QED BY <2>1, <2>2
<1>8. new \in [1..n -> {alias'[k] : k \in DOMAIN alias'}]
  <2>1. \A m \in 1..n : new[m] \in {alias'[k] : k \in DOMAIN alias'}
    BY <1>5
  <2> QED BY <2>1
<1> HIDE DEF new
<1>9. \A m \in 1..n :
        LET key == <<IF m = 1 THEN Root ELSE new[m - 1], path[m]>>
        IN  key \in DOMAIN alias' /\ alias'[key] = new[m]
  <2> TAKE m \in 1..n
  <2>1. (IF m = 1 THEN Root ELSE new[m - 1]) = Re(Before(m))
    BY <1>7
  <2> QED BY <1>5, <2>1
<1> QED BY <1>8, <1>9 DEF Resolves

\* What resolves goes on to do so whatever is merged, so what was marked need not be
\* merged again, unless the run fails or a redirect splits the labels below a label.
THEOREM MarksLast == Spec => StaysResolved
<1>1. ASSUME MInv, [Next]_vars, faults' = faults, \A r \in left \ left' : ~ Splits(r),
             NEW p \in Paths, Resolves(p)
      PROVE  Resolves(p)'
  <2>1. Stored /\ Held
    BY <1>1, InvParts
  <2>2. ASSUME \A k \in DOMAIN alias : k \in DOMAIN alias' /\ alias'[k] = alias[k]
        PROVE  Resolves(p)'
    BY <1>1, <2>2, ResolvesOn
  <2>3. CASE Start \/ Collect \/ Ask \/ Mark \/ Fail
    <3>1. alias' = alias
      BY <2>3 DEF Start, Collect, Ask, Mark, Fail
    <3> QED BY <2>2, <3>1
  <2>4. CASE Settle
    BY <2>1, <2>2, <2>4, SettleHeld
  <2>5. CASE CloseBucket
    BY <2>1, <2>2, <2>5, CloseBucketHeld
  <2>6. ASSUME NEW q \in todo, OpenBucket(q) PROVE Resolves(p)'
    BY <2>1, <2>2, <2>6, OpenBucketHeld
  <2>7. ASSUME NEW r \in left, Redirect(r) PROVE Resolves(p)'
    <3>1. ~ Fault
      BY <1>1, <2>1, LabelsAssumption DEF Fault, Stored, DocsOK
    <3>2. /\ alias' = Move(Exact(alias, r), Movable(Exact(alias, r), r), r)
          /\ left' = left \ {r}
      BY <2>7, <3>1 DEF Redirect
    <3>3. ~ Splits(r)
      BY <1>1, <3>2
    <3>4. parent \in Ids /\ r \in redirects
      BY <2>1 DEF Held, BucketOK
    <3>5. PICK f \in Labels, t \in Labels :
            f # t /\ r = <<Append(parent, f), Append(parent, t)>>
      BY <2>1, <3>4 DEF Held, Shape
    <3>6. AliasOK /\ WellRooted
      BY <2>1 DEF Stored
    <3> QED BY <1>1, <3>2, <3>3, <3>4, <3>5, <3>6, RedirectResolves
  <2>8. ASSUME NEW d \in Docs, NEW paths \in Groupings, BeginSave(d, paths)
        PROVE  Resolves(p)'
    BY <2>2, <2>8 DEF BeginSave
  <2>9. ASSUME NEW s \in saving, EndSave(s) PROVE Resolves(p)'
    BY <2>2, <2>9 DEF EndSave
  <2>10. ASSUME NEW d \in Docs, DeleteDoc(d) PROVE Resolves(p)'
    BY <2>2, <2>10 DEF DeleteDoc
  <2>11. CASE UNCHANGED vars
    BY <2>2, <2>11 DEF vars
  <2> QED BY <1>1, <2>3, <2>4, <2>5, <2>6, <2>7, <2>8, <2>9, <2>10, <2>11 DEF Next, Run
<1>2. MInv /\ [Next]_vars =>
        [faults' = faults /\ (\A r \in left \ left' : ~ Splits(r)) =>
           \A p \in Paths : Resolves(p) => Resolves(p)']_vars
  BY <1>1
<1> QED BY <1>2, InvAlways, PTL DEF Spec, StaysResolved
-----------------------------------------------------------------------------
(* The task. *)

\* What the task makes the workers do are runs of TopicMerge beside saves: all the
\* theorems above are about TaskSpec too.
THEOREM TaskRunsMerges == TaskSpec => Spec
<1>1. ASSUME TaskNext PROVE Next \/ UNCHANGED vars
  <2>1. CASE Enqueue \/ Claim \/ Finish \/ Delete
    BY <2>1 DEF Enqueue, Claim, Finish, Delete, Count
  <2>2. CASE RunStep \/ Stop
    BY <2>2 DEF RunStep, Stop, Next
  <2>3. CASE Save
    BY <2>3 DEF Save, Next
  <2> QED BY <1>1, <2>1, <2>2, <2>3 DEF TaskNext
<1>2. [TaskNext]_allVars => [Next]_vars
  BY <1>1 DEF allVars
<1> QED BY <1>2, PTL DEF TaskSpec, TaskInit, Spec

\* Every state of the task is well typed.
THEOREM TaskTypeCorrect == TaskSpec => []TaskTypeOK
<1>1. ASSUME TypeOK, TaskTypeOK, [TaskNext]_allVars PROVE TaskTypeOK'
  <2>1. CASE Enqueue \/ Claim \/ Finish \/ Delete
    BY <1>1, <2>1 DEF Enqueue, Claim, Finish, Delete, Count, TaskTypeOK
  <2>2. CASE RunStep \/ Stop
    BY <1>1, <2>2 DEF RunStep, Stop, GivenBack, TaskTypeOK
  <2>3. CASE Save
    <3>1. \A s \in saving : s.doc \in Docs
      BY <1>1 DEF TypeOK
    <3> QED BY <1>1, <2>3, <3>1 DEF Save, TaskTypeOK
  <2>4. CASE UNCHANGED allVars
    BY <1>1, <2>4 DEF allVars, TaskTypeOK
  <2> QED BY <1>1, <2>1, <2>2, <2>3, <2>4 DEF TaskNext
<1>2. TaskInit => TaskTypeOK
  BY DEF TaskInit, TaskTypeOK
<1> QED BY <1>1, <1>2, TaskRunsMerges, TypeCorrect, PTL DEF TaskSpec
=============================================================================
