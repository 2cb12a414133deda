---------------------------- MODULE MCTaskQueue ----------------------------
EXTENDS TaskQueue, TLC

CONSTANTS download, download2, tags, rank, ner, w1, w2, p1, p2, b1, n1

\* Two downloads (one per provider), the tags, one rank task, NER.
MCAfter == (download :> {tags}) @@ (download2 :> {tags}) @@ (tags :> {rank})
           @@ (rank :> {ner}) @@ (ner :> {})

MCTypeOf == (p1 :> tags) @@ (p2 :> tags) @@ (b1 :> rank) @@ (n1 :> ner)
MCBrings == (download :> {p1, p2, n1}) @@ (download2 :> {p1, p2})

\* One worker and one fault or two, in slow handlers; two workers and none; one
\* worker, a fault, a failing enqueue and a task that the user adds.
MCScenes ==
  { [crew |-> {w1}, items |-> Items, slow |-> TRUE,
     faults |-> 2, errors |-> 0, adds |-> 0],
    [crew |-> {w1, w2}, items |-> Items, slow |-> FALSE,
     faults |-> 0, errors |-> 0, adds |-> 0],
    [crew |-> {w1}, items |-> {p1, b1}, slow |-> TRUE,
     faults |-> 1, errors |-> 1, adds |-> 1] }

ASSUME ScenesAreOrderly == \A s \in Scenes : Orderly(s)
=============================================================================
