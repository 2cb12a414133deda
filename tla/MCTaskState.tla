---------------------------- MODULE MCTaskState ----------------------------
EXTENDS TaskState, TLC

CONSTANTS d1, d2, kMerge, kMark, w1, w2, c1

\* Two ids of one task: it can be deleted and enqueued again.
OneTask == [i \in {d1, d2} |-> kMerge]

\* A merge task, which is enqueued by key, and a mark document, which is not.
TaskAndMark == (d1 :> kMerge) @@ (d2 :> kMark)

Symmetry == Permutations({w1, w2}) \cup Permutations({d1, d2})
WorkerSymmetry == Permutations({w1, w2})
=============================================================================
