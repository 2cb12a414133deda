---------------------------- MODULE MCBatchTask ----------------------------
EXTENDS BatchTask, TLC

CONSTANTS p1, p2, b1, b2, b3, b4, r1, r2, r3, r4, w1, w2

\* One worker, one trouble of each kind; a post without text; two workers.
MCScenes ==
  { [crew |-> {w1}, blank |-> {}, faults |-> 1, denials |-> 1, resumes |-> 2],
    [crew |-> {w1}, blank |-> {p2}, faults |-> 1, denials |-> 0, resumes |-> 1],
    [crew |-> {w1, w2}, blank |-> {}, faults |-> 0, denials |-> 0, resumes |-> 0] }

\* One worker, no trouble.
QuietScene ==
  {[crew |-> {w1}, blank |-> {}, faults |-> 0, denials |-> 0, resumes |-> 0]}
=============================================================================
