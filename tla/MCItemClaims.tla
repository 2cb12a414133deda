---------------------------- MODULE MCItemClaims ----------------------------
EXTENDS ItemClaims, TLC

CONSTANTS i1, i2, e1, e2, t1, t2, s1, s2, s3, s4, s5

TwoTokens == (e1 :> t1) @@ (e2 :> t2)

\* Two items and both kinds of worker; one item, external workers and clean-ups.
MCScenes ==
  { [items |-> {i1, i2}, inside |-> TRUE, faults |-> 2, cleanups |-> 0],
    [items |-> {i1}, inside |-> FALSE, faults |-> 2, cleanups |-> 2] }
=============================================================================
