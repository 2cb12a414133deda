------------------------------- MODULE MCChat -------------------------------
EXTENDS Chat, TLC

CONSTANTS t1, t2, s1, s2

\* A conversation with one exchange, and one that is empty.
MCFirst == <<[messages |-> <<Question(1), AnswerTo(1)>>, title |-> "auto"],
             [messages |-> <<>>, title |-> "new"]>>

Symmetry == Permutations({s1, s2}) \cup Permutations({t1, t2})
=============================================================================
