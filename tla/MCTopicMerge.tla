---------------------------- MODULE MCTopicMerge ----------------------------
(* Instances of MergeTask, and with it TopicMerge, for TLC. *)
EXTENDS MergeTask

\* Four labels: 1 to 3 are unlike, 4 is another spelling of 3.
FourLabels == 1..4
Spellings == [l \in FourLabels |-> IF l = 4 THEN 3 ELSE l]

\* find_fuzzy_canonical takes 2 for nearly 1.
OneNear == {<<2, 1>>}

\* Topics with children of the same and of another label; a topic spelt in two
\* ways; an old topic and a new one; children in two topics and one below them.
Topics == {{<<1, 1>>, <<2, 1>>, <<2, 2>>}, {<<3>>, <<4>>}, {<<2, 2>>, <<3, 1>>},
           {<<2, 1, 1>>, <<1, 2>>, <<1, 1>>}}
=============================================================================
