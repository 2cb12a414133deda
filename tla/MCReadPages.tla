---------------------------- MODULE MCReadPages ----------------------------
EXTENDS ReadPages, TLC

CONSTANTS p1, p2, s1, s2, list, grouped, canvas, snippets, clusters, mindmap, hierarchy,
          topic, across, whole, again, other

MCNumbers == (p1 :> {1, 2}) @@ (p2 :> {1})
MCKind == (list :> "list") @@ (grouped :> "grouped") @@ (canvas :> "canvas")
          @@ (snippets :> "snippets") @@ (clusters :> "clusters") @@ (mindmap :> "mindmap") @@ (hierarchy :> "hierarchy")

\* A topic within a post, and one across the two.  Snippets are of one post: one has the
\* first sentence, two have both, and one is of the other post.
MCHas == (topic :> {<<p1, 1>>}) @@ (across :> {<<p1, 2>>, <<p2, 1>>})
         @@ (whole :> {<<p1, 1>>, <<p1, 2>>}) @@ (again :> {<<p1, 1>>, <<p1, 2>>})
         @@ (other :> {<<p2, 1>>})
MCOn == [g \in Pages |-> CASE g = grouped -> {topic, across}
                          [] g \in {snippets, clusters, mindmap} -> {topic, whole, again, other}
                          [] OTHER -> {}]

\* Each page alone, posts beside sentences, and two pages of one kind of request.
MCOpenings == {{g} : g \in Pages} \cup {{list, snippets}, {canvas, grouped}}

Symmetry == Permutations({s1, s2})
=============================================================================
