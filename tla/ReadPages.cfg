SPECIFICATION Spec
CONSTANTS
  s1 = s1
  s2 = s2
  p1 = p1
  p2 = p2
  list = list
  grouped = grouped
  canvas = canvas
  snippets = snippets
  clusters = clusters
  mindmap = mindmap
  hierarchy = hierarchy
  topic = topic
  across = across
  whole = whole
  again = again
  other = other
  Posts = {p1, p2}
  Numbers <- MCNumbers
  Pages = {list, grouped, canvas, snippets, clusters, mindmap, hierarchy}
  Slots = {s1, s2}
  MaxCalls = 2
  MaxFaults = 1
  Kind <- MCKind
  Topics = {topic, across, whole, again, other}
  On <- MCOn
  Has <- MCHas
  Openings <- MCOpenings
INVARIANTS
  CounterExact
  PostsRollUp
  
SYMMETRY Symmetry
CHECK_DEADLOCK FALSE
