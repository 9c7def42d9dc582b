----------------------------- MODULE MCGraphQuery ----------------------------
EXTENDS GraphQuery

Edge(t, f, s, k, l) == [type |-> t, from |-> f, to |-> s, key |-> k, loss |-> l]

\* A CI with three neighbours, circles, a shortcut, edges side by side, and one below
\* min_confidence.
MCLinks ==
  {Edge("CONTAINS", 1, 2, "", 0), Edge("CONTAINS", 1, 4, "", 0), Edge("DEPENDS_ON", 2, 1, "", 1),
   Edge("EXPOSES", 3, 1, "", 0), Edge("EXPOSES", 4, 3, "a", 2), Edge("EXPOSES", 4, 3, "b", 0),
   Edge("ROUTES_TO", 1, 4, "", 1)}

MCFeed == {[subjects |-> {2}, late |-> FALSE], [subjects |-> {3, 4}, late |-> FALSE],
           [subjects |-> {1}, late |-> TRUE]}

=============================================================================
