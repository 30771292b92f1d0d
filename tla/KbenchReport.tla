----------------------------- MODULE KbenchReport -----------------------------
(***************************************************************************)
(* What do_bench of lab-routes-ipv6 prints after a run, with the mutex     *)
(* released: the figures, then the depth of the routing tree, then the     *)
(* histogram.  The tree is walked on top of nothing: with no route in it,  *)
(* it is what lab-routes-ipv4 prints, which has no tree.                   *)
(***************************************************************************)
EXTENDS KbenchStats

CONSTANTS
  Nodes,      \* nodes of the tree (KbenchDepth)
  AnyTree     \* samples that come with every tree, the others with an empty one

ASSUME ReportAssumption ==
  /\ AnyTree \subseteq Samples
  /\ Nodes \subseteq Nat \ {0} /\ 1 \in Nodes
  /\ \A n \in Nodes \ {1} : (n + 1) \div 3 \in Nodes
  /\ IsFiniteSet(Nodes) /\ Cardinality(Nodes) <= Limit

VARIABLES tree, routes, node, state, leaf, depth, totdepth, routed, maxdepth

walk == <<tree, routes, node, state, leaf, depth, totdepth, routed, maxdepth>>
vars == <<stats, walk>>

Walk == INSTANCE KbenchDepth WITH count <- routed

ReportInit ==
  /\ Init /\ Walk!Init
  /\ sorted \in AnyTree \/ (tree = {1} /\ routes = {})

\* collect_depth, between the two parts of the page.
Depth == phase = "figures" /\ Walk!Walk /\ UNCHANGED stats

Reported ==
  \/ Compute /\ UNCHANGED walk
  \/ Depth
  \/ state = "end" /\ Histogram /\ UNCHANGED walk
  \/ (CountIn \/ PrintRow) /\ UNCHANGED walk

\* Nothing matched, or the file stats was read, or all is printed.
Ended ==
  /\ phase = "done" \/ (phase = "figures" /\ state = "end")
  /\ UNCHANGED vars

ReportNext == Reported \/ Ended

Report == ReportInit /\ [][ReportNext]_vars /\ WF_vars(Reported)

-----------------------------------------------------------------------------
(* Properties *)

\* The types of both parts; the walk runs only between the figures and the
\* histogram, and has ended when the histogram starts.
TypeOK ==
  /\ StatsTypeOK /\ Walk!TypeOK
  /\ phase = "histogram" => state = "end"

\* The walk counts each route once, and sums up the depths of the routes if the
\* tree has no subtree; with subtrees the depth drifts by one for each.
DepthIsExact == Walk!DepthIsExact

\* On every tree the walk comes back to the root and ends, and the histogram
\* reaches its last row, also when the percentile is not one of the samples.
ReportEnds == <>(phase = "done")
=============================================================================
