------------------------------ MODULE KbenchDepth ------------------------------
(***************************************************************************)
(* collect_depth of lab-routes-ipv6/kbench_mod.c: a walk of the IPv6       *)
(* routing tree without recursion and without a stack, which measures how  *)
(* deep its routes are.  One switch falls from one state of the walk into  *)
(* the next until it goes on to another node.                              *)
(*                                                                         *)
(* Nodes are numbered as in a heap: 1 is the root, 3n - 1 and 3n are the   *)
(* children of n, and 3n + 1 is the root of its subtree, the tree of the   *)
(* source-specific routes (bench-kernel has CONFIG_IPV6_SUBTREES).         *)
(***************************************************************************)
EXTENDS Integers, FiniteSetsExt

CONSTANTS
  Nodes,  \* nodes that a tree may have
  Limit   \* values of an unsigned long: 2^64

VARIABLES
  tree,     \* the nodes of the table
  routes,   \* those that hold a route: a leaf, and RTN_RTINFO
  node,     \* where the walk is
  state,    \* FWS_S, FWS_L, FWS_R, FWS_C, or the end
  leaf,     \* the route of the node is still to be counted
  depth,    \* how deep the walk is
  totdepth, \* the sum of the depths of the routes so far
  count,    \* how many there were
  maxdepth  \* and the deepest

vars == <<tree, routes, node, state, leaf, depth, totdepth, count, maxdepth>>

Left(n)    == 3 * n - 1
Right(n)   == 3 * n
Subtree(n) == 3 * n + 1
Parent(n)  == (n + 1) \div 3

Subtrees == {n \in tree : n > 1 /\ n = Subtree(Parent(n))}

TypeOK ==
  /\ tree \subseteq Nodes /\ routes \subseteq tree
  /\ node \in tree
  /\ state \in {"S", "L", "R", "C", "end"}
  /\ leaf \in BOOLEAN
  /\ depth \in 0 .. Limit - 1 /\ totdepth \in 0 .. Limit - 1 /\ maxdepth \in 0 .. Limit - 1
  /\ count \in 0 .. Cardinality(routes)

Init ==
  /\ tree \in {t \in SUBSET Nodes : 1 \in t /\ \A n \in t \ {1} : Parent(n) \in t}
  /\ routes \in SUBSET tree
  /\ node = 1
  /\ state = "S"
  /\ leaf = FALSE
  /\ depth = 0 /\ totdepth = 0 /\ count = 0 /\ maxdepth = 0

-----------------------------------------------------------------------------
\* How far the switch falls in this turn.
GoesInto  == state = "S" /\ Subtree(node) \in tree
GoesLeft  == state \in {"S", "L"} /\ ~GoesInto /\ Left(node) \in tree
GoesRight == state \in {"S", "L", "R"} /\ ~GoesInto /\ ~GoesLeft /\ Right(node) \in tree
AtNode    == state # "end" /\ ~GoesInto /\ ~GoesLeft /\ ~GoesRight

\* The route to count: that of a node reached in this turn, or what is left.
Pending == IF state = "C" THEN leaf ELSE node \in routes

Down(n, more) ==
  /\ node' = n
  /\ depth' = (depth + more) % Limit
  /\ state' = "S"
  /\ UNCHANGED <<tree, routes, leaf, totdepth, count, maxdepth>>

DownLeft  == GoesLeft /\ Down(Left(node), 1)
DownRight == GoesRight /\ Down(Right(node), 1)
\* The way into a subtree does not count.
Into      == GoesInto /\ Down(Subtree(node), 0)

\* Mutant of Visit: the leaf is not forgotten once it was counted.
VisitAgain ==
  /\ AtNode /\ Pending
  /\ totdepth' = (totdepth + depth) % Limit
  /\ count' = count + 1
  /\ maxdepth' = IF depth > maxdepth THEN depth ELSE maxdepth
  /\ leaf' = TRUE
  /\ state' = "C"
  /\ UNCHANGED <<tree, routes, node, depth>>

\* FWS_C with a route.
Visit ==
  /\ AtNode /\ Pending
  /\ totdepth' = (totdepth + depth) % Limit
  /\ count' = count + 1
  /\ maxdepth' = IF depth > maxdepth THEN depth ELSE maxdepth
  /\ leaf' = FALSE
  /\ state' = "C"
  /\ UNCHANGED <<tree, routes, node, depth>>

\* Mutant of Up: back from the right child, the walk goes right again.
UpRight ==
  /\ AtNode /\ ~Pending /\ node # 1
  /\ node' = Parent(node)
  /\ depth' = (depth - 1) % Limit
  /\ state' = IF node = Subtree(Parent(node)) THEN "L" ELSE "R"
  /\ UNCHANGED <<tree, routes, leaf, totdepth, count, maxdepth>>

\* What comes after the child n of a node; the leaf of the node is due after
\* the right one only.
After(n) == IF n = Subtree(Parent(n)) THEN "L" ELSE IF n = Left(Parent(n)) THEN "R" ELSE "C"

\* Mutant of Up: the depth is not decreased on the way back.
UpDeep ==
  /\ AtNode /\ ~Pending /\ node # 1
  /\ node' = Parent(node)
  /\ state' = After(node)
  /\ leaf' = IF After(node) = "C" THEN Parent(node) \in routes ELSE leaf
  /\ UNCHANGED <<tree, routes, depth, totdepth, count, maxdepth>>

\* FWS_U: back to the parent, from a subtree as from a child.
Up ==
  /\ AtNode /\ ~Pending /\ node # 1
  /\ node' = Parent(node)
  /\ depth' = (depth - 1) % Limit
  /\ state' = After(node)
  /\ leaf' = IF After(node) = "C" THEN Parent(node) \in routes ELSE leaf
  /\ UNCHANGED <<tree, routes, totdepth, count, maxdepth>>

AtRoot ==
  /\ AtNode /\ ~Pending /\ node = 1
  /\ state' = "end"
  /\ UNCHANGED <<tree, routes, node, leaf, depth, totdepth, count, maxdepth>>

End == state = "end" /\ UNCHANGED vars

Walk == DownLeft \/ DownRight \/ Into \/ Visit \/ Up \/ AtRoot

Next == Walk \/ End

Spec == Init /\ [][Next]_vars

-----------------------------------------------------------------------------
(* Properties *)

\* The depth of a node by its definition; the way into a subtree does not count.
DepthOf[n \in Nodes] ==
  IF n = 1 THEN 0 ELSE DepthOf[Parent(n)] + (IF n = Subtree(Parent(n)) THEN 0 ELSE 1)

\* The sum of the depths of some nodes: what there is to climb from each.
SumOfDepths(S) == Cardinality(UNION {{n} \X (1 .. DepthOf[n]) : n \in S})

\* The walk counts each route once, those of subtrees too; without subtrees at
\* its own depth.  Each subtree is left one level up from where it was entered,
\* and with one below the root the depth is that of an unsigned long below 0.
DepthIsExact ==
  state = "end" =>
    /\ count = Cardinality(routes)
    /\ depth = (0 - Cardinality(Subtrees)) % Limit
    /\ Subtrees = {} =>
         /\ totdepth = SumOfDepths(routes) % Limit
         /\ maxdepth = IF routes = {} THEN 0 ELSE Max({DepthOf[n] : n \in routes})
=============================================================================
