---------------------------- MODULE AtomicGraph ----------------------------
(***************************************************************************)
(* What a domain store promises: one graph that changes by whole commits   *)
(* and never loses one.  GraphSegments, with its files, its syncs and its  *)
(* crashes, is checked to implement this specification until a power loss  *)
(* takes records that a store had found unsynced when it opened.           *)
(***************************************************************************)
EXTENDS GraphStore

VARIABLE graph   \* the committed graph and its revision

\* What a reader sees of a store; modification revisions are internal.
Visible(s) == [nodes |-> s.nodes, edges |-> s.edges, parent |-> s.parent, revision |-> s.revision]

Init == graph = Visible(EmptyStore)

\* A commit whose writes fit the graph takes effect as a whole.
Commit(w) ==
    /\ w # NoWrites
    /\ ~InvariantConflict(graph, w)
    /\ graph' = [nodes    |-> ApplyNodes(graph, w),
                 edges    |-> ApplyEdges(graph, w),
                 parent   |-> ApplyParents(graph, w),
                 revision |-> graph.revision + 1]

Next == /\ graph'.revision = graph.revision + 1
        /\ \E w \in WriteSets : Commit(w)

Spec == Init /\ [][Next]_graph
=============================================================================
