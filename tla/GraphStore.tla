----------------------------- MODULE GraphStore -----------------------------
(***************************************************************************)
(* One domain graph store (internal/graph/storage, type LocalStore) as a   *)
(* value, and the storage transaction commit (type localTxn) as operators  *)
(* on that value.  The state machines of the other modules hold one or     *)
(* several such values and change them by ApplyWrites, after ~Conflict.    *)
(*                                                                         *)
(* A node's content, properties and labels are one member of Values.  An   *)
(* edge keeps its endpoints and whether it has the label "contains",       *)
(* because commit decides on those; the rest of it is a member of Values.  *)
(***************************************************************************)
EXTENDS Naturals, FiniteSets

CONSTANTS Nodes,   \* node ids
          Edges,   \* edge ids
          Values,  \* what the model tells apart of an entity's content
          None     \* absence of a record, an edge or a parent

EdgeRecords == [from : Nodes, to : Nodes, contains : BOOLEAN, val : Values]

\* None stands for nothing a map can hold.
ASSUME NoneAssumption ==
    /\ None \notin Values
    /\ None \notin Edges
    /\ None \notin EdgeRecords

\* The in-memory maps of LocalStore that commit reads or writes: nodeRecords,
\* edgeRecords, containsParent, nodeModRev, edgeModRev and revision.
Stores == [nodes    : [Nodes -> Values \cup {None}],
           edges    : [Edges -> EdgeRecords \cup {None}],
           parent   : [Nodes -> Edges \cup {None}],
           nodeMod  : [Nodes -> Nat],
           edgeMod  : [Edges -> Nat],
           revision : Nat]

EmptyStore == [nodes    |-> [n \in Nodes |-> None],
               edges    |-> [e \in Edges |-> None],
               parent   |-> [n \in Nodes |-> None],
               nodeMod  |-> [n \in Nodes |-> 0],
               edgeMod  |-> [e \in Edges |-> 0],
               revision |-> 0]

\* What a transaction carries to commit.  Puts and deletes of one id exclude
\* each other: staging either one removes the other from the overlay.
WriteRecords == [nodePuts    : [Nodes -> Values \cup {None}],
                 nodeDeletes : SUBSET Nodes,
                 edgePuts    : [Edges -> EdgeRecords \cup {None}],
                 edgeDeletes : SUBSET Edges]

WriteSets == {w \in WriteRecords : /\ \A n \in w.nodeDeletes : w.nodePuts[n] = None
                                  /\ \A e \in w.edgeDeletes : w.edgePuts[e] = None}

NoWrites == [nodePuts    |-> [n \in Nodes |-> None],
             nodeDeletes |-> {},
             edgePuts    |-> [e \in Edges |-> None],
             edgeDeletes |-> {}]

WrittenNodes(w) == {n \in Nodes : w.nodePuts[n] # None} \cup w.nodeDeletes
WrittenEdges(w) == {e \in Edges : w.edgePuts[e] # None} \cup w.edgeDeletes

-----------------------------------------------------------------------------
(* Conflict detection at commit.                                           *)

\* Fault: deletes are left out of the write set.
WriteSetConflictPutsOnly(s, w, base) ==
    \/ \E n \in Nodes : w.nodePuts[n] # None /\ s.nodeMod[n] > base
    \/ \E e \in Edges : w.edgePuts[e] # None /\ s.edgeMod[e] > base

\* writeSetConflict: an entity this transaction writes was written by a
\* commit later than the revision the transaction started from.
WriteSetConflict(s, w, base) ==
    \/ \E n \in WrittenNodes(w) : s.nodeMod[n] > base
    \/ \E e \in WrittenEdges(w) : s.edgeMod[e] > base

Incident(edge, n) == edge.from = n \/ edge.to = n

\* The edge half of invariantConflict: an endpoint that this transaction
\* deletes, or that neither the store nor this transaction has.
EndpointConflict(s, w) ==
    \E e \in Edges : \E n \in Nodes :
        /\ w.edgePuts[e] # None
        /\ Incident(w.edgePuts[e], n)
        /\ \/ n \in w.nodeDeletes
           \/ s.nodes[n] = None /\ w.nodePuts[n] = None

\* Two "contains" edges that claim one child: both in this transaction, or
\* one here and one in the store that this transaction does not delete.
ParentConflict(s, w) ==
    \E e \in Edges :
        /\ w.edgePuts[e] # None
        /\ w.edgePuts[e].contains
        /\ LET child == w.edgePuts[e].to IN
             \/ \E f \in Edges \ {e} :
                   /\ w.edgePuts[f] # None
                   /\ w.edgePuts[f].contains
                   /\ w.edgePuts[f].to = child
             \/ /\ s.parent[child] # None
                /\ s.parent[child] # e
                /\ s.parent[child] \notin w.edgeDeletes

\* Fault: only outgoing edges of a deleted node are looked at.
DeleteConflictOutgoing(s, w) ==
    \E n \in w.nodeDeletes : \E e \in Edges :
        /\ s.edges[e] # None
        /\ s.edges[e].from = n
        /\ ~(w.edgePuts[e] # None /\ ~Incident(w.edgePuts[e], n))
        /\ e \notin w.edgeDeletes

\* The node half of invariantConflict: a deleted node keeps an incident edge
\* that this transaction neither deletes nor moves away from it.
DeleteConflict(s, w) ==
    \E n \in w.nodeDeletes : \E e \in Edges :
        /\ s.edges[e] # None
        /\ Incident(s.edges[e], n)
        /\ ~(w.edgePuts[e] # None /\ ~Incident(w.edgePuts[e], n))
        /\ e \notin w.edgeDeletes

InvariantConflict(s, w) ==
    \/ EndpointConflict(s, w)
    \/ ParentConflict(s, w)
    \/ DeleteConflict(s, w)

\* Every reason CommitWithInfo has to answer ErrConflict.
Conflict(s, w, base) ==
    \/ base > s.revision
    \/ WriteSetConflict(s, w, base)
    \/ InvariantConflict(s, w)

-----------------------------------------------------------------------------
(* The in-memory application of a commit: node puts, node deletes, edge    *)
(* puts, edge deletes, then revision and modification revisions.           *)

ApplyNodes(s, w) ==
    [n \in Nodes |-> IF n \in w.nodeDeletes THEN None
                     ELSE IF w.nodePuts[n] # None THEN w.nodePuts[n]
                     ELSE s.nodes[n]]

ApplyEdges(s, w) ==
    [e \in Edges |-> IF e \in w.edgeDeletes THEN None
                     ELSE IF w.edgePuts[e] # None THEN w.edgePuts[e]
                     ELSE s.edges[e]]

\* The new "contains" edges of w that end in child.
NewParents(w, child) ==
    {e \in Edges : /\ w.edgePuts[e] # None
                   /\ w.edgePuts[e].contains
                   /\ w.edgePuts[e].to = child}

\* removeEdgeIndexes drops containsParent[child] when it names the edge being
\* replaced or deleted; applyEdgePut then names the new edge.
ApplyParents(s, w) ==
    [c \in Nodes |->
        IF NewParents(w, c) # {} THEN CHOOSE e \in NewParents(w, c) : TRUE
        ELSE IF \E e \in WrittenEdges(w) :
                   /\ s.parent[c] = e
                   /\ s.edges[e] # None
                   /\ s.edges[e].contains
                   /\ s.edges[e].to = c
             THEN None
        ELSE s.parent[c]]

ApplyWrites(s, w) ==
    [nodes    |-> ApplyNodes(s, w),
     edges    |-> ApplyEdges(s, w),
     parent   |-> ApplyParents(s, w),
     nodeMod  |-> [n \in Nodes |-> IF n \in WrittenNodes(w) THEN s.revision + 1 ELSE s.nodeMod[n]],
     edgeMod  |-> [e \in Edges |-> IF e \in WrittenEdges(w) THEN s.revision + 1 ELSE s.edgeMod[e]],
     revision |-> s.revision + 1]

-----------------------------------------------------------------------------
(* What commit promises about one store value.                             *)

\* No edge points at a node that is gone.
NoDanglingEdges(s) ==
    \A e \in Edges : s.edges[e] # None =>
        s.nodes[s.edges[e].from] # None /\ s.nodes[s.edges[e].to] # None

\* The containsParent index names exactly the live "contains" edges by child,
\* so a node has at most one parent.
ParentIndexExact(s) ==
    \A c \in Nodes : \A e \in Edges :
        s.parent[c] = e <=>
            s.edges[e] # None /\ s.edges[e].contains /\ s.edges[e].to = c

\* No entity was modified in the future of the store.
ModRevisionsBounded(s) ==
    /\ \A n \in Nodes : s.nodeMod[n] <= s.revision
    /\ \A e \in Edges : s.edgeMod[e] <= s.revision

\* No node is above itself over "contains" edges.  Commit does not look at
\* this; the service asks for it when an edge is created or moved.
Acyclic(s) ==
    LET Up(S) == {s.edges[e].from : e \in {f \in Edges : /\ s.edges[f] # None
                                                          /\ s.edges[f].contains
                                                          /\ s.edges[f].to \in S}}
        Above(n) == LET A[k \in Nat] == IF k = 0 THEN Up({n})
                                        ELSE A[k - 1] \cup Up(A[k - 1])
                    IN  A[Cardinality(Nodes)]
    IN  \A n \in Nodes : n \notin Above(n)

GraphShape(s) == NoDanglingEdges(s) /\ ParentIndexExact(s) /\ ModRevisionsBounded(s)
=============================================================================
