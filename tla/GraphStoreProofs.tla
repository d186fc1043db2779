-------------------------- MODULE GraphStoreProofs --------------------------
(***************************************************************************)
(* What the storage commit guarantees, for every graph and every write     *)
(* set: a commit that invariantConflict lets through keeps the shape of    *)
(* the store.  The state machines that hold a store cite these lemmas.     *)
(***************************************************************************)
EXTENDS GraphStore, TLAPS

\* The empty store of a new domain is a store and has the graph's shape
\* (store.go, NewLocalStore).
LEMMA EmptyStoreShape == EmptyStore \in Stores /\ GraphShape(EmptyStore)
  BY NoneAssumption DEF EmptyStore, Stores, GraphShape, NoDanglingEdges, ParentIndexExact, ModRevisionsBounded

\* An empty overlay is a write set (module.go, overlay).
LEMMA NoWritesType == NoWrites \in WriteSets
  BY DEF NoWrites, WriteSets, WriteRecords

\* Applying a write set to a store gives a store (txn.go, CommitWithInfo).
LEMMA ApplyWritesType ==
  ASSUME NEW s \in Stores, NEW w \in WriteSets
  PROVE  ApplyWrites(s, w) \in Stores
<1>1. ApplyNodes(s, w) \in [Nodes -> Values \cup {None}]
  BY DEF Stores, WriteSets, WriteRecords, ApplyNodes
<1>2. ApplyEdges(s, w) \in [Edges -> EdgeRecords \cup {None}]
  BY DEF Stores, WriteSets, WriteRecords, ApplyEdges
<1>3. \A c \in Nodes : NewParents(w, c) # {} => (CHOOSE e \in NewParents(w, c) : TRUE) \in Edges
  BY DEF NewParents
<1>4. ApplyParents(s, w) \in [Nodes -> Edges \cup {None}]
  BY <1>3 DEF Stores, ApplyParents
<1>5. QED
  BY <1>1, <1>2, <1>4 DEF Stores, ApplyWrites

\* A commit that passes the endpoint and the delete check leaves no dangling
\* edge (txn.go, invariantConflict).
LEMMA CommitNoDangling ==
  ASSUME NEW s \in Stores, NEW w \in WriteSets,
         NoDanglingEdges(s), ~EndpointConflict(s, w), ~DeleteConflict(s, w)
  PROVE  NoDanglingEdges(ApplyWrites(s, w))
<1> DEFINE a == ApplyWrites(s, w)
<1>a. \A e \in Edges : a.edges[e] # None => a.edges[e] \in EdgeRecords
  BY ApplyWritesType DEF Stores
<1> SUFFICES ASSUME NEW e \in Edges, a.edges[e] # None, NEW n \in Nodes, Incident(a.edges[e], n)
             PROVE  a.nodes[n] # None
  BY <1>a DEF NoDanglingEdges, Incident, EdgeRecords
<1>1. e \notin w.edgeDeletes
  BY DEF ApplyWrites, ApplyEdges
<1>2. CASE w.edgePuts[e] # None
  <2>1. a.edges[e] = w.edgePuts[e]
    BY <1>1, <1>2 DEF ApplyWrites, ApplyEdges
  <2>2. n \notin w.nodeDeletes /\ (s.nodes[n] # None \/ w.nodePuts[n] # None)
    BY <1>2, <2>1 DEF EndpointConflict
  <2>3. QED
    BY <2>2 DEF ApplyWrites, ApplyNodes
<1>3. CASE w.edgePuts[e] = None
  <2>1. a.edges[e] = s.edges[e]
    BY <1>1, <1>3 DEF ApplyWrites, ApplyEdges
  <2>2. s.edges[e] \in EdgeRecords
    BY <2>1 DEF Stores
  <2>3. s.nodes[n] # None
    BY <2>1, <2>2 DEF NoDanglingEdges, Incident
  <2>4. n \notin w.nodeDeletes
    BY <1>1, <1>3, <2>1 DEF DeleteConflict
  <2>5. QED
    BY <2>3, <2>4 DEF ApplyWrites, ApplyNodes
<1>4. QED
  BY <1>2, <1>3

\* A commit that passes the parent check keeps containsParent exact, hence one
\* parent per node (txn.go, invariantConflict; store.go, applyEdgePut and
\* removeEdgeIndexes).
LEMMA CommitParentIndex ==
  ASSUME NEW s \in Stores, NEW w \in WriteSets,
         ParentIndexExact(s), ~ParentConflict(s, w)
  PROVE  ParentIndexExact(ApplyWrites(s, w))
<1> DEFINE a == ApplyWrites(s, w)
<1> SUFFICES ASSUME NEW c \in Nodes, NEW e \in Edges
             PROVE  a.parent[c] = e <=> a.edges[e] # None /\ a.edges[e].contains /\ a.edges[e].to = c
  BY DEF ParentIndexExact
<1>0. /\ a.edges[e] = IF e \in w.edgeDeletes THEN None
                      ELSE IF w.edgePuts[e] # None THEN w.edgePuts[e] ELSE s.edges[e]
      /\ w.edgePuts[e] # None => e \notin w.edgeDeletes
  BY DEF ApplyWrites, ApplyEdges, WriteSets
<1>1. CASE NewParents(w, c) # {}
  <2> DEFINE p == CHOOSE f \in NewParents(w, c) : TRUE
  <2>1. p \in NewParents(w, c) /\ a.parent[c] = p
    BY <1>1 DEF ApplyWrites, ApplyParents
  <2>2. \A f \in NewParents(w, c) : f = p
    BY SMTT(60), <2>1 DEF ParentConflict, NewParents
  <2>3. CASE e = p
    BY <1>0, <2>1, <2>3 DEF NewParents
  <2>4. CASE e # p
    <3>1. SUFFICES ASSUME a.edges[e] # None, a.edges[e].contains, a.edges[e].to = c
                   PROVE  FALSE
      BY <2>1, <2>4
    <3>2. e \notin NewParents(w, c)
      BY <2>2, <2>4
    <3>3. w.edgePuts[e] = None /\ e \notin w.edgeDeletes /\ a.edges[e] = s.edges[e]
      BY <1>0, <3>1, <3>2 DEF NewParents
    <3>4. s.parent[c] = e
      BY <3>1, <3>3 DEF ParentIndexExact
    <3>5. p \in Edges /\ w.edgePuts[p] # None /\ w.edgePuts[p].contains /\ w.edgePuts[p].to = c
      BY <2>1 DEF NewParents
    <3>6. e # None
      BY NoneAssumption
    <3>7. QED
      BY <2>4, <3>3, <3>4, <3>5, <3>6 DEF ParentConflict
  <2>5. QED
    BY <2>3, <2>4
<1>2. CASE NewParents(w, c) = {}
  <2>1. ~(w.edgePuts[e] # None /\ w.edgePuts[e].contains /\ w.edgePuts[e].to = c)
    BY <1>2 DEF NewParents
  <2>2. s.parent[c] = e <=> s.edges[e] # None /\ s.edges[e].contains /\ s.edges[e].to = c
    BY DEF ParentIndexExact
  <2>3. CASE e \in WrittenEdges(w)
    <3>1. ~(a.edges[e] # None /\ a.edges[e].contains /\ a.edges[e].to = c)
      BY <1>0, <2>1, <2>3 DEF WrittenEdges
    <3>2. a.parent[c] # e
      BY <1>2, <2>2, <2>3, NoneAssumption DEF ApplyWrites, ApplyParents
    <3>3. QED
      BY <3>1, <3>2
  <2>4. CASE e \notin WrittenEdges(w)
    <3>1. a.edges[e] = s.edges[e]
      BY <1>0, <2>4 DEF WrittenEdges
    <3>2. a.parent[c] = e <=> s.parent[c] = e
      BY <1>2, <2>4, NoneAssumption DEF ApplyWrites, ApplyParents
    <3>3. QED
      BY <2>2, <3>1, <3>2
  <2>5. QED
    BY <2>3, <2>4
<1>3. QED
  BY <1>1, <1>2

\* A commit moves the modification revisions of what it writes to the new
\* revision and no other (txn.go, CommitWithInfo).
LEMMA CommitModRevisions ==
  ASSUME NEW s \in Stores, NEW w \in WriteSets, ModRevisionsBounded(s)
  PROVE  ModRevisionsBounded(ApplyWrites(s, w))
  BY DEF Stores, ModRevisionsBounded, ApplyWrites

\* Whatever a commit without a conflict writes, and however stale the reads
\* behind it were, the store keeps its shape (txn.go, CommitWithInfo).
THEOREM CommitKeepsShape ==
  ASSUME NEW s \in Stores, NEW w \in WriteSets, NEW base \in Nat,
         GraphShape(s), ~Conflict(s, w, base)
  PROVE  GraphShape(ApplyWrites(s, w))
  BY CommitNoDangling, CommitParentIndex, CommitModRevisions DEF GraphShape, Conflict, InvariantConflict
=============================================================================
