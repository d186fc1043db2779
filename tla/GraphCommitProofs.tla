-------------------------- MODULE GraphCommitProofs --------------------------
(***************************************************************************)
(* Proofs about the two ways into a domain graph: storage transactions     *)
(* staged by the service and committed to one store (GraphTransactions),   *)
(* and the commands of the replicated log that every member applies to its *)
(* own store (PartitionReplica).                                           *)
(*                                                                         *)
(* Part 1, for any number of transactions, nodes, edges and staged         *)
(* operations.  Every mutation of the service is, for the invariants, one  *)
(* step of the same kind: it stages a write set that differs from the old  *)
(* one only at the ids it journals (MutationStep).  MutateIsStage shows    *)
(* this once; the invariants are then proved for MutationStep and the few  *)
(* other actions.                                                          *)
(*                                                                         *)
(* Part 2, for any members, commands and log: the state keeps its shape,   *)
(* the graph of every member stays a graph through restores and replays,   *)
(* and the writes of a command enter a graph at most once where the        *)
(* modification revisions were not rebuilt.                                *)
(***************************************************************************)
EXTENDS GraphTransactions, PartitionReplica, GraphStoreProofs, FiniteSetTheorems, TLAPS

-----------------------------------------------------------------------------
(* Part 1.  GraphTransactions.                                             *)

AgreesOutside(t, w, N, E) ==
    LET o == overlay[t].writes IN
    /\ \A n \in Nodes \ N : /\ w.nodePuts[n] = o.nodePuts[n]
                            /\ n \in w.nodeDeletes <=> n \in o.nodeDeletes
    /\ \A e \in Edges \ E : /\ w.edgePuts[e] = o.edgePuts[e]
                            /\ e \in w.edgeDeletes <=> e \in o.edgeDeletes

MutationStep(t) ==
    \E w \in WriteSets, k \in Nat \ {0}, N \in SUBSET Nodes, E \in SUBSET Edges :
        AgreesOutside(t, w, N, E) /\ Stage(t, w, k, N, E)

-----------------------------------------------------------------------------
(* The staging operators keep write sets and touch only what they name.    *)

\* stageNode: put and delete of one id exclude each other in the overlay.
LEMMA PutNodeType ==
  ASSUME NEW w \in WriteSets, NEW n \in Nodes, NEW v \in Values
  PROVE  PutNode(w, n, v) \in WriteSets
  BY DEF WriteSets, WriteRecords, PutNode

\* stageEdge: the same for edges.
LEMMA PutEdgeType ==
  ASSUME NEW w \in WriteSets, NEW e \in Edges, NEW r \in EdgeRecords
  PROVE  PutEdge(w, e, r) \in WriteSets
  BY DEF WriteSets, WriteRecords, PutEdge

\* stageNodeDelete and stageEdgeDelete drop the staged put.
LEMMA DeleteEntitiesType ==
  ASSUME NEW w \in WriteSets, NEW N \in SUBSET Nodes, NEW E \in SUBSET Edges
  PROVE  DeleteEntities(w, N, E) \in WriteSets
  BY DEF WriteSets, WriteRecords, DeleteEntities

\* Counting the entities of a cascade gives a number, and at least one when
\* there is a node.
LEMMA CountType ==
  ASSUME NEW N \in SUBSET Nodes, NEW E \in SUBSET Edges
  PROVE  /\ Cardinality(N) \in Nat /\ Cardinality(E) \in Nat
         /\ N # {} => Cardinality(N) # 0
  BY FiniteAssumption, FS_Subset, FS_CardinalityType, FS_EmptySet

\* The view hands out records of the store or of the overlay.
LEMMA EdgeType ==
  ASSUME TypeOK, NEW t \in Txns, NEW e \in Edges
  PROVE  Edge(t, e) \in EdgeRecords \cup {None}
<1>1. overlay[t].writes \in WriteSets /\ store \in Stores
  BY DEF TypeOK, Overlays
<1>2. QED
  BY <1>1 DEF Edge, WriteSets, WriteRecords, Stores

\* Every client mutation is a MutationStep (module.go, CreateNode to
\* ReorderChildren and the stage functions).
LEMMA MutateIsStage ==
  ASSUME TypeOK, NEW t \in Txns, Mutate(t)
  PROVE  MutationStep(t)
<1> DEFINE o == overlay[t].writes
<1>o. o \in WriteSets
  BY DEF TypeOK, Overlays
<1> HIDE DEF o
<1>1. CASE \E n \in Nodes, v \in Values : CreateNode(t, n, v) \/ UpdateNode(t, n, v)
  <2>1. PICK n \in Nodes, v \in Values : Stage(t, PutNode(o, n, v), 1, {n}, {})
    BY <1>1 DEF CreateNode, UpdateNode, o
  <2>2. AgreesOutside(t, PutNode(o, n, v), {n}, {})
    BY <1>o DEF AgreesOutside, PutNode, WriteSets, WriteRecords, o
  <2>3. QED
    BY <1>o, <2>1, <2>2, PutNodeType DEF MutationStep
<1>2. CASE \E n \in Nodes, recursive \in BOOLEAN : DeleteNode(t, n, recursive)
  <2>1. PICK n \in Nodes : \E recursive \in BOOLEAN : DeleteNode(t, n, recursive)
    BY <1>2
  <2>l. PICK listed \in EdgeListings(t) :
          LET gone     == Subtree(t, n)
              incident == {e \in listed : \E m \in gone : Incident(Edge(t, e), m)}
          IN  Stage(t, DeleteEntities(o, gone, incident),
                    Cardinality(gone) + Cardinality(incident), gone, incident)
    BY <2>1 DEF DeleteNode, o
  <2> DEFINE gone == Subtree(t, n)
             inc  == {e \in listed : \E m \in gone : Incident(Edge(t, e), m)}
             k    == Cardinality(gone) + Cardinality(inc)
  <2>2. Stage(t, DeleteEntities(o, gone, inc), k, gone, inc)
    BY <2>l
  <2>3. gone \in SUBSET Nodes /\ inc \in SUBSET Edges
    BY <2>l DEF Subtree, EdgeListings
  <2>4. n \in gone
    BY DEF Subtree
  <2>5. k \in Nat \ {0}
    BY <2>3, <2>4, CountType
  <2>6. AgreesOutside(t, DeleteEntities(o, gone, inc), gone, inc)
    BY <1>o, <2>3 DEF AgreesOutside, DeleteEntities, WriteSets, WriteRecords, o
  <2>7. QED
    BY <1>o, <2>2, <2>3, <2>5, <2>6, DeleteEntitiesType DEF MutationStep
<1>3. CASE \E e \in Edges, r \in EdgeRecords : Stage(t, PutEdge(o, e, r), 1, {}, {e})
                                               \/ Stage(t, PutEdge(o, e, r), 2, {}, {e})
  <2>1. PICK e \in Edges, r \in EdgeRecords, k \in {1, 2} : Stage(t, PutEdge(o, e, r), k, {}, {e})
    BY <1>3
  <2>2. AgreesOutside(t, PutEdge(o, e, r), {}, {e})
    BY <1>o DEF AgreesOutside, PutEdge, WriteSets, WriteRecords, o
  <2>3. QED
    BY <1>o, <2>1, <2>2, PutEdgeType DEF MutationStep
<1>4. CASE \E e \in Edges, r \in EdgeRecords : CreateEdge(t, e, r)
  BY <1>3, <1>4 DEF CreateEdge, o
<1>5. CASE \E e \in Edges, contains \in BOOLEAN, v \in Values : UpdateEdge(t, e, contains, v)
  <2>1. PICK e \in Edges, contains \in BOOLEAN, v \in Values : UpdateEdge(t, e, contains, v)
    BY <1>5
  <2>2. [Edge(t, e) EXCEPT !.contains = contains, !.val = v] \in EdgeRecords
    BY <2>1, EdgeType DEF UpdateEdge, EdgeRecords
  <2>3. QED
    BY <1>3, <2>1, <2>2 DEF UpdateEdge, o
<1>6. CASE \E e \in Edges : DeleteEdge(t, e)
  <2>1. PICK e \in Edges : Stage(t, DeleteEntities(o, {}, {e}), 1, {}, {e})
    BY <1>6 DEF DeleteEdge, o
  <2>2. AgreesOutside(t, DeleteEntities(o, {}, {e}), {}, {e})
    BY <1>o DEF AgreesOutside, DeleteEntities, WriteSets, WriteRecords, o
  <2>3. QED
    BY <1>o, <2>1, <2>2, DeleteEntitiesType DEF MutationStep
<1>7. CASE \E c, p \in Nodes, e \in Edges, v \in Values : MoveSubtree(t, c, p, e, v)
  <2>1. PICK c \in Nodes, p \in Nodes, e \in Edges, v \in Values : MoveSubtree(t, c, p, e, v)
    BY <1>7
  <2>2. [from |-> p, to |-> c, contains |-> TRUE, val |-> v] \in EdgeRecords
    BY DEF EdgeRecords
  <2>3. QED
    BY <1>3, <2>1, <2>2 DEF MoveSubtree, o
<1>8. CASE \E p \in Nodes, E \in SUBSET Edges, v \in Values : ReorderChildren(t, p, E, v)
  <2>1. PICK p \in Nodes, E \in SUBSET Edges, v \in Values : ReorderChildren(t, p, E, v)
    BY <1>8
  <2> DEFINE w == [o EXCEPT !.edgePuts = [e \in Edges |-> IF e \in E THEN [Edge(t, e) EXCEPT !.val = v]
                                                          ELSE @[e]],
                            !.edgeDeletes = @ \ E]
  <2>2. Stage(t, w, Cardinality(Children(t, p)), {}, E)
    BY <2>1 DEF ReorderChildren, o
  <2>3. \A e \in E : [Edge(t, e) EXCEPT !.val = v] \in EdgeRecords
    BY <2>1, EdgeType DEF ReorderChildren, HierarchyEdges, EdgeRecords
  <2>4. w \in WriteSets
    BY <1>o, <2>3 DEF WriteSets, WriteRecords
  <2>5. AgreesOutside(t, w, {}, E)
    BY <1>o DEF AgreesOutside, WriteSets, WriteRecords, o
  <2>6. Children(t, p) # {} /\ Children(t, p) \in SUBSET Nodes
    <3>1. \A e \in HierarchyEdges(t) : Edge(t, e).to \in Nodes
      BY EdgeType DEF HierarchyEdges, EdgeRecords
    <3>2. QED
      BY <2>1, <3>1 DEF ReorderChildren, Children
  <2>7. Cardinality(Children(t, p)) \in Nat \ {0}
    BY <2>6, CountType
  <2>8. QED
    BY <2>2, <2>4, <2>5, <2>7 DEF MutationStep
<1>9. QED
  BY <1>1, <1>2, <1>4, <1>5, <1>6, <1>7, <1>8 DEF Mutate

-----------------------------------------------------------------------------
(* Type correctness.                                                       *)

\* The undo entries after the ids N and E were touched for the first time or
\* again (module.go, recordNodeMutationLocked and recordEdgeMutationLocked).
Undo(t, N, E) ==
    LET sc == scope[t]
        o  == overlay[t].writes IN
    [nodePuts    |-> [n \in Nodes |-> IF n \in N \ sc.nodes THEN o.nodePuts[n]
                                      ELSE sc.undo.nodePuts[n]],
     nodeDeletes |-> sc.undo.nodeDeletes \cup ((N \ sc.nodes) \cap o.nodeDeletes),
     edgePuts    |-> [e \in Edges |-> IF e \in E \ sc.edges THEN o.edgePuts[e]
                                      ELSE sc.undo.edgePuts[e]],
     edgeDeletes |-> sc.undo.edgeDeletes \cup ((E \ sc.edges) \cap o.edgeDeletes)]

\* Journaling keeps the undo journal well-typed.
LEMMA JournalType ==
  ASSUME TypeOK, NEW t \in Txns, NEW N \in SUBSET Nodes, NEW E \in SUBSET Edges
  PROVE  Journal(t, N, E) \in Scopes \cup {None}
<1>1. scope[t] \in Scopes \cup {None} /\ overlay[t].writes \in WriteSets
  BY DEF TypeOK, Overlays
<1>2. CASE scope[t] = None \/ scope[t].opCount = 0
  BY <1>1, <1>2 DEF Journal
<1>3. CASE ~(scope[t] = None \/ scope[t].opCount = 0)
  <2>1. Journal(t, N, E) = [opCount |-> scope[t].opCount, before |-> scope[t].before,
                            nodes |-> scope[t].nodes \cup N, edges |-> scope[t].edges \cup E,
                            undo |-> Undo(t, N, E)]
    BY <1>3 DEF Journal, Undo
  <2>2. Undo(t, N, E) \in WriteRecords
    BY <1>1, <1>3 DEF Undo, Scopes, WriteSets, WriteRecords
  <2>3. QED
    BY <1>1, <1>3, <2>1, <2>2 DEF Scopes
<1>4. QED
  BY <1>2, <1>3

\* What a finished statement restores is an overlay (module.go,
\* restoreMutationScopeLocked).
LEMMA RestoreScopeType ==
  ASSUME TypeOK, StatementAtomicity, NEW t \in Txns, scope[t] # None
  PROVE  RestoreScope(t) \in Overlays
  BY DEF TypeOK, StatementAtomicity, Scopes

\* An overlay without operations is empty (module.go: each stage function
\* counts an operation and restoring puts the count back with the entries).
NoOpsNoWrites ==
    \A t \in Txns : overlay[t].opCount = 0 => overlay[t] = EmptyOverlay

\* Facts about one step that the proofs below share.
StepInv == TypeOK /\ StatementAtomicity /\ NoOpsNoWrites

\* The initial state of the service: no transaction, no overlay, no statement.
LEMMA InitStepInv == Init => StepInv
<1> SUFFICES ASSUME Init PROVE StepInv
  OBVIOUS
<1>1. store \in Stores
  <2>1. PICK w \in SeedWrites : store = ApplyWrites(EmptyStore, w)
    BY DEF Init
  <2>2. QED
    BY <2>1, EmptyStoreShape, ApplyWritesType DEF SeedWrites
<1>2. EmptyOverlay \in Overlays
  BY NoWritesType, FiniteAssumption DEF EmptyOverlay, Overlays
<1>3. commits \in Seq(CommitRecords)
  BY DEF Init
<1>4. TypeOK
  BY <1>1, <1>2, <1>3 DEF Init, TypeOK
<1>5. QED
  BY <1>4 DEF Init, StepInv, StatementAtomicity, NoOpsNoWrites

\* A mutation leaves what the open statement would restore as it was
\* (module.go, the undo journal records the first touch of an id).
LEMMA MutationKeepsUndo ==
  ASSUME StepInv, NEW t \in Txns, MutationStep(t), scope[t] # None
  PROVE  RestoreScope(t)' = RestoreScope(t) /\ scope'[t] # None /\ scope'[t].before = scope[t].before
<1>1. PICK w \in WriteSets, k \in Nat \ {0}, N \in SUBSET Nodes, E \in SUBSET Edges :
         AgreesOutside(t, w, N, E) /\ Stage(t, w, k, N, E)
  BY DEF MutationStep
<1>2. /\ overlay[t].writes \in WriteSets
      /\ scope[t] \in Scopes
      /\ overlay \in [Txns -> Overlays]
      /\ scope \in [Txns -> Scopes \cup {None}]
  BY DEF StepInv, TypeOK, Overlays
<1>3. /\ overlay'[t].writes = w
      /\ scope'[t] = Journal(t, N, E)
  BY <1>1, <1>2 DEF Stage
<1>4. CASE scope[t].opCount = 0
  <2>1. scope'[t] = scope[t]
    BY <1>3, <1>4 DEF Journal
  <2>2. QED
    BY <1>4, <2>1 DEF RestoreScope
<1>5. CASE scope[t].opCount # 0
  <2> DEFINE sc == scope[t]
             sn == scope'[t]
             o  == overlay[t].writes
  <2>1. /\ sn \in Scopes /\ sn.opCount = sc.opCount /\ sn.before = sc.before
        /\ sn.nodes = sc.nodes \cup N /\ sn.edges = sc.edges \cup E
        /\ \A n \in Nodes : sn.undo.nodePuts[n] =
              IF n \in N \ sc.nodes THEN o.nodePuts[n] ELSE sc.undo.nodePuts[n]
        /\ \A e \in Edges : sn.undo.edgePuts[e] =
              IF e \in E \ sc.edges THEN o.edgePuts[e] ELSE sc.undo.edgePuts[e]
        /\ sn.undo.nodeDeletes = sc.undo.nodeDeletes \cup ((N \ sc.nodes) \cap o.nodeDeletes)
        /\ sn.undo.edgeDeletes = sc.undo.edgeDeletes \cup ((E \ sc.edges) \cap o.edgeDeletes)
    <3>1. sn = [opCount |-> sc.opCount, before |-> sc.before, nodes |-> sc.nodes \cup N,
                edges |-> sc.edges \cup E, undo |-> Undo(t, N, E)]
      BY <1>3, <1>5 DEF Journal, Undo
    <3>2. sn \in Scopes \cup {None}
      BY <1>3, JournalType DEF StepInv
    <3>3. sn # None
      <4>1. Undo(t, N, E) \in WriteRecords
        BY <1>2 DEF Undo, Scopes, WriteSets, WriteRecords
      <4>2. QED
        BY <1>2, <3>1, <4>1, ScopeAssumption DEF Scopes
    <3>4. /\ sn.opCount = sc.opCount /\ sn.before = sc.before /\ sn.undo = Undo(t, N, E)
          /\ sn.nodes = sc.nodes \cup N /\ sn.edges = sc.edges \cup E
      BY <3>1
    <3>5. /\ \A n \in Nodes : Undo(t, N, E).nodePuts[n] =
                IF n \in N \ sc.nodes THEN o.nodePuts[n] ELSE sc.undo.nodePuts[n]
          /\ \A e \in Edges : Undo(t, N, E).edgePuts[e] =
                IF e \in E \ sc.edges THEN o.edgePuts[e] ELSE sc.undo.edgePuts[e]
          /\ Undo(t, N, E).nodeDeletes = sc.undo.nodeDeletes \cup ((N \ sc.nodes) \cap o.nodeDeletes)
          /\ Undo(t, N, E).edgeDeletes = sc.undo.edgeDeletes \cup ((E \ sc.edges) \cap o.edgeDeletes)
      BY DEF Undo
    <3> HIDE DEF sn
    <3>6. QED
      BY <3>2, <3>3, <3>4, <3>5
  <2>2. \A n \in Nodes : (IF n \in sn.nodes THEN sn.undo.nodePuts[n] ELSE w.nodePuts[n])
                        = (IF n \in sc.nodes THEN sc.undo.nodePuts[n] ELSE o.nodePuts[n])
    BY <1>1, <2>1 DEF AgreesOutside
  <2>3. \A e \in Edges : (IF e \in sn.edges THEN sn.undo.edgePuts[e] ELSE w.edgePuts[e])
                        = (IF e \in sc.edges THEN sc.undo.edgePuts[e] ELSE o.edgePuts[e])
    BY <1>1, <2>1 DEF AgreesOutside
  <2>4. (w.nodeDeletes \ sn.nodes) \cup sn.undo.nodeDeletes
          = (o.nodeDeletes \ sc.nodes) \cup sc.undo.nodeDeletes
    BY <1>1, <1>2, <2>1 DEF AgreesOutside, WriteSets, WriteRecords
  <2>5. (w.edgeDeletes \ sn.edges) \cup sn.undo.edgeDeletes
          = (o.edgeDeletes \ sc.edges) \cup sc.undo.edgeDeletes
    BY <1>1, <1>2, <2>1 DEF AgreesOutside, WriteSets, WriteRecords
  <2>6. sn # None
    BY <2>1, ScopeAssumption
  <2>7. QED
    BY ZenonT(60), <1>3, <1>5, <2>1, <2>2, <2>3, <2>4, <2>5, <2>6 DEF RestoreScope
<1>6. QED
  BY <1>4, <1>5

\* RestoreScope of a transaction depends on its own journal and overlay only.
LEMMA RestoreScopeLocal ==
  ASSUME NEW u \in Txns, scope'[u] = scope[u], overlay'[u] = overlay[u]
  PROVE  RestoreScope(u)' = RestoreScope(u)
  BY DEF RestoreScope

\* A mutation keeps the step invariant.
LEMMA MutationKeepsStepInv ==
  ASSUME StepInv, NEW t \in Txns, MutationStep(t)
  PROVE  StepInv'
<1>1. PICK w \in WriteSets, k \in Nat \ {0}, N \in SUBSET Nodes, E \in SUBSET Edges :
         AgreesOutside(t, w, N, E) /\ Stage(t, w, k, N, E)
  BY DEF MutationStep
<1>2. overlay[t].opCount \in 0 .. MaxOps
  BY DEF StepInv, TypeOK, Overlays
<1> DEFINE ov == [writes |-> w, opCount |-> overlay[t].opCount + k]
<1>3. ov \in Overlays /\ ov.opCount # 0
  BY <1>1, <1>2, FiniteAssumption DEF Stage, Overlays
<1>4. overlay' = [overlay EXCEPT ![t] = ov]
  BY <1>1 DEF Stage
<1>5. TypeOK'
  BY <1>1, <1>3, <1>4, JournalType DEF StepInv, TypeOK, Stage
<1>6. NoOpsNoWrites'
  BY <1>3, <1>4 DEF StepInv, TypeOK, NoOpsNoWrites
<1>7. StatementAtomicity'
  <2> SUFFICES ASSUME NEW u \in Txns, scope'[u] # None
               PROVE  RestoreScope(u)' = scope'[u].before
    BY DEF StatementAtomicity
  <2>1. CASE u = t
    <3>1. scope[t] # None
      BY <1>1, <2>1 DEF Stage, Journal, StepInv, TypeOK
    <3>2. QED
      BY <2>1, <3>1, MutationKeepsUndo DEF StepInv, StatementAtomicity
  <2>2. CASE u # t
    <3>1. scope'[u] = scope[u] /\ overlay'[u] = overlay[u]
      BY <1>1, <1>4, <2>2 DEF Stage, StepInv, TypeOK
    <3>2. QED
      BY <3>1, RestoreScopeLocal DEF StepInv, StatementAtomicity
  <2>3. QED
    BY <2>1, <2>2
<1>8. QED
  BY <1>5, <1>6, <1>7 DEF StepInv

\* Every step of the service keeps the step invariant.
LEMMA NextKeepsStepInv == StepInv /\ [Next]_vars => StepInv'
<1> SUFFICES ASSUME StepInv, [Next]_vars
             PROVE  StepInv'
  OBVIOUS
<1>e. EmptyOverlay \in Overlays /\ EmptyOverlay.opCount = 0 /\ None \notin Scopes
  BY NoWritesType, FiniteAssumption, ScopeAssumption DEF EmptyOverlay, Overlays
<1>1. CASE UNCHANGED vars
  <2>1. \A u \in Txns : RestoreScope(u)' = RestoreScope(u)
    BY <1>1, RestoreScopeLocal DEF vars
  <2>2. QED
    BY <1>1, <2>1 DEF vars, StepInv, TypeOK, StatementAtomicity, NoOpsNoWrites
<1>2. CASE \E t \in Txns : Mutate(t)
  BY <1>2, MutateIsStage, MutationKeepsStepInv DEF StepInv
<1>3. ASSUME NEW t \in Txns, BeginTransaction(t)
      PROVE  StepInv'
  <2>1. \A u \in Txns : RestoreScope(u)' = RestoreScope(u)
    BY <1>3, RestoreScopeLocal DEF BeginTransaction
  <2>2. TypeOK'
    BY <1>3 DEF BeginTransaction, StepInv, TypeOK, Stores
  <2>3. QED
    BY <1>3, <2>1, <2>2 DEF BeginTransaction, StepInv, StatementAtomicity, NoOpsNoWrites
<1>4. ASSUME NEW t \in Txns, BeginMutationStatement(t)
      PROVE  StepInv'
  <2> DEFINE sc == [opCount |-> overlay[t].opCount, nodes |-> {}, edges |-> {},
                    undo |-> NoWrites, before |-> overlay[t]]
  <2>1. overlay[t] \in Overlays /\ sc \in Scopes
    BY NoWritesType DEF StepInv, TypeOK, Scopes, Overlays, WriteSets
  <2>2. scope' = [scope EXCEPT ![t] = sc] /\ overlay' = overlay
    BY <1>4 DEF BeginMutationStatement
  <2>3. TypeOK' /\ NoOpsNoWrites'
    BY <1>4, <2>1, <2>2 DEF BeginMutationStatement, StepInv, TypeOK, NoOpsNoWrites
  <2>4. RestoreScope(t)' = overlay[t]
    <3>1. scope'[t] = sc
      BY <2>2 DEF StepInv, TypeOK
    <3>2. CASE overlay[t].opCount = 0
      BY <2>2, <3>1, <3>2 DEF RestoreScope, StepInv, NoOpsNoWrites
    <3>3. CASE overlay[t].opCount # 0
      <4>1. overlay[t].writes \in WriteRecords
        BY <2>1 DEF Overlays, WriteSets
      <4> DEFINE o == overlay[t].writes
                 r == [nodePuts    |-> [n \in Nodes |-> IF n \in {} THEN NoWrites.nodePuts[n]
                                                        ELSE o.nodePuts[n]],
                       nodeDeletes |-> (o.nodeDeletes \ {}) \cup NoWrites.nodeDeletes,
                       edgePuts    |-> [e \in Edges |-> IF e \in {} THEN NoWrites.edgePuts[e]
                                                        ELSE o.edgePuts[e]],
                       edgeDeletes |-> (o.edgeDeletes \ {}) \cup NoWrites.edgeDeletes]
      <4>2. RestoreScope(t)' = [writes |-> r, opCount |-> overlay[t].opCount]
        <5>1. /\ scope'[t].opCount = overlay[t].opCount /\ scope'[t].undo = NoWrites
              /\ scope'[t].nodes = {} /\ scope'[t].edges = {}
          BY <3>1
        <5>2. overlay'[t] = overlay[t]
          BY <2>2
        <5>3. QED
          BY <3>3, <5>1, <5>2, Zenon DEF RestoreScope
      <4>3. r.nodePuts = o.nodePuts /\ r.edgePuts = o.edgePuts
        BY <4>1 DEF WriteRecords
      <4>4. r.nodeDeletes = o.nodeDeletes /\ r.edgeDeletes = o.edgeDeletes
        BY <4>1 DEF WriteRecords, NoWrites
      <4>5. r = o
        BY <4>1, <4>3, <4>4 DEF WriteRecords
      <4>6. QED
        BY <2>1, <4>2, <4>5 DEF Overlays
    <3>4. QED
      BY <3>2, <3>3
  <2>5. StatementAtomicity'
    <3> SUFFICES ASSUME NEW u \in Txns, scope'[u] # None
                 PROVE  RestoreScope(u)' = scope'[u].before
      BY DEF StatementAtomicity
    <3>1. CASE u = t
      BY <2>2, <2>4, <3>1 DEF StepInv, TypeOK
    <3>2. CASE u # t
      BY <2>2, <3>2, RestoreScopeLocal DEF StepInv, TypeOK, StatementAtomicity
    <3>3. QED
      BY <3>1, <3>2
  <2>6. QED
    BY <2>3, <2>5 DEF StepInv
<1>5. ASSUME NEW t \in Txns, NEW commit \in BOOLEAN, FinishMutationStatement(t, commit)
      PROVE  StepInv'
  <2> DEFINE ov == IF commit THEN overlay[t] ELSE RestoreScope(t)
  <2>1. overlay' = [overlay EXCEPT ![t] = ov] /\ scope' = [scope EXCEPT ![t] = None]
    BY <1>5 DEF FinishMutationStatement
  <2>2. ov \in Overlays
    BY <1>5, RestoreScopeType DEF FinishMutationStatement, StepInv, TypeOK
  <2>3. ov.opCount = 0 => ov = EmptyOverlay
    BY <1>5 DEF FinishMutationStatement, StepInv, NoOpsNoWrites, RestoreScope
  <2> HIDE DEF ov
  <2>4. TypeOK' /\ NoOpsNoWrites'
    BY <1>5, <2>1, <2>2, <2>3 DEF FinishMutationStatement, StepInv, TypeOK, NoOpsNoWrites
  <2>5. StatementAtomicity'
    BY <2>1, RestoreScopeLocal DEF StepInv, TypeOK, StatementAtomicity
  <2>6. QED
    BY <2>4, <2>5 DEF StepInv
<1>6. ASSUME NEW t \in Txns, CommitEmpty(t)
      PROVE  StepInv'
  <2>1. \A u \in Txns : RestoreScope(u)' = RestoreScope(u)
    BY <1>6, RestoreScopeLocal DEF CommitEmpty
  <2>2. QED
    BY <1>6, <2>1 DEF CommitEmpty, StepInv, TypeOK, StatementAtomicity, NoOpsNoWrites
<1>7. ASSUME NEW t \in Txns, CommitStore(t) \/ DiscardTransactionGraph(t)
      PROVE  StepInv'
  <2>1. /\ overlay' = [overlay EXCEPT ![t] = EmptyOverlay]
        /\ scope' = scope /\ scope[t] = None /\ base' = base
        /\ state' = [state EXCEPT ![t] = "committed"] \/ state' = [state EXCEPT ![t] = "discarded"]
    BY <1>7 DEF CommitStore, DiscardTransactionGraph
  <2>2. overlay[t].writes \in WriteSets
    BY DEF StepInv, TypeOK, Overlays
  <2>3. store' \in Stores
    BY <1>7, <2>2, ApplyWritesType DEF CommitStore, DiscardTransactionGraph, StepInv, TypeOK
  <2>4. commits' \in Seq(CommitRecords)
    <3>1. CASE CommitStore(t)
      <4>1. [base |-> base[t], at |-> store.revision + 1, writes |-> overlay[t].writes] \in CommitRecords
        BY <2>2 DEF StepInv, TypeOK, Stores, CommitRecords
      <4>2. QED
        BY <3>1, <4>1 DEF CommitStore, StepInv, TypeOK
    <3>2. CASE DiscardTransactionGraph(t)
      BY <3>2 DEF DiscardTransactionGraph, StepInv, TypeOK
    <3>3. QED
      BY <1>7, <3>1, <3>2
  <2>5. TypeOK' /\ NoOpsNoWrites'
    BY <1>e, <2>1, <2>3, <2>4 DEF StepInv, TypeOK, NoOpsNoWrites
  <2>6. StatementAtomicity'
    BY <2>1, RestoreScopeLocal DEF StepInv, TypeOK, StatementAtomicity
  <2>7. QED
    BY <2>5, <2>6 DEF StepInv
<1>8. QED
  BY <1>1, <1>2, <1>3, <1>4, <1>5, <1>6, <1>7 DEF Next

\* The variables of the service keep their types, and in particular an overlay
\* never holds a put and a delete of one id (module.go, stage functions).
THEOREM TypeCorrect == Spec => []TypeOK
<1>1. StepInv => TypeOK
  BY DEF StepInv
<1>2. QED
  BY <1>1, InitStepInv, NextKeepsStepInv, PTL DEF Spec

\* A statement that fails leaves the transaction as it found it, whatever it
\* staged, deleted and staged again (module.go, mutationScope).
THEOREM StatementsAtomic == Spec => []StatementAtomicity
<1>1. StepInv => StatementAtomicity
  BY DEF StepInv
<1>2. QED
  BY <1>1, InitStepInv, NextKeepsStepInv, PTL DEF Spec

-----------------------------------------------------------------------------
(* The shape of the graph, and first committer wins.                       *)

\* The committed writes are in the past of the store and the modification
\* revisions remember them (txn.go, nodeModRev and edgeModRev).
CommitsRemembered ==
    \A i \in 1 .. Len(commits) :
        /\ commits[i].at <= store.revision
        /\ \A n \in WrittenNodes(commits[i].writes) : store.nodeMod[n] >= commits[i].at
        /\ \A e \in WrittenEdges(commits[i].writes) : store.edgeMod[e] >= commits[i].at

CommitInv == ShapeInv /\ CommitsRemembered /\ NoLostUpdate

\* Before any transaction the store has its shape and nothing is committed.
LEMMA InitCommitInv == Init => CommitInv
<1> SUFFICES ASSUME Init PROVE CommitInv
  OBVIOUS
<1>1. PICK w \in SeedWrites : store = ApplyWrites(EmptyStore, w)
  BY DEF Init
<1>2. ShapeInv
  BY <1>1, EmptyStoreShape, CommitKeepsShape DEF SeedWrites, ShapeInv
<1>3. QED
  BY <1>2 DEF Init, CommitInv, CommitsRemembered, NoLostUpdate

\* What a write set names is in the graph's id sets.
LEMMA WrittenType ==
  ASSUME NEW w \in WriteSets
  PROVE  WrittenNodes(w) \in SUBSET Nodes /\ WrittenEdges(w) \in SUBSET Edges
  BY DEF WriteSets, WriteRecords, WrittenNodes, WrittenEdges

\* A commit keeps the shape, is remembered, and overwrites no concurrent one.
LEMMA CommitStoreKeepsInv ==
  ASSUME StepInv, CommitInv, NEW t \in Txns, CommitStore(t)
  PROVE  CommitInv'
<1> DEFINE w == overlay[t].writes
           c == [base |-> base[t], at |-> store.revision + 1, writes |-> w]
           L == Len(commits)
<1>1. /\ store \in Stores /\ w \in WriteSets /\ base[t] \in Nat
      /\ commits \in Seq(CommitRecords) /\ store.revision \in Nat
  BY DEF StepInv, TypeOK, Overlays, Stores
<1>2. ~Conflict(store, w, base[t]) /\ store' = ApplyWrites(store, w) /\ commits' = Append(commits, c)
  BY DEF CommitStore
<1>3. ShapeInv'
  BY <1>1, <1>2, CommitKeepsShape DEF CommitInv, ShapeInv
<1>4. /\ store'.revision = store.revision + 1
      /\ \A n \in Nodes : store'.nodeMod[n] =
            IF n \in WrittenNodes(w) THEN store.revision + 1 ELSE store.nodeMod[n]
      /\ \A e \in Edges : store'.edgeMod[e] =
            IF e \in WrittenEdges(w) THEN store.revision + 1 ELSE store.edgeMod[e]
  BY <1>2 DEF ApplyWrites
<1>5. /\ Len(commits') = L + 1 /\ L \in Nat /\ commits'[L + 1] = c
      /\ \A i \in 1 .. L : commits'[i] = commits[i] /\ commits[i] \in CommitRecords
  BY <1>1, <1>2
<1>6. \A i \in 1 .. L : /\ commits[i].at \in Nat /\ commits[i].base \in Nat
                        /\ WrittenNodes(commits[i].writes) \in SUBSET Nodes
                        /\ WrittenEdges(commits[i].writes) \in SUBSET Edges
  BY <1>5, WrittenType DEF CommitRecords
<1>7. /\ \A n \in Nodes : store.nodeMod[n] \in Nat /\ store.nodeMod[n] <= store.revision
      /\ \A e \in Edges : store.edgeMod[e] \in Nat /\ store.edgeMod[e] <= store.revision
  BY <1>1 DEF CommitInv, ShapeInv, GraphShape, ModRevisionsBounded, Stores
<1>8. CommitsRemembered'
  <2> SUFFICES ASSUME NEW i \in 1 .. L + 1
               PROVE  /\ commits'[i].at <= store'.revision
                      /\ \A n \in WrittenNodes(commits'[i].writes) : store'.nodeMod[n] >= commits'[i].at
                      /\ \A e \in WrittenEdges(commits'[i].writes) : store'.edgeMod[e] >= commits'[i].at
    BY <1>5 DEF CommitsRemembered, WrittenNodes, WrittenEdges
  <2>1. CASE i = L + 1
    BY <1>1, <1>4, <1>5, <2>1, WrittenType
  <2>2. CASE i \in 1 .. L
    <3>1. /\ commits[i].at <= store.revision
          /\ \A n \in WrittenNodes(commits[i].writes) : store.nodeMod[n] >= commits[i].at
          /\ \A e \in WrittenEdges(commits[i].writes) : store.edgeMod[e] >= commits[i].at
      BY <2>2 DEF CommitInv, CommitsRemembered
    <3>2. commits'[i] = commits[i]
      BY <1>5, <2>2
    <3>3. commits[i].at <= store'.revision
      BY <1>1, <1>4, <1>6, <2>2, <3>1
    <3>4. ASSUME NEW n \in WrittenNodes(commits[i].writes)
          PROVE  store'.nodeMod[n] >= commits[i].at
      <4>1. n \in Nodes /\ store.nodeMod[n] >= commits[i].at
        BY <1>6, <2>2, <3>1, <3>4
      <4>2. store'.nodeMod[n] = store.revision + 1 \/ store'.nodeMod[n] = store.nodeMod[n]
        BY <1>4, <4>1
      <4>3. store.nodeMod[n] \in Nat /\ commits[i].at \in Nat /\ commits[i].at <= store.revision
        BY <1>6, <1>7, <2>2, <3>1, <4>1
      <4>4. QED
        BY <1>1, <4>1, <4>2, <4>3
    <3>5. ASSUME NEW e \in WrittenEdges(commits[i].writes)
          PROVE  store'.edgeMod[e] >= commits[i].at
      <4>1. e \in Edges /\ store.edgeMod[e] >= commits[i].at
        BY <1>6, <2>2, <3>1, <3>5
      <4>2. store'.edgeMod[e] = store.revision + 1 \/ store'.edgeMod[e] = store.edgeMod[e]
        BY <1>4, <4>1
      <4>3. store.edgeMod[e] \in Nat /\ commits[i].at \in Nat /\ commits[i].at <= store.revision
        BY <1>6, <1>7, <2>2, <3>1, <4>1
      <4>4. QED
        BY <1>1, <4>1, <4>2, <4>3
    <3>6. QED
      BY <3>2, <3>3, <3>4, <3>5, Zenon
  <2>3. QED
    BY <1>5, <2>1, <2>2
<1>9. NoLostUpdate'
  <2> SUFFICES ASSUME NEW i \in 1 .. L + 1, NEW j \in 1 .. L + 1,
                      i < j, commits'[j].base < commits'[i].at
               PROVE  /\ WrittenNodes(commits'[i].writes) \cap WrittenNodes(commits'[j].writes) = {}
                      /\ WrittenEdges(commits'[i].writes) \cap WrittenEdges(commits'[j].writes) = {}
    BY <1>5 DEF NoLostUpdate, WrittenNodes, WrittenEdges
  <2>1. i \in 1 .. L
    BY <1>5
  <2>2. CASE j \in 1 .. L
    BY <1>5, <2>1, <2>2 DEF CommitInv, NoLostUpdate
  <2>3. CASE j = L + 1
    <3>1. /\ \A n \in WrittenNodes(w) : ~(store.nodeMod[n] > base[t])
          /\ \A e \in WrittenEdges(w) : ~(store.edgeMod[e] > base[t])
      BY <1>2 DEF Conflict, WriteSetConflict
    <3>2. /\ \A n \in WrittenNodes(commits[i].writes) : store.nodeMod[n] >= commits[i].at
          /\ \A e \in WrittenEdges(commits[i].writes) : store.edgeMod[e] >= commits[i].at
      BY <2>1 DEF CommitInv, CommitsRemembered
    <3>3. base[t] < commits[i].at
      BY <1>5, <2>1, <2>3
    <3>4. \A n \in WrittenNodes(commits[i].writes) : n \notin WrittenNodes(w)
      BY SMTT(60), <1>1, <1>6, <1>7, <2>1, <3>1, <3>2, <3>3
    <3>5. \A e \in WrittenEdges(commits[i].writes) : e \notin WrittenEdges(w)
      BY SMTT(60), <1>1, <1>6, <1>7, <2>1, <3>1, <3>2, <3>3
    <3>6. commits'[i] = commits[i] /\ commits'[j].writes = w
      BY <1>5, <2>1, <2>3
    <3>7. QED
      BY <3>4, <3>5, <3>6, Zenon
  <2>4. QED
    BY <1>5, <2>2, <2>3
<1>10. QED
  BY <1>3, <1>8, <1>9 DEF CommitInv

\* Every step keeps what commits promise: only CommitStore changes the store.
LEMMA NextKeepsCommitInv == StepInv /\ CommitInv /\ [Next]_vars => CommitInv'
<1> SUFFICES ASSUME StepInv, CommitInv, [Next]_vars
             PROVE  CommitInv'
  OBVIOUS
<1>1. CASE \E t \in Txns : CommitStore(t)
  BY <1>1, CommitStoreKeepsInv
<1>2. CASE store' = store /\ commits' = commits
  BY <1>2 DEF CommitInv, ShapeInv, CommitsRemembered, NoLostUpdate
<1>3. (\E t \in Txns : CommitStore(t)) \/ (store' = store /\ commits' = commits)
  <2>1. \A t \in Txns : Mutate(t) => store' = store /\ commits' = commits
    BY MutateIsStage DEF MutationStep, Stage, StepInv
  <2>2. QED
    BY <2>1 DEF Next, vars, BeginTransaction, BeginMutationStatement, FinishMutationStatement,
                CommitEmpty, DiscardTransactionGraph
<1>4. QED
  BY <1>1, <1>2, <1>3

\* Any number of transactions, staging on reads however stale, leave a graph
\* without dangling edges, with one parent per node and an exact parent index
\* (txn.go, invariantConflict).
THEOREM ShapeAlways == Spec => []ShapeInv
<1>1. CommitInv => ShapeInv
  BY DEF CommitInv
<1>2. QED
  BY <1>1, InitStepInv, NextKeepsStepInv, InitCommitInv, NextKeepsCommitInv, PTL DEF Spec

\* No commit overwrites an entity that a commit it did not see has written
\* (txn.go, writeSetConflict).
THEOREM FirstCommitterWins == Spec => []NoLostUpdate
<1>1. CommitInv => NoLostUpdate
  BY DEF CommitInv
<1>2. QED
  BY <1>1, InitStepInv, NextKeepsStepInv, InitCommitInv, NextKeepsCommitInv, PTL DEF Spec

-----------------------------------------------------------------------------
(* Part 2.  PartitionReplica.                                              *)

\* A log entry carries the base revision of its command's transaction, which
\* does not change any more.
BaseInv ==
    \A i \in DOMAIN prLog : prBase[prLog[i].cmd] # None /\ prLog[i].base = prBase[prLog[i].cmd]

\* A stored snapshot names entries of the log.
SnapshotInv ==
    \A r \in Members : prSnapshot[r] # None =>
        \A i \in DOMAIN prSnapshot[r].held : prSnapshot[r].held[i] \in 1..Len(prLog)

\* The part of the graph's shape that does not depend on modification revisions.
Graphlike(s) == NoDanglingEdges(s) /\ ParentIndexExact(s)

\* Every graph on a member and in a snapshot has it.
MemberShapes ==
    \A r \in Members : Graphlike(prStore[r]) /\ (prSnapshot[r] # None => Graphlike(prSnapshot[r].store))

\* All that w writes was modified after revision b.
ModifiedSince(s, w, b) ==
    /\ \A n \in WrittenNodes(w) : s.nodeMod[n] > b
    /\ \A e \in WrittenEdges(w) : s.edgeMod[e] > b

\* On a member with its own modification revisions, these are not in the future
\* and tell that the writes of every entry it holds were made.
HistoryInv ==
    \A r \in Members \ prRebuilt :
        /\ ModRevisionsBounded(prStore[r])
        /\ \A i \in DOMAIN prHeld[r] :
              LET entry == prLog[prHeld[r][i]]
              IN  ModifiedSince(prStore[r], CommandWrites[entry.cmd], entry.base)

PrInv == PrTypeOK /\ BaseInv /\ SnapshotInv /\ MemberShapes /\ HistoryInv /\ AtMostOnce

-----------------------------------------------------------------------------
(* Operators.                                                              *)

\* A command writes something (graphCommitRecord with an operation count above
\* zero; module.go, CommitTransactionGraph).
LEMMA CommandsWrite ==
  ASSUME NEW c \in GraphCommands
  PROVE  /\ CommandWrites[c] \in WriteSets
         /\ WrittenNodes(CommandWrites[c]) \cup WrittenEdges(CommandWrites[c]) # {}
<1> DEFINE w == CommandWrites[c]
<1>1. w \in WriteSets /\ w # NoWrites
  BY PartitionAssumption
<1>2. ASSUME WrittenNodes(w) = {}, WrittenEdges(w) = {}
      PROVE  w = NoWrites
  <2>1. w \in WriteRecords
    BY <1>1 DEF WriteSets
  <2>2. w.nodeDeletes = {} /\ w.edgeDeletes = {}
    BY <1>2 DEF WrittenNodes, WrittenEdges
  <2>3. w.nodePuts = [n \in Nodes |-> None]
    BY <1>2, <2>1 DEF WrittenNodes, WriteRecords
  <2>4. w.edgePuts = [e \in Edges |-> None]
    BY <1>2, <2>1 DEF WrittenEdges, WriteRecords
  <2> QED
    BY <2>1, <2>2, <2>3, <2>4 DEF WriteRecords, NoWrites
<1> QED
  BY <1>1, <1>2

\* A command whose writes were made conflicts with itself (txn.go,
\* writeSetConflict).
LEMMA ConflictsWithItself ==
  ASSUME NEW c \in GraphCommands, NEW s, NEW b, ModifiedSince(s, CommandWrites[c], b)
  PROVE  Conflict(s, CommandWrites[c], b)
  BY CommandsWrite DEF ModifiedSince, Conflict, WriteSetConflict

\* What a commit writes is modified since every revision up to the store's, and
\* what was modified since some revision stays so (txn.go, CommitWithInfo).
LEMMA CommitModifies ==
  ASSUME NEW s \in Stores, ModRevisionsBounded(s), NEW w \in WriteSets, NEW b \in Nat
  PROVE  /\ b <= s.revision => ModifiedSince(ApplyWrites(s, w), w, b)
         /\ \A v \in WriteSets : ModifiedSince(s, v, b) => ModifiedSince(ApplyWrites(s, w), v, b)
<1> DEFINE a == ApplyWrites(s, w)
<1>1. s.revision \in Nat /\ s.nodeMod \in [Nodes -> Nat] /\ s.edgeMod \in [Edges -> Nat]
  BY DEF Stores
<1>2. \A v \in WriteSets : WrittenNodes(v) \subseteq Nodes /\ WrittenEdges(v) \subseteq Edges
  BY DEF WriteSets, WriteRecords, WrittenNodes, WrittenEdges
<1>3. \A n \in Nodes : a.nodeMod[n] = IF n \in WrittenNodes(w) THEN s.revision + 1 ELSE s.nodeMod[n]
  BY DEF ApplyWrites
<1>4. \A e \in Edges : a.edgeMod[e] = IF e \in WrittenEdges(w) THEN s.revision + 1 ELSE s.edgeMod[e]
  BY DEF ApplyWrites
<1>5. \A n \in Nodes : s.nodeMod[n] > b => a.nodeMod[n] > b
  BY <1>1, <1>3 DEF ModRevisionsBounded
<1>6. \A e \in Edges : s.edgeMod[e] > b => a.edgeMod[e] > b
  BY <1>1, <1>4 DEF ModRevisionsBounded
<1> HIDE DEF a
<1>7. b <= s.revision => ModifiedSince(a, w, b)
  BY <1>1, <1>2, <1>3, <1>4 DEF ModifiedSince
<1>8. ASSUME NEW v \in WriteSets, ModifiedSince(s, v, b)
      PROVE  ModifiedSince(a, v, b)
  BY <1>2, <1>5, <1>6, <1>8 DEF ModifiedSince
<1> QED
  BY <1>7, <1>8 DEF a

\* A store that is opened without a checkpoint is the one that was closed
\* (checkpoint.go, hydrateCheckpointFull).
LEMMA ReopenedWithoutCheckpoint ==
  ASSUME NEW s \in Stores
  PROVE  ReopenedStore(s, 0) = s
<1>1. s.nodeMod \in [Nodes -> Nat] /\ s.edgeMod \in [Edges -> Nat]
  BY DEF Stores
<1>2. [n \in Nodes |-> IF s.nodeMod[n] > 0 THEN s.nodeMod[n] ELSE IF s.nodes[n] # None THEN 0 ELSE 0] = s.nodeMod
  BY <1>1
<1>3. [e \in Edges |-> IF s.edgeMod[e] > 0 THEN s.edgeMod[e] ELSE IF s.edges[e] # None THEN 0 ELSE 0] = s.edgeMod
  BY <1>1
<1>4. [s EXCEPT !.nodeMod = s.nodeMod, !.edgeMod = s.edgeMod] = s
  BY DEF Stores
<1> QED
  BY <1>2, <1>3, <1>4, Zenon DEF ReopenedStore

\* Opening and restoring change modification revisions only (checkpoint.go,
\* hydrateCheckpointFull; raft_snapshot.go, restoreGraphSpace).
LEMMA RebuiltStores ==
  ASSUME NEW s \in Stores, NEW k \in Nat, Graphlike(s)
  PROVE  /\ ReopenedStore(s, k) \in Stores /\ Graphlike(ReopenedStore(s, k))
         /\ RestoredStore(s) \in Stores /\ Graphlike(RestoredStore(s))
<1>1. ReopenedStore(s, k) \in Stores
  BY DEF ReopenedStore, Stores
<1>2. RestoredStore(s) \in Stores
  BY DEF RestoredStore, Stores
<1>3. /\ ReopenedStore(s, k).nodes = s.nodes /\ ReopenedStore(s, k).edges = s.edges
      /\ ReopenedStore(s, k).parent = s.parent
  BY DEF ReopenedStore, Stores
<1>4. /\ RestoredStore(s).nodes = s.nodes /\ RestoredStore(s).edges = s.edges
      /\ RestoredStore(s).parent = s.parent
  BY DEF RestoredStore, Stores
<1> QED
  BY <1>1, <1>2, <1>3, <1>4 DEF Graphlike, NoDanglingEdges, ParentIndexExact

\* The entries of the log, and how the indexes of a member relate.
LEMMA LogFacts ==
  ASSUME PrTypeOK
  PROVE  /\ prLog \in Seq([cmd : GraphCommands, base : Nat]) /\ Len(prLog) \in Nat
         /\ DOMAIN prLog = 1..Len(prLog)
         /\ \A i \in 1..Len(prLog) : prLog[i].cmd \in GraphCommands /\ prLog[i].base \in Nat
<1> DEFINE Entries == [cmd : GraphCommands, base : Nat]
<1>1. prLog \in Seq(Entries)
  BY DEF PrTypeOK
<1>2. \A x \in Entries : x.cmd \in GraphCommands /\ x.base \in Nat
  OBVIOUS
<1> HIDE DEF Entries
<1>3. /\ Len(prLog) \in Nat /\ DOMAIN prLog = 1..Len(prLog)
      /\ \A i \in 1..Len(prLog) : prLog[i] \in Entries
  BY <1>1
<1> QED
  BY <1>1, <1>2, <1>3 DEF Entries

\* The indexes of a member are in order.
LEMMA IndexFacts ==
  ASSUME PrTypeOK, NEW r \in Members
  PROVE  /\ prApplied[r] \in Nat /\ prCommit[r] \in Nat /\ prReplayTo[r] \in Nat /\ Len(prLog) \in Nat
         /\ prApplied[r] <= prCommit[r] /\ prReplayTo[r] <= prCommit[r] /\ prCommit[r] <= Len(prLog)
  BY LogFacts DEF PrTypeOK

\* The entry that a member applies next is in the log.
LEMMA NextEntryFacts ==
  ASSUME PrTypeOK, NEW r \in Members, prApplied[r] < prCommit[r]
  PROVE  /\ prApplied[r] + 1 \in 1..Len(prLog)
         /\ NextEntry(r).cmd \in GraphCommands /\ NextEntry(r).base \in Nat
<1>1. prApplied[r] + 1 \in 1..Len(prLog)
  BY IndexFacts
<1> QED
  BY <1>1, LogFacts DEF NextEntry

-----------------------------------------------------------------------------
(* Steps that do not change a graph.                                       *)

\* Neither the graphs nor the snapshots change, and log entries and the bases of
\* logged commands stay.
GraphsKept ==
    /\ prGraphVars' = prGraphVars /\ prSnapshot' = prSnapshot /\ prRebuilt' = prRebuilt
    /\ Len(prLog) <= Len(prLog') /\ \A i \in 1..Len(prLog) : prLog'[i] = prLog[i]

\* What such steps keep whatever they do to indexes, phases, markers and
\* checkpoints.
LEMMA KeptGraphs ==
  ASSUME PrInv, GraphsKept, prLog' \in Seq([cmd : GraphCommands, base : Nat])
  PROVE  /\ SnapshotInv' /\ MemberShapes' /\ HistoryInv' /\ AtMostOnce'
         /\ \A r \in Members : \A i \in DOMAIN prHeld'[r] : prHeld'[r][i] \in 1..Len(prLog')
<1>1. /\ prStore' = prStore /\ prHeld' = prHeld /\ prSnapshot' = prSnapshot /\ prRebuilt' = prRebuilt
  BY DEF GraphsKept, prGraphVars
<1>2. Len(prLog) \in Nat /\ Len(prLog') \in Nat /\ Len(prLog) <= Len(prLog')
  BY DEF PrInv, PrTypeOK, GraphsKept
<1>3. \A r \in Members : \A i \in DOMAIN prHeld[r] :
          prHeld[r][i] \in 1..Len(prLog) /\ prLog'[prHeld[r][i]] = prLog[prHeld[r][i]]
  BY DEF PrInv, PrTypeOK, GraphsKept
<1>4. SnapshotInv'
  BY <1>1, <1>2 DEF PrInv, SnapshotInv
<1>5. MemberShapes'
  BY <1>1 DEF PrInv, MemberShapes
<1>6. HistoryInv'
  BY <1>1, <1>3 DEF PrInv, HistoryInv
<1>7. AtMostOnce'
  BY <1>1, <1>3 DEF PrInv, AtMostOnce
<1> QED
  BY <1>1, <1>2, <1>3, <1>4, <1>5, <1>6, <1>7

\* The transaction of a command begins.
LEMMA TxBeginStep ==
  ASSUME PrInv, NEW c \in GraphCommands, NEW r \in Members, TxBegin(c, r)
  PROVE  PrInv'
<1>1. PrTypeOK /\ BaseInv
  BY DEF PrInv
<1>2. GraphsKept
  BY <1>1 DEF TxBegin, GraphsKept, prGraphVars, prGhosts, PrTypeOK
<1>3. prStore[r].revision \in Nat
  BY <1>1 DEF PrTypeOK, Stores
<1>4. PrTypeOK'
  BY <1>1, <1>3 DEF PrTypeOK, TxBegin, prGraphVars, prIndexVars, prGhosts, prOtherVars
<1>5. \A i \in DOMAIN prLog : prLog[i].cmd # c /\ prLog[i].cmd \in GraphCommands
  BY <1>1, LogFacts DEF TxBegin, BaseInv
<1>6. BaseInv'
  BY <1>1, <1>5 DEF TxBegin, BaseInv, PrTypeOK
<1> QED
  BY <1>2, <1>4, <1>6, KeptGraphs DEF PrInv, PrTypeOK

\* A command is committed.
LEMMA GroupCommitStep ==
  ASSUME PrInv, NEW c \in GraphCommands, GroupCommit(c)
  PROVE  PrInv'
<1>1. PrTypeOK /\ BaseInv
  BY DEF PrInv
<1> DEFINE entry == [cmd |-> c, base |-> prBase[c]]
<1>2. entry \in [cmd : GraphCommands, base : Nat]
  BY <1>1 DEF GroupCommit, PrTypeOK
<1>3. /\ prLog' = Append(prLog, entry) /\ prLog \in Seq([cmd : GraphCommands, base : Nat])
      /\ prLog' \in Seq([cmd : GraphCommands, base : Nat])
  BY <1>1, <1>2 DEF GroupCommit, PrTypeOK
<1>4. /\ Len(prLog) \in Nat /\ Len(prLog') = Len(prLog) + 1 /\ prLog'[Len(prLog) + 1] = entry
      /\ \A i \in 1..Len(prLog) : prLog'[i] = prLog[i]
  BY <1>2, <1>3
<1>5. GraphsKept
  BY <1>4 DEF GroupCommit, GraphsKept, prGraphVars, prGhosts
<1>6. \A r \in Members : \A i \in DOMAIN prHeld'[r] : prHeld'[r][i] \in 1..Len(prLog')
  BY <1>3, <1>5, KeptGraphs
<1>7. \A r \in Members : prCommit[r] <= Len(prLog')
  BY <1>1, <1>4, IndexFacts
<1>8. PrTypeOK'
  BY <1>1, <1>3, <1>6, <1>7 DEF PrTypeOK, GroupCommit, prGraphVars, prIndexVars, prGhosts, prOtherVars
<1>9. BaseInv'
  <2> SUFFICES ASSUME NEW i \in 1..Len(prLog')
               PROVE  prBase[prLog'[i].cmd] # None /\ prLog'[i].base = prBase[prLog'[i].cmd]
    BY <1>3 DEF BaseInv, GroupCommit
  <2>1. CASE i \in 1..Len(prLog)
    BY <1>1, <1>4, <2>1, LogFacts DEF BaseInv
  <2>2. CASE i = Len(prLog) + 1
    BY <1>4, <2>2 DEF GroupCommit
  <2> QED
    BY <1>4, <2>1, <2>2
<1> QED
  BY <1>3, <1>5, <1>8, <1>9, KeptGraphs DEF PrInv

\* The commit index, a marker, an entry without effect, a checkpoint and a crash.
LEMMA IndexSteps ==
  ASSUME PrInv, NEW r \in Members,
         LearnCommit(r) \/ ApplyMark(r) \/ ApplyNoop(r) \/ TakeCheckpoint(r) \/ MemberCrash(r)
  PROVE  PrInv'
<1>1. PrTypeOK /\ BaseInv
  BY DEF PrInv
<1>2. prLog' = prLog /\ prBase' = prBase /\ prGraphVars' = prGraphVars /\ prSnapshot' = prSnapshot /\ prRebuilt' = prRebuilt
  BY DEF LearnCommit, ApplyMark, ApplyNoop, TakeCheckpoint, MemberCrash, prGraphVars, prGhosts
<1>3. GraphsKept
  BY <1>1, <1>2 DEF GraphsKept, PrTypeOK
<1>4. BaseInv'
  BY <1>1, <1>2 DEF BaseInv
<1>5. Len(prLog) \in Nat /\ prStore[r].revision \in Nat
  BY <1>1 DEF PrTypeOK, Stores
<1>6. prApplied[r] < prCommit[r] => NextEntry(r).cmd \in GraphCommands
  BY <1>1, NextEntryFacts
<1>7. \A m \in Members :
          /\ prApplied[m] \in Nat /\ prCommit[m] \in Nat /\ prReplayTo[m] \in Nat /\ Len(prLog) \in Nat
          /\ prApplied[m] <= prCommit[m] /\ prReplayTo[m] <= prCommit[m] /\ prCommit[m] <= Len(prLog)
  BY <1>1, IndexFacts
<1>8. \A m \in Members : prSnapshot[m] # None => prSnapshot[m].at \in Nat
  BY <1>1 DEF PrTypeOK, Snapshots
<1>9. PrTypeOK'
  <2>1. CASE LearnCommit(r)
    BY SMTT(60), <1>1, <1>2, <1>5, <1>7, <1>8, <2>1 DEF PrTypeOK, LearnCommit, prGraphVars, prGhosts, prOtherVars
  <2>2. CASE ApplyMark(r) \/ ApplyNoop(r)
    <3>1. prApplied[r] < prCommit[r]
      BY <1>1, <2>2 DEF ApplyMark, ApplyNoop, CanApply, PrTypeOK
    <3>2. prMarks' \in [Members -> SUBSET GraphCommands]
      <4>1. \E new \in SUBSET GraphCommands : prMarks' = [prMarks EXCEPT ![r] = new]
        <5>1. prMarks[r] \in SUBSET GraphCommands /\ NextEntry(r).cmd \in GraphCommands
          BY <1>1, <1>6, <3>1 DEF PrTypeOK
        <5> QED
          BY <2>2, <5>1 DEF ApplyMark, ApplyNoop
      <4> QED
        BY <1>1, <4>1 DEF PrTypeOK
    <3>3. prApplied' = [prApplied EXCEPT ![r] = @ + 1] /\ prPhase' \in [Members -> {"up", "marking", "down"}]
          /\ prPhase'[r] # "marking" /\ \A m \in Members : m # r => prPhase'[m] = prPhase[m]
      BY <1>1, <2>2 DEF ApplyMark, ApplyNoop, CanApply, PrTypeOK
    <3>4. prApplied' \in [Members -> Nat] /\ \A m \in Members : prApplied'[m] <= prCommit[m]
          /\ (prPhase'[m] = "marking" => prApplied'[m] < prCommit[m])
      BY SMTT(60), <1>1, <1>7, <3>1, <3>3 DEF PrTypeOK
    <3>5. UNCHANGED <<prCommit, prReplayTo, prCheckpoint, prElsewhere, prMisled>>
      BY <2>2 DEF ApplyMark, ApplyNoop, prGhosts, prOtherVars
    <3> QED
      BY <1>1, <1>2, <3>2, <3>3, <3>4, <3>5 DEF PrTypeOK, prGraphVars
  <2>3. CASE TakeCheckpoint(r)
    BY <1>1, <1>2, <1>5, <2>3 DEF PrTypeOK, TakeCheckpoint, prGraphVars, prIndexVars, prOtherVars
  <2>4. CASE MemberCrash(r)
    BY <1>1, <1>2, <1>5, <2>4 DEF PrTypeOK, MemberCrash, prGraphVars, prIndexVars, prOtherVars
  <2> QED
    BY <2>1, <2>2, <2>3, <2>4
<1> QED
  BY <1>3, <1>4, <1>9, KeptGraphs DEF PrInv, PrTypeOK

\* Snapshots of another partition take markers from one member to another.
LEMMA ElsewhereSteps ==
  ASSUME PrInv, NEW r \in Members, NEW q \in Members, SnapshotElsewhere(q) \/ InstallElsewhere(r, q)
  PROVE  PrInv'
<1>1. PrTypeOK /\ BaseInv
  BY DEF PrInv
<1>2. UNCHANGED <<prLog, prBase, prGraphVars, prCommit, prApplied, prReplayTo, prPhase, prSnapshot, prCheckpoint, prRebuilt>>
  BY DEF SnapshotElsewhere, InstallElsewhere, prIndexVars
<1>3. GraphsKept
  BY <1>1, <1>2 DEF GraphsKept, PrTypeOK
<1>4. BaseInv'
  BY <1>1, <1>2 DEF BaseInv
<1>5. /\ prMarks' \in [Members -> SUBSET GraphCommands] /\ prElsewhere' \in [Members -> SUBSET GraphCommands]
      /\ prMisled' \subseteq Members
  BY <1>1 DEF SnapshotElsewhere, InstallElsewhere, PrTypeOK
<1>6. PrTypeOK'
  BY <1>1, <1>2, <1>5 DEF PrTypeOK, prGraphVars
<1> QED
  BY <1>3, <1>4, <1>6, KeptGraphs DEF PrInv, PrTypeOK

-----------------------------------------------------------------------------
(* Steps that change a graph or a snapshot.                                *)

\* The store commit of an entry: the command conflicts with itself, so it is
\* not one that the member holds already.
LEMMA ApplyCommitStep ==
  ASSUME PrInv, NEW r \in Members, ApplyCommit(r)
  PROVE  PrInv'
<1> DEFINE at == prApplied[r] + 1
           entry == prLog[at]
           c == entry.cmd
           w == CommandWrites[c]
           kept == ApplyWrites(prStore[r], w)
<1>1. PrTypeOK /\ BaseInv /\ SnapshotInv /\ MemberShapes /\ HistoryInv /\ AtMostOnce
  BY DEF PrInv
<1>2. at \in 1..Len(prLog) /\ Len(prLog) \in Nat /\ prApplied[r] < prCommit[r] /\ prApplied[r] \in Nat
  <2>1. prApplied[r] < prCommit[r]
    BY DEF ApplyCommit, CanApply
  <2> QED
    BY <1>1, <2>1, NextEntryFacts, IndexFacts
<1>3. c \in GraphCommands /\ entry.base \in Nat
  BY <1>1, <1>2, LogFacts
<1>4. w \in WriteSets
  BY <1>3, CommandsWrite
<1>5. ~Conflict(prStore[r], w, entry.base)
  BY <1>3 DEF ApplyCommit, NextVerdict, NextEntry, Verdict, ExpectedRevision
<1>6. prStore[r] \in Stores /\ kept \in Stores /\ prStore[r].revision \in Nat
  BY <1>1, <1>4, ApplyWritesType DEF PrTypeOK, Stores
<1>7. /\ prStore' = [prStore EXCEPT ![r] = kept]
      /\ prHeld' = [prHeld EXCEPT ![r] = Append(@, at)]
      /\ prPhase' = [prPhase EXCEPT ![r] = "marking"]
      /\ prKeys' = [prKeys EXCEPT ![r] = [k \in KeyNames |-> IF k = CommandKey[c] THEN c ELSE @[k]]]
  BY DEF ApplyCommit, NextEntry
<1>8. /\ UNCHANGED <<prLog, prBase, prMarks, prCommit, prApplied, prReplayTo, prSnapshot, prCheckpoint,
                     prElsewhere, prMisled, prRebuilt>>
  BY DEF ApplyCommit, prIndexVars, prGhosts, prOtherVars
<1>9. /\ prHeld[r] \in Seq(Nat) /\ prHeld'[r] = Append(prHeld[r], at) /\ Len(prHeld[r]) \in Nat
      /\ \A m \in Members \ {r} : prHeld'[m] = prHeld[m] /\ prStore'[m] = prStore[m]
      /\ prStore'[r] = kept
  BY <1>1, <1>7 DEF PrTypeOK
<1>10. /\ prHeld'[r] \in Seq(Nat) /\ Len(prHeld'[r]) = Len(prHeld[r]) + 1 /\ prHeld'[r][Len(prHeld[r]) + 1] = at
       /\ \A i \in 1..Len(prHeld[r]) : prHeld'[r][i] = prHeld[r][i]
  BY <1>2, <1>9
<1> HIDE DEF at, kept
<1>11. \A m \in Members : \A i \in DOMAIN prHeld'[m] : prHeld'[m][i] \in 1..Len(prLog)
  <2> SUFFICES ASSUME NEW i \in DOMAIN prHeld'[r]
               PROVE  prHeld'[r][i] \in 1..Len(prLog)
    BY <1>1, <1>9 DEF PrTypeOK
  <2>1. i \in 1..Len(prHeld[r]) \/ i = Len(prHeld[r]) + 1
    BY <1>9, <1>10
  <2> QED
    BY SMTT(60), <1>1, <1>2, <1>9, <1>10, <2>1 DEF PrTypeOK
<1>12. PrTypeOK'
  <2>1. prKeys' \in [Members -> [KeyNames -> GraphCommands \cup {None}]]
    BY <1>1, <1>3, <1>7 DEF PrTypeOK
  <2>2. prStore' \in [Members -> Stores] /\ prHeld' \in [Members -> Seq(Nat)]
    BY <1>1, <1>6, <1>7, <1>9, <1>10 DEF PrTypeOK
  <2>3. prPhase' \in [Members -> {"up", "marking", "down"}] /\ \A m \in Members : prPhase'[m] = "marking" => prApplied[m] < prCommit[m]
    BY <1>1, <1>2, <1>7 DEF PrTypeOK
  <2> QED
    BY <1>1, <1>8, <1>11, <2>1, <2>2, <2>3 DEF PrTypeOK
<1>13. BaseInv' /\ SnapshotInv'
  BY <1>1, <1>8 DEF BaseInv, SnapshotInv
<1>14. MemberShapes'
  <2>1. Graphlike(kept)
    BY <1>1, <1>4, <1>5, <1>6, CommitNoDangling, CommitParentIndex DEF MemberShapes, Graphlike, Conflict, InvariantConflict, kept
  <2> QED
    BY <1>1, <1>8, <1>9, <2>1 DEF MemberShapes
<1>15. CASE r \in prRebuilt
  <2>1. \A m \in Members \ prRebuilt : prHeld'[m] = prHeld[m] /\ prStore'[m] = prStore[m]
    BY <1>9, <1>15
  <2> QED
    BY <1>1, <1>8, <1>12, <1>13, <1>14, <2>1 DEF PrInv, HistoryInv, AtMostOnce
<1>16. CASE r \notin prRebuilt
  <2>1. ModRevisionsBounded(prStore[r]) /\ ModRevisionsBounded(kept)
    BY <1>1, <1>4, <1>6, <1>16, CommitModRevisions DEF HistoryInv, kept
  <2>2. ModifiedSince(kept, w, entry.base)
    <3>1. entry.base <= prStore[r].revision
      BY <1>3, <1>5, <1>6 DEF Conflict
    <3> QED
      BY <1>3, <1>4, <1>6, <2>1, <3>1, CommitModifies DEF kept
  <2>3. ASSUME NEW i \in 1..Len(prHeld[r])
        PROVE  /\ prLog[prHeld[r][i]].cmd \in GraphCommands
               /\ prLog[prHeld[r][i]].cmd # c
               /\ ModifiedSince(kept, CommandWrites[prLog[prHeld[r][i]].cmd], prLog[prHeld[r][i]].base)
    <3> DEFINE old == prLog[prHeld[r][i]]
    <3>1. prHeld[r][i] \in 1..Len(prLog)
      BY <1>1, <1>9, <2>3 DEF PrTypeOK
    <3>2. old.cmd \in GraphCommands /\ old.base \in Nat
      BY <1>1, <3>1, LogFacts
    <3>3. ModifiedSince(prStore[r], CommandWrites[old.cmd], old.base)
      BY <1>1, <1>9, <1>16, <2>3 DEF HistoryInv
    <3>4. old.base = prBase[old.cmd] /\ entry.base = prBase[c]
      BY <1>1, <1>2, <3>1, LogFacts DEF BaseInv
    <3>5. old.cmd # c
      BY <1>5, <3>2, <3>3, <3>4, ConflictsWithItself
    <3>6. CommandWrites[old.cmd] \in WriteSets
      BY <3>2, CommandsWrite
    <3>7. ModifiedSince(kept, CommandWrites[old.cmd], old.base)
      BY <1>4, <1>6, <2>1, <3>2, <3>3, <3>6, CommitModifies DEF kept
    <3> QED
      BY <3>2, <3>5, <3>7
  <2>4. \A i \in DOMAIN prHeld'[r] : i \in 1..Len(prHeld[r]) \/ i = Len(prHeld[r]) + 1
    BY <1>9, <1>10
  <2>5. HistoryInv'
    <3>1. \A i \in DOMAIN prHeld'[r] :
              ModifiedSince(kept, CommandWrites[prLog[prHeld'[r][i]].cmd], prLog[prHeld'[r][i]].base)
      BY <1>10, <2>2, <2>3, <2>4
    <3> QED
      BY <1>1, <1>8, <1>9, <2>1, <3>1 DEF HistoryInv
  <2>6. AtMostOnce'
    <3>1. ASSUME NEW i \in DOMAIN prHeld'[r], NEW j \in DOMAIN prHeld'[r], i # j
          PROVE  prLog[prHeld'[r][i]].cmd # prLog[prHeld'[r][j]].cmd
      <4>1. CASE i \in 1..Len(prHeld[r]) /\ j \in 1..Len(prHeld[r])
        <5>1. i \in DOMAIN prHeld[r] /\ j \in DOMAIN prHeld[r]
          BY <1>9, <4>1
        <5>2. prLog[prHeld[r][i]].cmd # prLog[prHeld[r][j]].cmd
          BY <1>1, <1>16, <3>1, <5>1 DEF AtMostOnce
        <5> QED
          BY <1>10, <4>1, <5>2
      <4>2. CASE i \in 1..Len(prHeld[r]) /\ j = Len(prHeld[r]) + 1
        BY <1>10, <2>3, <4>2
      <4>3. CASE i = Len(prHeld[r]) + 1 /\ j \in 1..Len(prHeld[r])
        BY <1>10, <2>3, <4>3
      <4> QED
        BY <2>4, <3>1, <4>1, <4>2, <4>3
    <3>2. ASSUME NEW m \in Members \ prRebuilt, NEW i \in DOMAIN prHeld'[m], NEW j \in DOMAIN prHeld'[m], i # j
          PROVE  prLog[prHeld'[m][i]].cmd # prLog[prHeld'[m][j]].cmd
      <4>1. CASE m = r
        BY <3>1, <3>2, <4>1
      <4>2. CASE m # r
        BY <1>1, <1>9, <3>2, <4>2 DEF AtMostOnce
      <4> QED
        BY <4>1, <4>2
    <3> QED
      BY <1>8, <3>2 DEF AtMostOnce
  <2> QED
    BY <1>12, <1>13, <1>14, <2>5, <2>6 DEF PrInv
<1> QED
  BY <1>15, <1>16

\* A snapshot copies what its member holds.
LEMMA TakeSnapshotStep ==
  ASSUME PrInv, NEW r \in Members, TakeSnapshot(r)
  PROVE  PrInv'
<1> DEFINE snap == SnapshotOf(r)
<1>1. PrTypeOK /\ BaseInv /\ SnapshotInv /\ MemberShapes /\ HistoryInv /\ AtMostOnce
  BY DEF PrInv
<1>2. /\ prSnapshot' = [prSnapshot EXCEPT ![r] = snap]
      /\ UNCHANGED <<prLog, prBase, prStore, prKeys, prHeld, prMarks, prCommit, prApplied, prReplayTo,
                     prPhase, prCheckpoint, prElsewhere, prMisled, prRebuilt>>
  BY DEF TakeSnapshot, prGraphVars, prIndexVars, prOtherVars
<1>3. /\ snap \in Snapshots /\ snap.at = prApplied[r] /\ snap.store = prStore[r] /\ snap.held = prHeld[r]
  BY <1>1 DEF SnapshotOf, Snapshots, PrTypeOK
<1> HIDE DEF snap
<1>4. prApplied[r] <= prCommit[r]
  BY <1>1, IndexFacts
<1>5. PrTypeOK'
  BY <1>1, <1>2, <1>3, <1>4 DEF PrTypeOK
<1>6. SnapshotInv' /\ MemberShapes'
  BY <1>1, <1>2, <1>3 DEF SnapshotInv, MemberShapes, PrTypeOK
<1> QED
  BY <1>1, <1>2, <1>5, <1>6 DEF PrInv, BaseInv, HistoryInv, AtMostOnce

\* What the restore of a snapshot keeps.
LEMMA RestoreStep ==
  ASSUME PrInv, NEW r \in Members, NEW q \in Members, prSnapshot[q] # None, Restore(r, prSnapshot[q]),
         prLog' = prLog, prBase' = prBase, prOtherVars' = prOtherVars, prSnapshot' \in {prSnapshot, [prSnapshot EXCEPT ![r] = prSnapshot[q]]},
         prCommit' \in [Members -> Nat], prReplayTo' \in [Members -> Nat],
         prPhase' \in [Members -> {"up", "marking", "down"}], prPhase'[r] = "up",
         \A m \in Members : /\ prCommit[m] <= prCommit'[m] /\ prCommit'[m] <= Len(prLog)
                            /\ prReplayTo'[m] <= prCommit'[m]
                            /\ prPhase'[m] = "marking" => prPhase[m] = "marking",
         prSnapshot[q].at <= prCommit'[r]
  PROVE  PrInv'
<1> DEFINE snap == prSnapshot[q]
<1>1. PrTypeOK /\ BaseInv /\ SnapshotInv /\ MemberShapes /\ HistoryInv /\ AtMostOnce
  BY DEF PrInv
<1>2. /\ snap \in Snapshots /\ snap.at \in Nat /\ snap.store \in Stores /\ snap.held \in Seq(Nat)
      /\ snap.marks \subseteq GraphCommands /\ snap.keys \in [KeyNames -> GraphCommands \cup {None}]
  BY <1>1 DEF PrTypeOK, Snapshots
<1>3. /\ \A i \in DOMAIN snap.held : snap.held[i] \in 1..Len(prLog)
      /\ Graphlike(snap.store) /\ snap.at <= prCommit[q]
  BY <1>1 DEF SnapshotInv, MemberShapes, PrTypeOK
<1>4. RestoredStore(snap.store) \in Stores /\ Graphlike(RestoredStore(snap.store))
  BY <1>2, <1>3, RebuiltStores
<1>5. /\ prStore' = [prStore EXCEPT ![r] = RestoredStore(snap.store)]
      /\ prKeys' = [prKeys EXCEPT ![r] = snap.keys]
      /\ prHeld' = [prHeld EXCEPT ![r] = snap.held]
      /\ prMarks' = [prMarks EXCEPT ![r] = @ \cup snap.marks]
      /\ prApplied' = [prApplied EXCEPT ![r] = snap.at]
      /\ prCheckpoint' = [prCheckpoint EXCEPT ![r] = 0]
      /\ prRebuilt' = prRebuilt \cup {r}
  BY DEF Restore
<1>6. \A m \in Members : prSnapshot'[m] \in {prSnapshot[m], snap} /\ (m # r => prSnapshot'[m] = prSnapshot[m])
  BY <1>1 DEF PrTypeOK
<1>7. prSnapshot' \in [Members -> Snapshots \cup {None}]
  BY <1>1, <1>2 DEF PrTypeOK
<1> HIDE DEF snap
<1>8. Len(prLog) \in Nat
  BY <1>1 DEF PrTypeOK
<1>9. PrTypeOK'
  <2>1. /\ prLog' \in Seq([cmd : GraphCommands, base : Nat]) /\ prBase' \in [GraphCommands -> Nat \cup {None}]
        /\ prRebuilt' \subseteq Members /\ prMisled' \subseteq Members /\ prElsewhere' \in [Members -> SUBSET GraphCommands]
    BY <1>1, <1>5 DEF PrTypeOK, prOtherVars
  <2>2. /\ prStore' \in [Members -> Stores] /\ prKeys' \in [Members -> [KeyNames -> GraphCommands \cup {None}]]
        /\ prMarks' \in [Members -> SUBSET GraphCommands] /\ prApplied' \in [Members -> Nat]
        /\ prCheckpoint' \in [Members -> Nat] /\ prHeld' \in [Members -> Seq(Nat)]
    BY <1>1, <1>2, <1>4, <1>5 DEF PrTypeOK
  <2>3. \A m \in Members : prApplied'[m] <= prCommit'[m] /\ (prPhase'[m] = "marking" => prApplied'[m] < prCommit'[m])
    <3> SUFFICES ASSUME NEW m \in Members
                 PROVE  prApplied'[m] <= prCommit'[m] /\ (prPhase'[m] = "marking" => prApplied'[m] < prCommit'[m])
      OBVIOUS
    <3>1. CASE m = r
      BY <1>1, <1>2, <1>5, <1>8, <3>1 DEF PrTypeOK, snap
    <3>2. CASE m # r
      <4>1. prApplied'[m] = prApplied[m] /\ (prPhase[m] = "marking" => prApplied[m] < prCommit[m])
        BY <1>1, <1>5, <3>2 DEF PrTypeOK
      <4>2. prApplied[m] \in Nat /\ prCommit[m] \in Nat /\ prCommit'[m] \in Nat /\ prApplied[m] <= prCommit[m]
        BY <1>1, IndexFacts
      <4> QED
        BY <4>1, <4>2
    <3> QED
      BY <3>1, <3>2
  <2>4. \A m \in Members : prSnapshot'[m] # None => prSnapshot'[m].at <= prCommit'[m]
    <3> SUFFICES ASSUME NEW m \in Members, prSnapshot'[m] # None
                 PROVE  prSnapshot'[m].at <= prCommit'[m]
      OBVIOUS
    <3>1. CASE prSnapshot'[m] = prSnapshot[m]
      <4>1. prSnapshot[m] \in Snapshots /\ prSnapshot[m].at \in Nat /\ prSnapshot[m].at <= prCommit[m]
        BY <1>1, <3>1 DEF PrTypeOK, Snapshots
      <4> QED
        BY <1>1, <3>1, <4>1, IndexFacts
    <3>2. CASE m = r /\ prSnapshot'[m] = snap
      BY <3>2 DEF snap
    <3> QED
      BY <1>6, <3>1, <3>2
  <2>5. \A m \in Members : \A i \in DOMAIN prHeld'[m] : prHeld'[m][i] \in 1..Len(prLog)
    BY ZenonT(60), <1>1, <1>3, <1>5 DEF PrTypeOK
  <2> QED
    BY <1>7, <2>1, <2>2, <2>3, <2>4, <2>5 DEF PrTypeOK
<1>10. BaseInv'
  BY <1>1 DEF BaseInv
<1>11. SnapshotInv'
  BY <1>1, <1>3, <1>6 DEF SnapshotInv
<1>12. MemberShapes'
  <2>1. \A m \in Members : prStore'[m] = IF m = r THEN RestoredStore(snap.store) ELSE prStore[m]
    BY <1>1, <1>5 DEF PrTypeOK
  <2> QED
    BY <1>1, <1>3, <1>4, <1>6, <2>1 DEF MemberShapes
<1>13. \A m \in Members \ prRebuilt' : /\ m \in Members \ prRebuilt
                                       /\ prStore'[m] = prStore[m] /\ prHeld'[m] = prHeld[m]
  BY <1>1, <1>5 DEF PrTypeOK
<1>14. HistoryInv'
  BY <1>1, <1>13 DEF HistoryInv
<1>15. AtMostOnce'
  BY <1>1, <1>13 DEF AtMostOnce
<1> QED
  BY <1>9, <1>10, <1>11, <1>12, <1>14, <1>15 DEF PrInv

\* A snapshot of another member is installed.
LEMMA InstallSnapshotStep ==
  ASSUME PrInv, NEW r \in Members, NEW q \in Members, InstallSnapshot(r, q)
  PROVE  PrInv'
<1>1. PrTypeOK
  BY DEF PrInv
<1>2. /\ prSnapshot[q] # None /\ Restore(r, prSnapshot[q]) /\ prPhase[r] = "up"
      /\ prSnapshot' = [prSnapshot EXCEPT ![r] = prSnapshot[q]]
      /\ prCommit' = [prCommit EXCEPT ![r] = IF @ < prSnapshot[q].at THEN prSnapshot[q].at ELSE @]
      /\ UNCHANGED <<prLog, prBase, prReplayTo, prPhase, prOtherVars>>
  BY DEF InstallSnapshot
<1>3. prSnapshot[q].at \in Nat /\ prSnapshot[q].at <= prCommit[q]
  BY <1>1, <1>2 DEF PrTypeOK, Snapshots
<1>4. \A m \in Members :
          /\ prCommit[m] \in Nat /\ prReplayTo[m] \in Nat /\ Len(prLog) \in Nat
          /\ prReplayTo[m] <= prCommit[m] /\ prCommit[m] <= Len(prLog)
  BY <1>1, IndexFacts
<1>5. \A m \in Members : prCommit'[m] = IF m = r /\ prCommit[r] < prSnapshot[q].at THEN prSnapshot[q].at ELSE prCommit[m]
  BY <1>1, <1>2 DEF PrTypeOK
<1>6. prCommit' \in [Members -> Nat] /\ prReplayTo' \in [Members -> Nat] /\ prPhase' \in [Members -> {"up", "marking", "down"}]
  BY <1>1, <1>2, <1>3 DEF PrTypeOK
<1>7. \A m \in Members : /\ prCommit[m] <= prCommit'[m] /\ prCommit'[m] <= Len(prLog)
                         /\ prReplayTo'[m] <= prCommit'[m]
  BY <1>2, <1>3, <1>4, <1>5
<1>8. prSnapshot[q].at <= prCommit'[r]
  BY <1>3, <1>4, <1>5
<1> QED
  BY <1>2, <1>6, <1>7, <1>8, RestoreStep

\* A member starts again, from its snapshot or from its store.
LEMMA MemberRestartStep ==
  ASSUME PrInv, NEW r \in Members, MemberRestart(r)
  PROVE  PrInv'
<1>1. PrTypeOK /\ BaseInv /\ SnapshotInv /\ MemberShapes /\ HistoryInv /\ AtMostOnce
  BY DEF PrInv
<1>2. /\ prPhase' = [prPhase EXCEPT ![r] = "up"]
      /\ prReplayTo' = [prReplayTo EXCEPT ![r] = prCommit[r]]
      /\ UNCHANGED <<prLog, prBase, prCommit, prSnapshot, prOtherVars>>
  BY DEF MemberRestart
<1>3. \A m \in Members :
          /\ prApplied[m] \in Nat /\ prCommit[m] \in Nat /\ prReplayTo[m] \in Nat /\ Len(prLog) \in Nat
          /\ prApplied[m] <= prCommit[m] /\ prReplayTo[m] <= prCommit[m] /\ prCommit[m] <= Len(prLog)
  BY <1>1, IndexFacts
<1>4. /\ prPhase' \in [Members -> {"up", "marking", "down"}] /\ prReplayTo' \in [Members -> Nat]
      /\ prPhase'[r] = "up" /\ \A m \in Members : m # r => prPhase'[m] = prPhase[m]
  BY <1>1, <1>2, <1>3 DEF PrTypeOK
<1>5. \A m \in Members : prReplayTo'[m] <= prCommit[m]
  BY <1>1, <1>2, <1>3 DEF PrTypeOK
<1>6. CASE prSnapshot[r] # None
  <2>1. prCommit' \in [Members -> Nat] /\ prSnapshot[r].at <= prCommit'[r]
    BY <1>1, <1>2, <1>6 DEF PrTypeOK
  <2>2. Restore(r, prSnapshot[r])
    BY <1>6 DEF MemberRestart
  <2>3. \A m \in Members : /\ prCommit[m] <= prCommit'[m] /\ prCommit'[m] <= Len(prLog)
                           /\ prReplayTo'[m] <= prCommit'[m]
                           /\ prPhase'[m] = "marking" => prPhase[m] = "marking"
    BY <1>2, <1>3, <1>4, <1>5
  <2> QED
    BY <1>2, <1>4, <1>6, <2>1, <2>2, <2>3, RestoreStep
<1>7. CASE prSnapshot[r] = None
  <2> DEFINE kept == ReopenedStore(prStore[r], prCheckpoint[r])
  <2>1. /\ prStore' = [prStore EXCEPT ![r] = kept]
        /\ prApplied' = [prApplied EXCEPT ![r] = 0]
        /\ prRebuilt' = IF prCheckpoint[r] > 0 THEN prRebuilt \cup {r} ELSE prRebuilt
        /\ UNCHANGED <<prKeys, prHeld, prMarks, prCheckpoint>>
    BY <1>7 DEF MemberRestart, ReplayStart
  <2>2. prStore[r] \in Stores /\ prCheckpoint[r] \in Nat /\ Graphlike(prStore[r])
    BY <1>1 DEF PrTypeOK, MemberShapes
  <2>3. kept \in Stores /\ Graphlike(kept) /\ (prCheckpoint[r] = 0 => kept = prStore[r])
    BY <2>2, RebuiltStores, ReopenedWithoutCheckpoint
  <2> HIDE DEF kept
  <2>4. \A m \in Members : prStore'[m] = IF m = r THEN kept ELSE prStore[m]
    BY <1>1, <2>1 DEF PrTypeOK
  <2>5. PrTypeOK'
    <3>1. prStore' \in [Members -> Stores] /\ prApplied' \in [Members -> Nat] /\ prRebuilt' \subseteq Members
      BY <1>1, <2>1, <2>3 DEF PrTypeOK
    <3>2. \A m \in Members : prApplied'[m] <= prCommit[m] /\ (prPhase'[m] = "marking" => prApplied'[m] < prCommit[m])
      BY <1>1, <1>3, <1>4, <2>1 DEF PrTypeOK
    <3> QED
      BY <1>1, <1>2, <1>4, <1>5, <2>1, <3>1, <3>2 DEF PrTypeOK, prOtherVars
  <2>6. BaseInv' /\ SnapshotInv'
    BY <1>1, <1>2 DEF BaseInv, SnapshotInv
  <2>7. MemberShapes'
    BY <1>1, <1>2, <2>3, <2>4 DEF MemberShapes
  <2>8. \A m \in Members \ prRebuilt' : m \in Members \ prRebuilt /\ prStore'[m] = prStore[m]
    <3>1. prCheckpoint[r] = 0 \/ r \in prRebuilt'
      BY <2>1, <2>2
    <3> QED
      BY <2>1, <2>3, <2>4, <3>1
  <2>9. HistoryInv'
    BY <1>1, <1>2, <2>1, <2>8 DEF HistoryInv
  <2>10. AtMostOnce'
    BY <1>1, <1>2, <2>1, <2>8 DEF AtMostOnce
  <2> QED
    BY <2>5, <2>6, <2>7, <2>9, <2>10 DEF PrInv
<1> QED
  BY <1>6, <1>7

-----------------------------------------------------------------------------
(* Theorems.                                                               *)

\* The invariant holds of members without a graph.
LEMMA PrInitial == PrInit => PrInv
<1> SUFFICES ASSUME PrInit PROVE PrInv
  OBVIOUS
<1>1. EmptyStore \in Stores /\ Graphlike(EmptyStore) /\ ModRevisionsBounded(EmptyStore)
  BY EmptyStoreShape DEF GraphShape, Graphlike
<1>2. PrTypeOK
  BY <1>1 DEF PrInit, PrTypeOK
<1>3. BaseInv /\ SnapshotInv /\ MemberShapes /\ HistoryInv /\ AtMostOnce
  BY <1>1 DEF PrInit, BaseInv, SnapshotInv, MemberShapes, HistoryInv, AtMostOnce
<1> QED
  BY <1>2, <1>3 DEF PrInv

\* The inductive invariant: log entries keep the base of their transaction, and
\* the modification revisions of a member that were not rebuilt tell of every
\* command whose writes it holds.
THEOREM ReplicaInvariant == PrSpec => []PrInv
<1>1. PrInit => PrInv
  BY PrInitial
<1>2. PrInv /\ [PrNext]_prVars => PrInv'
  <2> SUFFICES ASSUME PrInv, [PrNext]_prVars PROVE PrInv'
    OBVIOUS
  <2>1. CASE UNCHANGED prVars
    BY <2>1 DEF prVars, PrInv, PrTypeOK, BaseInv, SnapshotInv, MemberShapes, HistoryInv, AtMostOnce
  <2>2. CASE PrNext
    BY <2>2, TxBeginStep, GroupCommitStep, IndexSteps, ElsewhereSteps, ApplyCommitStep, TakeSnapshotStep,
       InstallSnapshotStep, MemberRestartStep DEF PrNext
  <2> QED
    BY <2>1, <2>2
<1> QED
  BY <1>1, <1>2, PTL DEF PrSpec

\* Indexes, markers, snapshots and held entries keep their shape; a member never
\* applies beyond its commit index (group.go, applyEntry).
THEOREM ReplicaTypeCorrect == PrSpec => []PrTypeOK
<1>1. PrInv => PrTypeOK
  BY DEF PrInv
<1> QED
  BY <1>1, ReplicaInvariant, PTL

\* The writes of a command enter the graph of a member with its own modification
\* revisions at most once, for every number of members, commands, commits of one
\* command, crashes and replays (raft.go, applyGraphRaftCommand).
THEOREM CommandsActOnce == PrSpec => []AtMostOnce
<1>1. PrInv => AtMostOnce
  BY DEF PrInv
<1> QED
  BY <1>1, ReplicaInvariant, PTL

\* The graph of every member, rebuilt or not, has no dangling edge and an exact
\* parent index, through replays in another order than the log's and restores
\* from snapshots (raft.go, applyGraphRaftCommand; raft_snapshot.go,
\* restoreRaftPartition).
THEOREM ReplicasStayGraphs ==
  PrSpec => [](\A r \in Members : NoDanglingEdges(prStore[r]) /\ ParentIndexExact(prStore[r]))
<1>1. PrInv => \A r \in Members : NoDanglingEdges(prStore[r]) /\ ParentIndexExact(prStore[r])
  BY DEF PrInv, MemberShapes, Graphlike
<1> QED
  BY <1>1, ReplicaInvariant, PTL
=============================================================================
