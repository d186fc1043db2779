-------------------------- MODULE GraphTransactions --------------------------
(***************************************************************************)
(* The graph service's transactions over one domain store                  *)
(* (internal/graph/service/module.go): client mutations are checked        *)
(* against the transaction's view and staged in an overlay, a statement    *)
(* can be undone through its journal, and commit hands the overlay to the  *)
(* store, which decides conflicts.                                         *)
(*                                                                         *)
(* A read-write transaction reads the latest committed store under its     *)
(* overlay (snapshotRevision applies to read-only transactions only); its  *)
(* base revision matters at commit alone.  Each action holds the           *)
(* transaction's mutation lock and reads the store once.                   *)
(***************************************************************************)
EXTENDS GraphStore, Sequences

CONSTANTS Txns,      \* transaction ids, each used once
          MaxOps,    \* bound: staged operations per transaction
          EdgePage   \* the most edges that one ListEdges returns (500)

\* Ids are drawn from finite maps; counting what a mutation stages needs it.
ASSUME FiniteAssumption ==
    /\ IsFiniteSet(Nodes)
    /\ IsFiniteSet(Edges)
    /\ MaxOps \in Nat
    /\ EdgePage \in Nat \ {0}

VARIABLES store,    \* the LocalStore of the domain
          state,    \* state[t]: "idle", "active", "committed" or "discarded"
          base,     \* base[t]: BaseRevision of the transaction
          overlay,  \* overlay[t]: staged writes and their operation count
          scope,    \* scope[t]: undo journal of the open statement, or None
          commits   \* history: the commits that advanced the store, in order

vars == <<store, state, base, overlay, scope, commits>>

Overlays == [writes : WriteSets, opCount : 0 .. MaxOps]
EmptyOverlay == [writes |-> NoWrites, opCount |-> 0]

\* The undo journal of a statement: what the overlay held, when the statement
\* first touched them, for the ids in nodes and edges.
Scopes == [opCount : 0 .. MaxOps,
           nodes   : SUBSET Nodes,
           edges   : SUBSET Edges,
           undo    : WriteRecords,
           before  : Overlays]    \* history: the overlay at statement begin

\* None is no journal.
ASSUME ScopeAssumption == None \notin Scopes

\* The graphs that one earlier transaction of CreateNode and CreateEdge calls
\* can have left behind.
SeedWrites == {w \in WriteSets : /\ w.nodeDeletes = {}
                                /\ w.edgeDeletes = {}
                                /\ ~Conflict(EmptyStore, w, 0)
                                /\ Acyclic(ApplyWrites(EmptyStore, w))}

Init ==
    /\ \E w \in SeedWrites : store = ApplyWrites(EmptyStore, w)
    /\ state = [t \in Txns |-> "idle"]
    /\ base = [t \in Txns |-> 0]
    /\ overlay = [t \in Txns |-> EmptyOverlay]
    /\ scope = [t \in Txns |-> None]
    /\ commits = <<>>

-----------------------------------------------------------------------------
(* The view of a read-write transaction: overlay over latest store.        *)

Node(t, n) ==
    LET w == overlay[t].writes IN
    IF n \in w.nodeDeletes THEN None
    ELSE IF w.nodePuts[n] # None THEN w.nodePuts[n]
    ELSE store.nodes[n]

Edge(t, e) ==
    LET w == overlay[t].writes IN
    IF e \in w.edgeDeletes THEN None
    ELSE IF w.edgePuts[e] # None THEN w.edgePuts[e]
    ELSE store.edges[e]

\* The hierarchy edges of the view, under the default policy: label "contains".
HierarchyEdges(t) == {e \in Edges : Edge(t, e) # None /\ Edge(t, e).contains}

Children(t, n) == {Edge(t, e).to : e \in {f \in HierarchyEdges(t) : Edge(t, f).from = n}}

ParentEdges(t, c) == {e \in HierarchyEdges(t) : Edge(t, e).to = c}

\* Nodes reached from n downwards over hierarchy edges, n included.
Subtree(t, n) ==
    LET Reached[k \in Nat] ==
            IF k = 0 THEN {n}
            ELSE Reached[k - 1] \cup UNION {Children(t, m) : m \in Reached[k - 1]}
    IN  {n} \cup {m \in Nodes : m \in Reached[Cardinality(Nodes)]}

\* Whether the walk below n comes back to a node it passed.
CycleBelow(t, n) ==
    \E m \in Subtree(t, n) : \E c \in Children(t, m) : m \in Subtree(t, c)

-----------------------------------------------------------------------------
(* Staging.                                                                *)

\* Fault: every touch of an id overwrites its undo entry.
JournalEachTouch(t, N, E) ==
    LET sc == scope[t]
        w  == overlay[t].writes IN
    IF sc = None \/ sc.opCount = 0 THEN sc
    ELSE [opCount |-> sc.opCount,
          before  |-> sc.before,
          nodes   |-> sc.nodes \cup N,
          edges   |-> sc.edges \cup E,
          undo    |->
               [nodePuts    |-> [n \in Nodes |-> IF n \in N THEN w.nodePuts[n]
                                                 ELSE sc.undo.nodePuts[n]],
                nodeDeletes |-> (sc.undo.nodeDeletes \ N) \cup (N \cap w.nodeDeletes),
                edgePuts    |-> [e \in Edges |-> IF e \in E THEN w.edgePuts[e]
                                                 ELSE sc.undo.edgePuts[e]],
                edgeDeletes |-> (sc.undo.edgeDeletes \ E) \cup (E \cap w.edgeDeletes)]]

\* recordNodeMutationLocked and recordEdgeMutationLocked: only the first touch
\* of an id by a statement is journaled, and only when the transaction had an
\* overlay at statement begin (it has one once it counts an operation).
Journal(t, N, E) ==
    LET sc   == scope[t]
        w    == overlay[t].writes
        newN == N \ sc.nodes
        newE == E \ sc.edges IN
    IF sc = None \/ sc.opCount = 0 THEN sc
    ELSE [opCount |-> sc.opCount,
          before  |-> sc.before,
          nodes   |-> sc.nodes \cup N,
          edges   |-> sc.edges \cup E,
          undo    |->
               [nodePuts    |-> [n \in Nodes |-> IF n \in newN THEN w.nodePuts[n]
                                                 ELSE sc.undo.nodePuts[n]],
                nodeDeletes |-> sc.undo.nodeDeletes \cup (newN \cap w.nodeDeletes),
                edgePuts    |-> [e \in Edges |-> IF e \in newE THEN w.edgePuts[e]
                                                 ELSE sc.undo.edgePuts[e]],
                edgeDeletes |-> sc.undo.edgeDeletes \cup (newE \cap w.edgeDeletes)]]

\* Fault: a staged put keeps the delete staged before it.
PutNodeKeepsDelete(w, n, v) == [w EXCEPT !.nodePuts[n] = v]

PutNode(w, n, v) == [w EXCEPT !.nodePuts[n] = v, !.nodeDeletes = @ \ {n}]
PutEdge(w, e, r) == [w EXCEPT !.edgePuts[e] = r, !.edgeDeletes = @ \ {e}]

DeleteEntities(w, N, E) ==
    [nodePuts    |-> [n \in Nodes |-> IF n \in N THEN None ELSE w.nodePuts[n]],
     nodeDeletes |-> w.nodeDeletes \cup N,
     edgePuts    |-> [e \in Edges |-> IF e \in E THEN None ELSE w.edgePuts[e]],
     edgeDeletes |-> w.edgeDeletes \cup E]

\* One mutation of an active transaction: k staged operations that leave the
\* writes w and touch the nodes N and the edges E.
Stage(t, w, k, N, E) ==
    /\ state[t] = "active"
    /\ overlay[t].opCount + k <= MaxOps
    /\ overlay' = [overlay EXCEPT ![t] = [writes |-> w, opCount |-> @.opCount + k]]
    /\ scope' = [scope EXCEPT ![t] = Journal(t, N, E)]
    /\ UNCHANGED <<store, state, base, commits>>

CreateNode(t, n, v) ==
    /\ Node(t, n) = None
    /\ Stage(t, PutNode(overlay[t].writes, n, v), 1, {n}, {})

UpdateNode(t, n, v) ==
    /\ Node(t, n) # None
    /\ Stage(t, PutNode(overlay[t].writes, n, v), 1, {n}, {})

\* ListEdges without a page size: the first EdgePage edges of the view in the
\* order of their ids, which may be any.
EdgeListings(t) ==
    LET visible == {e \in Edges : Edge(t, e) # None}
    IN  {L \in SUBSET visible : IF Cardinality(visible) <= EdgePage THEN L = visible
                                ELSE Cardinality(L) = EdgePage}

\* DeleteNode without recursive refuses a node with children; with it, the
\* whole subtree goes.  The edges at a deleted node go too, but only those
\* among the edges listed: the others stay, and the commit will be refused.
\* The walk keeps no visited set: on a cycle it never returns.
DeleteNode(t, n, recursive) ==
    /\ Node(t, n) # None
    /\ ~recursive => Children(t, n) = {}
    /\ ~CycleBelow(t, n)
    /\ \E listed \in EdgeListings(t) :
       LET gone     == Subtree(t, n)
           incident == {e \in listed : \E m \in gone : Incident(Edge(t, e), m)}
       IN  Stage(t, DeleteEntities(overlay[t].writes, gone, incident),
                 Cardinality(gone) + Cardinality(incident), gone, incident)

CreateEdge(t, e, r) ==
    /\ Node(t, r.from) # None
    /\ Node(t, r.to) # None
    /\ Edge(t, e) = None
    /\ r.contains => /\ ParentEdges(t, r.to) = {}
                     /\ r.from \notin Subtree(t, r.to)
    /\ Stage(t, PutEdge(overlay[t].writes, e, r), 1, {}, {e})

\* UpdateEdge may replace labels and content; it consults no hierarchy policy.
UpdateEdge(t, e, contains, v) ==
    /\ Edge(t, e) # None
    /\ Node(t, Edge(t, e).from) # None
    /\ Node(t, Edge(t, e).to) # None
    /\ Stage(t, PutEdge(overlay[t].writes, e,
                        [Edge(t, e) EXCEPT !.contains = contains, !.val = v]), 1, {}, {e})

DeleteEdge(t, e) ==
    /\ Edge(t, e) # None
    /\ Stage(t, DeleteEntities(overlay[t].writes, {}, {e}), 1, {}, {e})

\* An id of NewUUIDv7: nobody has committed or staged it.
UnusedEdge(e) ==
    /\ store.edgeMod[e] = 0
    /\ \A t \in Txns : e \notin WrittenEdges(overlay[t].writes)

\* MoveSubtree stages the delete of a parent edge and then its put under the
\* new parent with the same id, or the put of a new edge where there is none.
\* isDescendant keeps no visited set either.
MoveSubtree(t, c, p, e, v) ==
    /\ c # p
    /\ ~CycleBelow(t, c)
    /\ p \notin Subtree(t, c)
    /\ Node(t, c) # None
    /\ Node(t, p) # None
    /\ IF ParentEdges(t, c) = {} THEN UnusedEdge(e) ELSE e \in ParentEdges(t, c)
    /\ Stage(t, PutEdge(overlay[t].writes, e,
                        [from |-> p, to |-> c, contains |-> TRUE, val |-> v]),
             IF ParentEdges(t, c) = {} THEN 1 ELSE 2, {}, {e})

\* ReorderChildren restages one edge per listed child with its new order
\* (part of val).  The list must be as long as the list of
\* children; nothing stops it from naming one child twice and another never.
ReorderChildren(t, p, E, v) ==
    /\ E # {}
    /\ E \subseteq {e \in HierarchyEdges(t) : Edge(t, e).from = p}
    /\ \A e, f \in E : Edge(t, e).to = Edge(t, f).to => e = f
    /\ Stage(t, [overlay[t].writes EXCEPT
                    !.edgePuts = [e \in Edges |-> IF e \in E THEN [Edge(t, e) EXCEPT !.val = v]
                                                  ELSE @[e]],
                    !.edgeDeletes = @ \ E],
             Cardinality(Children(t, p)), {}, E)

-----------------------------------------------------------------------------
(* Statements, commit and discard.                                         *)

BeginTransaction(t) ==
    /\ state[t] = "idle"
    /\ state' = [state EXCEPT ![t] = "active"]
    /\ base' = [base EXCEPT ![t] = store.revision]
    /\ UNCHANGED <<store, overlay, scope, commits>>

BeginMutationStatement(t) ==
    /\ state[t] = "active"
    /\ scope[t] = None
    /\ scope' = [scope EXCEPT ![t] =
                    [opCount |-> overlay[t].opCount,
                     nodes   |-> {},
                     edges   |-> {},
                     undo    |-> NoWrites,
                     before  |-> overlay[t]]]
    /\ UNCHANGED <<store, state, base, overlay, commits>>

\* restoreMutationScopeLocked: drop an overlay the statement created, else
\* put back exactly the journaled entries and the operation count.
RestoreScope(t) ==
    LET sc == scope[t]
        w  == overlay[t].writes IN
    IF sc.opCount = 0 THEN EmptyOverlay
    ELSE [writes |->
            [nodePuts    |-> [n \in Nodes |-> IF n \in sc.nodes THEN sc.undo.nodePuts[n]
                                              ELSE w.nodePuts[n]],
             nodeDeletes |-> (w.nodeDeletes \ sc.nodes) \cup sc.undo.nodeDeletes,
             edgePuts    |-> [e \in Edges |-> IF e \in sc.edges THEN sc.undo.edgePuts[e]
                                              ELSE w.edgePuts[e]],
             edgeDeletes |-> (w.edgeDeletes \ sc.edges) \cup sc.undo.edgeDeletes],
          opCount |-> sc.opCount]

FinishMutationStatement(t, commit) ==
    /\ scope[t] # None
    /\ overlay' = [overlay EXCEPT ![t] = IF commit THEN @ ELSE RestoreScope(t)]
    /\ scope' = [scope EXCEPT ![t] = None]
    /\ UNCHANGED <<store, state, base, commits>>

\* CommitTransactionGraph waits for the mutation lock, so no statement is
\* open.  An overlay without operations commits without touching the store.
CommitEmpty(t) ==
    /\ state[t] = "active"
    /\ scope[t] = None
    /\ overlay[t].opCount = 0
    /\ state' = [state EXCEPT ![t] = "committed"]
    /\ UNCHANGED <<store, base, overlay, scope, commits>>

CommitStore(t) ==
    /\ state[t] = "active"
    /\ scope[t] = None
    /\ overlay[t].opCount > 0
    /\ ~Conflict(store, overlay[t].writes, base[t])
    /\ store' = ApplyWrites(store, overlay[t].writes)
    /\ state' = [state EXCEPT ![t] = "committed"]
    /\ overlay' = [overlay EXCEPT ![t] = EmptyOverlay]
    /\ commits' = Append(commits, [base |-> base[t], at |-> store.revision + 1,
                                   writes |-> overlay[t].writes])
    /\ UNCHANGED <<base, scope>>

\* A commit that conflicts restores the overlay it had taken and leaves the
\* transaction active: the state does not change, the caller may discard.
DiscardTransactionGraph(t) ==
    /\ state[t] = "active"
    /\ scope[t] = None
    /\ state' = [state EXCEPT ![t] = "discarded"]
    /\ overlay' = [overlay EXCEPT ![t] = EmptyOverlay]
    /\ UNCHANGED <<store, base, scope, commits>>

Mutate(t) ==
    \/ \E n \in Nodes, v \in Values : CreateNode(t, n, v)
    \/ \E n \in Nodes, v \in Values : UpdateNode(t, n, v)
    \/ \E n \in Nodes, recursive \in BOOLEAN : DeleteNode(t, n, recursive)
    \/ \E e \in Edges, r \in EdgeRecords : CreateEdge(t, e, r)
    \/ \E e \in Edges, contains \in BOOLEAN, v \in Values : UpdateEdge(t, e, contains, v)
    \/ \E e \in Edges : DeleteEdge(t, e)
    \/ \E c, p \in Nodes, e \in Edges, v \in Values : MoveSubtree(t, c, p, e, v)
    \/ \E p \in Nodes, E \in SUBSET Edges, v \in Values : ReorderChildren(t, p, E, v)

Next ==
    \E t \in Txns :
        \/ BeginTransaction(t)
        \/ Mutate(t)
        \/ BeginMutationStatement(t)
        \/ \E commit \in BOOLEAN : FinishMutationStatement(t, commit)
        \/ CommitEmpty(t)
        \/ CommitStore(t)
        \/ DiscardTransactionGraph(t)

Spec == Init /\ [][Next]_vars

-----------------------------------------------------------------------------
(* Properties.                                                             *)

CommitRecords == [base : Nat, at : Nat, writes : WriteSets]

\* Types of all variables (module.go overlay, mutationScope; LocalStore maps).
TypeOK ==
    /\ store \in Stores
    /\ state \in [Txns -> {"idle", "active", "committed", "discarded"}]
    /\ base \in [Txns -> Nat]
    /\ overlay \in [Txns -> Overlays]
    /\ scope \in [Txns -> Scopes \cup {None}]
    /\ commits \in Seq(CommitRecords)

\* Whatever interleaving of transactions commits, the store has no dangling
\* edge, at most one parent per node and an exact containsParent index
\* (txn.go invariantConflict and the order of the in-memory apply).
ShapeInv == GraphShape(store)

\* First committer wins: two commits where the later one started before the
\* earlier one committed write no common entity (txn.go writeSetConflict).
NoLostUpdate ==
    \A i, j \in 1 .. Len(commits) :
        i < j /\ commits[j].base < commits[i].at =>
            /\ WrittenNodes(commits[i].writes) \cap WrittenNodes(commits[j].writes) = {}
            /\ WrittenEdges(commits[i].writes) \cap WrittenEdges(commits[j].writes) = {}

\* An undone statement leaves the overlay exactly as it found it, however
\* often it touched an entity staged before (module.go undo journal).
StatementAtomicity ==
    \A t \in Txns : scope[t] # None => RestoreScope(t) = scope[t].before

\* The hierarchy never contains a cycle (the default policy of
\* hierarchyPolicyForLabels asks for Acyclic on "contains").
HierarchyAcyclic == Acyclic(store)
=============================================================================
