------------------------ MODULE MCGraphTransactions ------------------------
(***************************************************************************)
(* Model checking of GraphTransactions.                                    *)
(***************************************************************************)
EXTENDS GraphTransactions, TLC

Symmetry == Permutations(Txns) \cup Permutations(Nodes) \cup Permutations(Edges)

\* Bound of the run about the hierarchy.
NoStatements == \A t \in Txns : scope[t] = None

\* Bound of the run about concurrent commits: a transaction with a statement, or
\* with a third operation, is alone.
Explored ==
    \A t \in Txns : scope[t] # None \/ overlay[t].opCount = MaxOps =>
        \A u \in Txns \ {t} : state[u] = "idle"
=============================================================================
