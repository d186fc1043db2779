\* The acyclicity of the hierarchy, with the same graphs and transactions.
CONSTANTS
    n1 = n1
    n2 = n2
    e1 = e1
    e2 = e2
    t1 = t1
    t2 = t2
    v1 = v1
    None = None
    Nodes = {n1, n2}
    Edges = {e1, e2}
    Values = {v1}
    Txns = {t1, t2}
    MaxOps = 2
    EdgePage = 1
SYMMETRY Symmetry
CONSTRAINT NoStatements
SPECIFICATION Spec
CHECK_DEADLOCK FALSE
INVARIANT HierarchyAcyclic
