\* Every combination of failing constraints on the mapped group, and every shape of a
\* policy over two workloads and two groups; two calls.
SPECIFICATION Spec
CONSTANTS
    c1 = c1
    c2 = c2
    g1 = g1
    g2 = g2
    w1 = w1
    w2 = w2
    Calls = {c1, c2}
    Documents <- MCDocuments
    Requests <- MCRequests
    Names = {"internal", "public", "high", "low", "caller", "other"}
SYMMETRY Symmetry
INVARIANTS
    SelectsOnlyTheMappedGroup
    ExplanationDecidesNothing
