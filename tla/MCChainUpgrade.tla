--------------------------- MODULE MCChainUpgrade ---------------------------
(* Three nodes, the first with half of the voting power: a quorum is the    *)
(* first node and one of the others, or all of them.                        *)
EXTENDS ChainUpgrade, TLC

CONSTANTS n1, n2, n3

MCNodes == {n1, n2, n3}
MCQuorum == {{n1, n2}, {n1, n3}, {n1, n2, n3}}

\* The one operator that resumes a halted chain.
MCResumer == {n1}

\* The two lighter nodes are interchangeable.
Symmetry == Permutations({n2, n3})

=============================================================================
