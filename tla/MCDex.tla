------------------------------- MODULE MCDex -------------------------------
EXTENDS Dex, TLC

\* Assets 1, 2 (the staking token) and 3.  Three positions on one pair, with
\* different prices, and one that makes a route of two hops to asset 3.
MCPhi ==
  [i \in 1..4 |->
    CASE i = 1 -> [a1 |-> 1, a2 |-> 2, fee |-> 0, p |-> 1, q |-> 1, cof |-> FALSE]
      [] i = 2 -> [a1 |-> 1, a2 |-> 2, fee |-> 0, p |-> 3, q |-> 2, cof |-> TRUE]
      [] i = 3 -> [a1 |-> 1, a2 |-> 2, fee |-> 0, p |-> 2, q |-> 3, cof |-> FALSE]
      [] i = 4 -> [a1 |-> 1, a2 |-> 3, fee |-> 2500, p |-> 2, q |-> 1, cof |-> FALSE]]
MCInitReserves ==
  [i \in 1..4 |->
    CASE i = 1 -> {<<2, 1>>} [] i = 2 -> {<<0, 3>>}
      [] i = 3 -> {<<2, 0>>} [] i = 4 -> {<<1, 3>>}]
MCSwapInputs == {<<<<1, 2>>, 2, 1>>}
Symmetry == Permutations(Swaps)
MCFeeInputs == {<<1, 1, 1>>, <<2, 1, 0>>, <<3, 2, 1>>}
=============================================================================
