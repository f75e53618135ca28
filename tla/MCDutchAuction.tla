--------------------------- MODULE MCDutchAuction ---------------------------
(***************************************************************************)
(* DutchAuction for TLC: two auctions that sell each other's asset, so that *)
(* they share both value balances.  The amounts do not divide evenly, so    *)
(* that both roundings of a fill occur, and the auctions overlap in time.   *)
(***************************************************************************)
EXTENDS DutchAuction, TLC

Selling(x, y, amount, start, steps, size) ==
  [input |-> x, output |-> y, amount |-> amount, max_output |-> 5,
   min_output |-> 3, start_height |-> start, end_height |-> start + steps * size,
   step_count |-> steps]

MCTwo == "a1" :> Selling("X", "Y", 2, 1, 3, 1)
      @@ "a2" :> Selling("Y", "X", 2, 1, 2, 2)
MCTakers == {-2, 0, 2, 3}
=============================================================================
