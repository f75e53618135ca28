--------------------------- MODULE TransferLedger ---------------------------
(***************************************************************************)
(* What the two ends of a transfer channel promise the holders of tokens:  *)
(* a transfer is debited once and then either credited to its receiver or  *)
(* returned to its sender.  The ledger knows nothing of heights, light     *)
(* clients, proofs, escrows or acknowledgements; Wallet implements it.     *)
(***************************************************************************)
EXTENDS Integers, Sequences

CONSTANTS
    Chains,  \* the two chains
    Orders   \* the transfers that may be ordered: [source, origin, amount, ...]

VARIABLES
    funds,     \* what the users of each chain hold of each chain's token
    transfers  \* the transfers each chain has sent, with their stages

ledgerVars == <<funds, transfers>>

Credit(c, order) == funds' = [funds EXCEPT ![c][order.origin] = @ + order.amount]

Move(c, i, from, to) ==
    /\ transfers[c][i].stage = from
    /\ transfers' = [transfers EXCEPT ![c][i].stage = to]

Init ==
    /\ funds \in [Chains -> [Chains -> Nat]]
    /\ transfers = [c \in Chains |-> <<>>]

Send(c, order) ==
    /\ order.source = c
    /\ order.amount <= funds[c][order.origin]
    /\ funds' = [funds EXCEPT ![c][order.origin] = @ - order.amount]
    /\ transfers' = [transfers EXCEPT ![c] = Append(@, [order |-> order, stage |-> "pending"])]

Deliver(c, i) ==
    /\ Move(c, i, "pending", "delivered")
    /\ \E d \in Chains \ {c} : Credit(d, transfers[c][i].order)

Reject(c, i) == Move(c, i, "pending", "rejected") /\ UNCHANGED funds

Settle(c, i) == Move(c, i, "delivered", "settled") /\ UNCHANGED funds

Refund(c, i) ==
    /\ \E stage \in {"pending", "rejected"} : Move(c, i, stage, "refunded")
    /\ Credit(c, transfers[c][i].order)

\* The exception: the source takes a timeout on a proof that is older than
\* the receipt, and both ends are credited.
Dispute(c, i) ==
    /\ Move(c, i, "delivered", "disputed")
    /\ Credit(c, transfers[c][i].order)

Next ==
    \E c \in Chains :
        \/ \E order \in Orders : Send(c, order)
        \/ \E i \in DOMAIN transfers[c] :
             Deliver(c, i) \/ Reject(c, i) \/ Settle(c, i) \/ Refund(c, i) \/ Dispute(c, i)

Spec == Init /\ [][Next]_ledgerVars

=============================================================================
