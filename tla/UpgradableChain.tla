-------------------------- MODULE UpgradableChain --------------------------
(***************************************************************************)
(* What a network that can halt and upgrade promises: one chain of blocks, *)
(* of which every node executes each block once and in order.  The chain   *)
(* stops at a block that halts it; from there it goes on as a new network  *)
(* or, once an operator has resumed a node, as it was.  The chain knows    *)
(* nothing of processes, crashes, halt bits, watermarks or migrations;     *)
(* ChainUpgrade implements it.                                             *)
(***************************************************************************)
EXTENDS Integers, Sequences

CONSTANTS
    Nodes,   \* the nodes that execute the chain
    Quorum,  \* the sets of nodes that may extend it
    Blocks   \* the blocks: [height, genesis, body], see ChainUpgrade

VARIABLES
    chain,   \* the blocks decided
    copies,  \* the blocks each node has executed
    resumed  \* the nodes an operator has resumed

chainVars == <<chain, copies, resumed>>

\* The plan that stands after the first i blocks of c is for height u.
Planned(c, i, u) ==
    \E j \in 1..i : /\ c[j].body.plan = u
                    /\ \A k \in (j + 1)..i : c[k].body.plan = 0

\* The last block of c halts the chain.
Ended(c) ==
    LET i == Len(c)
    IN  i > 0 /\ (c[i].body.halt \/ Planned(c, i, i + 1))

\* The next block belongs to the network of the last one, or begins its own.
Continues(b) ==
    /\ b.genesis = IF chain = <<>> THEN 1 ELSE chain[Len(chain)].genesis
    /\ Ended(chain) => resumed # {}

Restarts(b) ==
    /\ b.genesis = b.height
    /\ Ended(chain) \/ resumed # {}

Init ==
    /\ chain = <<>>
    /\ copies = [n \in Nodes |-> <<>>]
    /\ resumed = {}

\* A quorum that has executed the whole chain agrees on the next block.
Extend(b) ==
    /\ b.height = Len(chain) + 1
    /\ \E Q \in Quorum : \A n \in Q : copies[n] = chain
    /\ Continues(b) \/ Restarts(b)
    /\ chain' = Append(chain, b)
    /\ UNCHANGED <<copies, resumed>>

Apply(n) ==
    /\ Len(copies[n]) < Len(chain)
    /\ copies' = [copies EXCEPT ![n] = Append(@, chain[Len(@) + 1])]
    /\ UNCHANGED <<chain, resumed>>

\* The first node to be resumed is at a block that halts the chain, which the
\* others may have left behind for the next network.
Resume(n) ==
    /\ resumed = {} => Ended(copies[n])
    /\ resumed' = resumed \cup {n}
    /\ UNCHANGED <<chain, copies>>

Next ==
    \/ \E b \in Blocks : Extend(b)
    \/ \E n \in Nodes : Apply(n) \/ Resume(n)

Spec == Init /\ [][Next]_chainVars

=============================================================================
