------------------------------- MODULE Ics20 --------------------------------
(***************************************************************************)
(* Fungible token transfers over IBC: withdrawals, packets with their      *)
(* commitments, receipts and acknowledgements, timeouts, and the value     *)
(* balances that escrow a chain's own tokens and count the vouchers of the *)
(* other's.  Both ends of the channel run this code.  What a relayer       *)
(* carries is never trusted: a handler takes a message only with a proof   *)
(* against a header its light client has verified, so messages may be      *)
(* lost, repeated, delayed and reordered at will.                          *)
(*                                                                         *)
(* The channel and its connection are open and the clients neither frozen  *)
(* nor expired: the checks of those only refuse messages.                  *)
(***************************************************************************)
EXTENDS Integers, Sequences, FiniteSetsExt

CONSTANTS
    Chains,       \* the two chains
    Withdrawals,  \* the withdrawals users may make, each at most once (bound)
    GenesisFunds, \* what the users of each chain hold of each chain's token
    MaxHeight     \* bound: the last block each chain executes

VARIABLES
    height,     \* the block each chain is executing
    consensus,  \* the heights of the other chain each client has verified
    balance,    \* ics20_value_balance of each chain, for each chain's token
    funds,      \* what the users of each chain hold of each chain's token
    packets     \* the packets each chain has sent, by sequence number

Other(c) == CHOOSE d \in Chains : d # c

\* Header times increase with the height, and there is time between two headers:
\* a timeout at an odd time falls there.
Timestamp(h) == 2 * h

LatestHeight(c) == Max(consensus[c])

\* A packet: the withdrawal it carries; the heights of its source at which its
\* commitment was written and deleted, and of its destination at which its
\* receipt and acknowledgement were, 0 for never; whether the acknowledgement
\* is a success.  refunded and timely are history: whether the source has
\* refunded it, and on what: an acknowledgement, or a timeout that had passed
\* at the height of its proof.
Packet(c, w) ==
    [ order |-> w, sent |-> height[c], cleared |-> 0, received |-> 0,
      success |-> FALSE, refunded |-> FALSE, timely |-> TRUE ]

Init ==
    /\ height = [c \in Chains |-> 2]
    /\ consensus = [c \in Chains |-> {1}]
    /\ balance = [c \in Chains |-> [o \in Chains |->
                    GenesisFunds[IF o = c THEN Other(c) ELSE c][o]]]
    /\ funds = GenesisFunds
    /\ packets = [c \in Chains |-> <<>>]

-----------------------------------------------------------------------------
(* Light clients                                                            *)

\* The client keeps every height it has verified; updates may come in any order.
VerifiedHeights(c, h) == consensus[c] \cup {h}

\* A header is known once its block is committed.
UpdateClient(c, h) ==
    /\ h < height[Other(c)]
    /\ h \notin consensus[c]
    /\ consensus' = [consensus EXCEPT ![c] = VerifiedHeights(c, h)]
    /\ UNCHANGED <<height, balance, funds, packets>>

\* The header of h carries the root of the state after block h - 1.
ProvesCommitment(p, h) == p.sent <= h - 1 /\ (p.cleared = 0 \/ p.cleared > h - 1)

ProvesReceipt(p, h) == p.received # 0 /\ p.received <= h - 1

-----------------------------------------------------------------------------
(* Transfers                                                                *)

\* Tokens leave the users of c: its own go into escrow, vouchers are burned.
TakeTokens(c, w) ==
    /\ w.amount <= funds[c][w.origin]
    /\ w.origin # c => w.amount <= balance[c][w.origin]
    /\ funds' = [funds EXCEPT ![c][w.origin] = @ - w.amount]
    /\ balance' = [balance EXCEPT ![c][w.origin] =
                     IF w.origin = c THEN @ + w.amount ELSE @ - w.amount]

\* Tokens come to the users of c: its own out of escrow, vouchers are minted.
Unescrowable(c, w) == w.origin = c => w.amount <= balance[c][w.origin]

GiveTokens(c, w) ==
    /\ funds' = [funds EXCEPT ![c][w.origin] = @ + w.amount]
    /\ balance' = [balance EXCEPT ![c][w.origin] =
                     IF w.origin = c THEN @ - w.amount ELSE @ + w.amount]

SendPacketCheck(c, w) ==
    /\ w.timeoutHeight > LatestHeight(c)
    /\ w.timeoutTime > Timestamp(LatestHeight(c))

Withdraw(c, w) ==
    /\ w.source = c
    /\ \A i \in DOMAIN packets[c] : packets[c][i].order # w
    /\ SendPacketCheck(c, w)
    /\ TakeTokens(c, w)
    /\ packets' = [packets EXCEPT ![c] = Append(@, Packet(c, w))]
    /\ UNCHANGED <<height, consensus>>

\* Mutant: the destination does not look at the timestamp.
BeforeTimeoutHeight(c, w) == height[c] <= w.timeoutHeight

BeforeTimeout(c, w) ==
    /\ height[c] <= w.timeoutHeight
    /\ Timestamp(height[c]) < w.timeoutTime

\* Mutant: the destination does not look for the receipt.
SeenNever(p) == FALSE

SeenPacket(p) == p.received # 0

RecvPacket(c, i, h) ==
    LET s == Other(c)
        p == packets[s][i]
        success == p.order.valid /\ Unescrowable(c, p.order)
    IN
    /\ h \in consensus[c]
    /\ BeforeTimeout(c, p.order)
    /\ ProvesCommitment(p, h)
    /\ ~SeenPacket(p)
    /\ packets' = [packets EXCEPT ![s][i] =
                     [@ EXCEPT !.received = height[c], !.success = success]]
    /\ IF success THEN GiveTokens(c, p.order) ELSE UNCHANGED <<balance, funds>>
    /\ UNCHANGED <<height, consensus>>

RefundTokens(c, w) == Unescrowable(c, w) /\ GiveTokens(c, w)

\* Mutant: an acknowledgement of an error fails the relayer's transaction.
AcknowledgeSuccess(c, i, h) ==
    LET p == packets[c][i] IN
    /\ h \in consensus[c]
    /\ p.cleared = 0
    /\ ProvesReceipt(p, h)
    /\ p.success
    /\ packets' = [packets EXCEPT ![c][i].cleared = height[c]]
    /\ UNCHANGED <<height, consensus, balance, funds>>

Acknowledge(c, i, h) ==
    LET p == packets[c][i] IN
    /\ h \in consensus[c]
    /\ p.cleared = 0
    /\ ProvesReceipt(p, h)
    /\ packets' = [packets EXCEPT ![c][i] =
                     [@ EXCEPT !.cleared = height[c], !.refunded = ~p.success]]
    /\ IF p.success THEN UNCHANGED <<balance, funds>> ELSE RefundTokens(c, p.order)
    /\ UNCHANGED <<height, consensus>>

TimedOut(w, h, time) == h > w.timeoutHeight \/ time > w.timeoutTime

\* The timeout is judged by the height of the proof and by the time of the
\* client's latest header, which may be above the proof.
Timeout(c, i, h) ==
    LET p == packets[c][i] IN
    /\ h \in consensus[c]
    /\ TimedOut(p.order, h, Timestamp(LatestHeight(c)))
    /\ p.cleared = 0
    /\ ~ProvesReceipt(p, h)
    /\ RefundTokens(c, p.order)
    /\ packets' = [packets EXCEPT ![c][i] =
                     [@ EXCEPT !.cleared = height[c], !.refunded = TRUE,
                               !.timely = TimedOut(p.order, h, Timestamp(h))]]
    /\ UNCHANGED <<height, consensus>>

EndBlock(c) ==
    /\ height[c] < MaxHeight[c]
    /\ height' = [height EXCEPT ![c] = @ + 1]
    /\ UNCHANGED <<consensus, balance, funds, packets>>

=============================================================================
