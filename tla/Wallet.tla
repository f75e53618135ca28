------------------------------- MODULE Wallet -------------------------------
(***************************************************************************)
(* A wallet that sends tokens of its home chain over IBC and follows what  *)
(* becomes of them: Ics20 on two chains composed with ViewSync on the home *)
(* chain.  On the home chain the tokens users hold are notes of the        *)
(* wallet: a withdrawal spends one, and a transfer that arrives or is      *)
(* refunded mints one in the block that is being executed.                 *)
(***************************************************************************)
EXTENDS Integers, Sequences, FiniteSets, FiniteSetsExt, Functions

CONSTANTS Home, Chains, Withdrawals, GenesisNotes, GenesisFunds, MaxHeight, MaxFaults

ASSUME ChainsAssumption == \E d \in Chains : Home # d /\ Chains = {Home, d}

\* An Ics20Withdrawal: the chain it is made on, the chain its token is of, and
\* whether the receiver can parse the packet.
ASSUME WithdrawalsAssumption ==
    \A w \in Withdrawals :
        /\ w.source \in Chains /\ w.origin \in Chains
        /\ w.amount \in Nat \ {0}
        /\ w.timeoutHeight \in Nat /\ w.timeoutTime \in Nat
        /\ w.valid \in BOOLEAN

ASSUME FundsAssumption == GenesisFunds \in [Chains -> [Chains -> Nat]]

\* The users of the home chain hold the notes of its first block.
ASSUME NotesAssumption ==
    /\ GenesisNotes \in Seq([asset : Chains, amount : Nat])
    /\ \A o \in Chains :
         GenesisFunds[Home][o] =
             MapThenSumSet(LAMBDA i : GenesisNotes[i].amount,
                           {i \in DOMAIN GenesisNotes : GenesisNotes[i].asset = o})

VARIABLES height, consensus, balance, funds, packets
VARIABLES blocks, db, tree, uncommitted, phase, faults, torn

Ibc == INSTANCE Ics20
View == INSTANCE ViewSync

ibcVars == <<height, consensus, balance, funds, packets>>
viewVars == <<blocks, db, tree, uncommitted, phase, faults, torn>>
vars == <<ibcVars, viewVars>>

Init == Ibc!Init /\ View!Init

-----------------------------------------------------------------------------
Value(w) == [asset |-> w.origin, amount |-> w.amount]

\* The tokens a handler gives the users of the home chain are a note.
MintsOn(c, w) ==
    IF c = Home /\ funds'[c] # funds[c]
    THEN View!MintNote(Value(w))
    ELSE UNCHANGED viewVars

\* A withdrawal on the home chain spends a note of its value.
Withdraw(c, w) ==
    /\ Ibc!Withdraw(c, w)
    /\ IF c = Home
       THEN \E r \in db.notes : r.note.value = Value(w) /\ View!Spend(r)
       ELSE UNCHANGED viewVars

UpdateClient(c, h) == Ibc!UpdateClient(c, h) /\ UNCHANGED viewVars

RecvPacket(c, i, h) ==
    /\ Ibc!RecvPacket(c, i, h)
    /\ MintsOn(c, packets[Ibc!Other(c)][i].order)

Acknowledge(c, i, h) ==
    /\ Ibc!Acknowledge(c, i, h)
    /\ MintsOn(c, packets[c][i].order)

Timeout(c, i, h) ==
    /\ Ibc!Timeout(c, i, h)
    /\ MintsOn(c, packets[c][i].order)

EndBlock(c) ==
    /\ Ibc!EndBlock(c)
    /\ IF c = Home THEN View!FinishBlock ELSE UNCHANGED viewVars

FollowChain == View!Worker /\ UNCHANGED ibcVars

\* What a relayer may bring chain c.
Update(c) == \E h \in 1..MaxHeight[Ibc!Other(c)] : UpdateClient(c, h)

Relay(c) ==
    \E i \in DOMAIN packets[c], h \in consensus[c] : Acknowledge(c, i, h) \/ Timeout(c, i, h)

Next ==
    \/ \E c \in Chains :
         \/ EndBlock(c)
         \/ \E w \in Withdrawals : Withdraw(c, w)
         \/ \E i \in DOMAIN packets[Ibc!Other(c)], h \in consensus[c] : RecvPacket(c, i, h)
         \/ Update(c)
         \/ Relay(c)
    \/ FollowChain

\* Both chains go on, a relayer updates the clients and carries back what
\* became of a packet, and the worker runs.  Nobody has to make withdrawals or
\* to deliver them, and faults are never obliged to happen.
Fairness ==
    /\ \A c \in Chains : WF_vars(EndBlock(c)) /\ WF_vars(Update(c)) /\ WF_vars(Relay(c))
    /\ WF_vars((View!Sync \/ View!ScanBlock \/ View!Record) /\ UNCHANGED ibcVars)

Spec == Init /\ [][Next]_vars

FairSpec == Spec /\ Fairness

-----------------------------------------------------------------------------
(* Properties                                                               *)

Stage(p) ==
    CASE p.refunded /\ p.success -> "disputed"
      [] p.refunded /\ ~p.success -> "refunded"
      [] ~p.refunded /\ p.received = 0 -> "pending"
      [] ~p.refunded /\ p.received # 0 /\ ~p.success -> "rejected"
      [] ~p.refunded /\ p.success /\ p.cleared = 0 -> "delivered"
      [] ~p.refunded /\ p.success /\ p.cleared # 0 -> "settled"

Ledger == INSTANCE TransferLedger WITH
    Orders <- Withdrawals,
    transfers <- [c \in Chains |-> [i \in DOMAIN packets[c] |->
                    [order |-> packets[c][i].order, stage |-> Stage(packets[c][i])]]]

\* The two ends implement the ledger: whatever relayers lose, repeat or
\* reorder, a transfer is credited to its receiver at most once and returned
\* to its sender at most once, never credited after it was returned, and what
\* users hold changes by nothing else.  A transfer that is credited and
\* returned is the exception the ledger names; EscrowExact says what it takes.
LedgerImplemented == Ledger!Spec

\* The tokens of origin o in the packets that Filter selects.
Amounts(o, Filter(_)) ==
    SumFunction([c \in Chains |-> SumFunction([i \in DOMAIN packets[c] |->
        IF packets[c][i].order.origin = o /\ Filter(packets[c][i])
        THEN packets[c][i].order.amount ELSE 0])])

UnderWay(p) == ~p.success /\ ~p.refunded

PaidTwice(p) == p.success /\ p.refunded /\ ~p.timely

\* What a chain holds in escrow is exactly what the other end has issued
\* vouchers for and what is under way; it falls short only by packets that
\* were received and then refunded on a timeout which had not yet passed at
\* the height of its proof.
EscrowExact ==
    \A o \in Chains :
        balance[o][o] + Amounts(o, PaidTwice)
            = funds[Ibc!Other(o)][o] + Amounts(o, UnderWay)

Synced == View!LastSyncHeight

NotesTo(h) == UNION {{blocks[k].notes[j] : j \in DOMAIN blocks[k].notes} : k \in 1..h}

SpentTo(h) == {n.note : n \in View!Nullifiers(h)}

\* Through errors and crashes the wallet knows every note of the blocks it has
\* synced, and takes none for spent that is not.  Unless an error came between
\* a scan and its record, its tree is also that of the chain, in memory and on
\* disk, it knows every spend, and it can witness every unspent note.
WalletExact ==
    /\ {r.note : r \in db.notes} = NotesTo(Synced)
    /\ {r.note : r \in {s \in db.notes : s.spent # 0}} \subseteq SpentTo(Synced)
    /\ torn = "no" =>
         /\ tree.blocks = View!Sct(IF phase = "scanned" THEN Synced + 1 ELSE Synced)
         /\ db.tree.blocks = View!Sct(db.height)
         /\ \A r \in db.notes :
              IF r.note \in SpentTo(Synced) THEN r.spent # 0 ELSE r.note \in tree.kept

Ended(p) == p.cleared # 0 \/ Amounts(p.order.origin, PaidTwice) > 0

\* Every transfer ends, by an acknowledgement or a timeout that clears its
\* commitment, unless tokens of its origin were paid twice; and the wallet
\* always catches up with its chain.
TransfersEnd ==
    []<>( /\ \A c \in Chains : \A i \in DOMAIN packets[c] : Ended(packets[c][i])
          /\ Synced = View!Committed )

=============================================================================
