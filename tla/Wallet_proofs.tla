---------------------------- MODULE Wallet_proofs ----------------------------
(***************************************************************************)
(* Proofs about Wallet, for every set of withdrawals, every height bound   *)
(* and every bound on faults: the two ends of a transfer channel implement *)
(* TransferLedger, and what is in escrow is exactly what is owed.          *)
(***************************************************************************)
EXTENDS Wallet, SumTheorems, SequenceTheorems

Other(c) == Ibc!Other(c)

PacketType ==
    [ order : Withdrawals, sent : Nat, cleared : Nat, received : Nat,
      success : BOOLEAN, refunded : BOOLEAN, timely : BOOLEAN ]

Types ==
    /\ height \in [Chains -> Nat]
    /\ consensus \in [Chains -> SUBSET Nat]
    /\ balance \in [Chains -> [Chains -> Nat]]
    /\ funds \in [Chains -> [Chains -> Nat]]
    /\ packets \in [Chains -> Seq(PacketType)]

\* A client has verified a header, and only headers of committed blocks.
Clients ==
    \A c \in Chains :
        /\ consensus[c] # {}
        /\ \A h \in consensus[c] : h < height[Other(c)]
        /\ height[c] > 0

Passed(w, h) == h > w.timeoutHeight \/ 2 * h > w.timeoutTime

\* What a packet of chain c that its receiver has, its sender has settled, or
\* both, has gone through: it was received before its timeout, and refunded on
\* an error or when the destination was past the timeout.
PacketOK(c, p) ==
    /\ p.order.source = c
    /\ p.success => p.received # 0
    /\ p.refunded => p.cleared # 0
    /\ p.cleared # 0 /\ ~p.refunded => p.success
    /\ p.received # 0 => p.received <= p.order.timeoutHeight /\ 2 * p.received < p.order.timeoutTime
    /\ p.refunded /\ p.received = 0 => Passed(p.order, height[Other(c)])
    /\ p.success /\ p.refunded => ~p.timely

Packets == \A c \in Chains : \A i \in DOMAIN packets[c] : PacketOK(c, packets[c][i])

\* The inductive invariant of the two chains.
IbcInv == Types /\ Clients /\ Packets

-----------------------------------------------------------------------------
(* The two chains                                                           *)

\* A chain has one counterparty.
LEMMA OtherChain ==
  ASSUME NEW c \in Chains
  PROVE  Other(c) \in Chains /\ Other(c) # c /\ \A d \in Chains : d # c <=> d = Other(c)
<1>1. PICK d \in Chains : Home # d /\ Chains = {Home, d}
  BY ChainsAssumption
<1>2. \E e \in Chains : e # c
  BY <1>1
<1> QED BY <1>1, <1>2 DEF Other, Ibc!Other

\* The counterparty of the counterparty is the chain itself.
LEMMA OtherTwice ==
  ASSUME NEW c \in Chains
  PROVE  Other(Other(c)) = c
BY OtherChain

\* There are finitely many chains.
LEMMA ChainsFinite == IsFiniteSet(Chains)
<1>1. PICK d \in Chains : Home # d /\ Chains = {Home, d}
  BY ChainsAssumption
<1>2. IsFiniteSet({Home})
  BY FS_Singleton
<1>3. IsFiniteSet({Home} \cup {d})
  BY <1>2, FS_AddElement
<1> QED BY <1>1, <1>3

\* The fields of a withdrawal.
LEMMA WithdrawalType ==
  ASSUME NEW w \in Withdrawals
  PROVE  /\ w.source \in Chains /\ w.origin \in Chains /\ w.valid \in BOOLEAN
         /\ w.amount \in Nat /\ w.amount > 0
         /\ w.timeoutHeight \in Nat /\ w.timeoutTime \in Nat
BY WithdrawalsAssumption

\* A non-empty set of naturals below a bound has a largest member.
LEMMA MaxOfBounded ==
  ASSUME NEW S \in SUBSET Nat, S # {}, NEW n \in Nat, \A x \in S : x < n
  PROVE  Max(S) \in S
<1> DEFINE N == {k \in Nat : \A T \in SUBSET Nat :
                   T # {} /\ (\A x \in T : x < k) => \E m \in T : \A y \in T : m >= y}
<1>1. 0 \in N
  <2>1. ASSUME NEW T \in SUBSET Nat, T # {}, \A x \in T : x < 0 PROVE FALSE
    <3>1. PICK x \in T : TRUE
      BY <2>1
    <3> QED BY <2>1, <3>1
  <2> QED BY <2>1
<1>2. ASSUME NEW k \in Nat, k \in N PROVE k + 1 \in N
  <2>1. ASSUME NEW T \in SUBSET Nat, T # {}, \A x \in T : x < k + 1
        PROVE  \E m \in T : \A y \in T : m >= y
    <3>1. CASE k \in T
      BY <2>1, <3>1
    <3>2. CASE k \notin T
      <4>1. \A x \in T : x < k
        BY <2>1, <3>2
      <4> QED BY <1>2, <2>1, <4>1
    <3> QED BY <3>1, <3>2
  <2> QED BY <2>1
<1>3. \A k \in Nat : k \in N
  <2> HIDE DEF N
  <2> QED BY <1>1, <1>2, NatSetInduction
<1>4. \E m \in S : \A y \in S : m >= y
  BY <1>3
<1> QED BY <1>4 DEF Max

\* A client's latest height is below the height of the other chain.
LEMMA LatestVerified ==
  ASSUME Types, Clients, NEW c \in Chains
  PROVE  /\ Ibc!LatestHeight(c) \in consensus[c]
         /\ Ibc!LatestHeight(c) \in Nat
         /\ Ibc!LatestHeight(c) < height[Other(c)]
<1>1. consensus[c] \in SUBSET Nat /\ consensus[c] # {} /\ height[Other(c)] \in Nat
  BY OtherChain DEF Types, Clients
<1>2. \A x \in consensus[c] : x < height[Other(c)]
  BY DEF Clients
<1>3. PICK S, n : S = consensus[c] /\ n = height[Other(c)]
  OBVIOUS
<1>4. S \in SUBSET Nat /\ S # {} /\ n \in Nat /\ \A x \in S : x < n
  BY <1>1, <1>2, <1>3
<1>5. Max(S) \in S
  BY <1>4, MaxOfBounded
<1> QED BY <1>1, <1>2, <1>3, <1>5 DEF Ibc!LatestHeight, Ibc!Max, Max

-----------------------------------------------------------------------------
(* What a step does to the packets and to the tokens                        *)

\* Packet i of chain s becomes q.
Turned(s, i, q) == packets' = [packets EXCEPT ![s][i] = q]

\* One packet becomes another; the rest stay.
LEMMA PacketsTurned ==
  ASSUME packets \in [Chains -> Seq(PacketType)],
         NEW s \in Chains, NEW i \in DOMAIN packets[s], NEW q \in PacketType, Turned(s, i, q)
  PROVE  /\ packets' \in [Chains -> Seq(PacketType)]
         /\ \A c \in Chains : DOMAIN packets'[c] = DOMAIN packets[c]
         /\ packets'[s][i] = q
         /\ \A c \in Chains : \A j \in DOMAIN packets[c] :
              c # s \/ j # i => packets'[c][j] = packets[c][j]
<1>1. packets[s] \in Seq(PacketType)
  OBVIOUS
<1>2. packets'[s] = [packets[s] EXCEPT ![i] = q]
  BY DEF Turned
<1>3. packets'[s] \in Seq(PacketType) /\ DOMAIN packets'[s] = DOMAIN packets[s]
  BY <1>1, <1>2
<1>4. \A c \in Chains : c # s => packets'[c] = packets[c]
  BY DEF Turned
<1>5. packets' = [c \in Chains |-> packets'[c]]
  BY DEF Turned
<1>6. packets'[s][i] = q /\ \A j \in DOMAIN packets[s] : j # i => packets'[s][j] = packets[s][j]
  BY <1>1, <1>2
<1> QED BY <1>3, <1>4, <1>5, <1>6

\* One packet is added; the rest stay.
LEMMA PacketsAppended ==
  ASSUME packets \in [Chains -> Seq(PacketType)], NEW c \in Chains, NEW q \in PacketType,
         packets' = [packets EXCEPT ![c] = Append(@, q)]
  PROVE  /\ packets' \in [Chains -> Seq(PacketType)]
         /\ \A d \in Chains : d # c => packets'[d] = packets[d]
         /\ DOMAIN packets'[c] = DOMAIN packets[c] \cup {Len(packets[c]) + 1}
         /\ Len(packets[c]) + 1 \notin DOMAIN packets[c]
         /\ packets'[c][Len(packets[c]) + 1] = q
         /\ \A j \in DOMAIN packets[c] : packets'[c][j] = packets[c][j]
<1>1. packets[c] \in Seq(PacketType) /\ packets'[c] = Append(packets[c], q)
  OBVIOUS
<1>2. \A d \in Chains : d # c => packets'[d] = packets[d]
  OBVIOUS
<1>3. packets'[c] \in Seq(PacketType) /\ Len(packets[c]) \in Nat
      /\ Len(packets'[c]) = Len(packets[c]) + 1
  BY <1>1
<1>4. DOMAIN packets'[c] = DOMAIN packets[c] \cup {Len(packets[c]) + 1}
      /\ Len(packets[c]) + 1 \notin DOMAIN packets[c]
  BY <1>1, <1>3
<1>5. packets'[c][Len(packets[c]) + 1] = q
      /\ \A j \in DOMAIN packets[c] : packets'[c][j] = packets[c][j]
  BY <1>1
<1> QED BY <1>2, <1>3, <1>4, <1>5

\* The fields of a packet.
LEMMA PacketFields ==
  ASSUME NEW p \in PacketType
  PROVE  /\ p.order \in Withdrawals
         /\ p.sent \in Nat /\ p.cleared \in Nat /\ p.received \in Nat
         /\ p.success \in BOOLEAN /\ p.refunded \in BOOLEAN /\ p.timely \in BOOLEAN
BY DEF PacketType

\* The packet a withdrawal makes.
LEMMA NewPacket ==
  ASSUME Types, NEW c \in Chains, NEW w \in Withdrawals
  PROVE  /\ Ibc!Packet(c, w) \in PacketType
         /\ Ibc!Packet(c, w).order = w /\ Ibc!Packet(c, w).received = 0
         /\ Ibc!Packet(c, w).cleared = 0
         /\ ~Ibc!Packet(c, w).success /\ ~Ibc!Packet(c, w).refunded
BY DEF Ibc!Packet, PacketType, Types

Received(p, h, s) == [p EXCEPT !.received = h, !.success = s]
Acknowledged(p, h, r) == [p EXCEPT !.cleared = h, !.refunded = r]
TimedOutPacket(p, h, t) == [p EXCEPT !.cleared = h, !.refunded = TRUE, !.timely = t]

\* The fields of a packet once it is received.
LEMMA ReceivedPacket ==
  ASSUME NEW p \in PacketType, NEW h \in Nat, NEW s \in BOOLEAN
  PROVE  /\ Received(p, h, s) \in PacketType
         /\ Received(p, h, s).order = p.order /\ Received(p, h, s).cleared = p.cleared
         /\ Received(p, h, s).refunded = p.refunded /\ Received(p, h, s).timely = p.timely
         /\ Received(p, h, s).received = h /\ Received(p, h, s).success = s
BY Zenon DEF Received, PacketType

\* The fields of a packet once it is acknowledged.
LEMMA AcknowledgedPacket ==
  ASSUME NEW p \in PacketType, NEW h \in Nat, NEW r \in BOOLEAN
  PROVE  /\ Acknowledged(p, h, r) \in PacketType
         /\ Acknowledged(p, h, r).order = p.order /\ Acknowledged(p, h, r).received = p.received
         /\ Acknowledged(p, h, r).success = p.success /\ Acknowledged(p, h, r).timely = p.timely
         /\ Acknowledged(p, h, r).cleared = h /\ Acknowledged(p, h, r).refunded = r
BY Zenon DEF Acknowledged, PacketType

\* The fields of a packet once it has timed out.
LEMMA TimedOutFields ==
  ASSUME NEW p \in PacketType, NEW h \in Nat, NEW t \in BOOLEAN
  PROVE  /\ TimedOutPacket(p, h, t) \in PacketType
         /\ TimedOutPacket(p, h, t).order = p.order
         /\ TimedOutPacket(p, h, t).received = p.received
         /\ TimedOutPacket(p, h, t).success = p.success
         /\ TimedOutPacket(p, h, t).cleared = h /\ TimedOutPacket(p, h, t).refunded
         /\ TimedOutPacket(p, h, t).timely = t
BY Zenon DEF TimedOutPacket, PacketType

\* A withdrawal takes no more than there is.
LEMMA TakeTypes ==
  ASSUME Types, NEW c \in Chains, NEW w \in Withdrawals, Ibc!TakeTokens(c, w)
  PROVE  balance' \in [Chains -> [Chains -> Nat]] /\ funds' \in [Chains -> [Chains -> Nat]]
<1>1. w.origin \in Chains /\ w.amount \in Nat /\ funds[c][w.origin] \in Nat /\ balance[c][w.origin] \in Nat
  BY WithdrawalType DEF Types
<1>2. w.amount <= funds[c][w.origin] /\ (w.origin # c => w.amount <= balance[c][w.origin])
  BY DEF Ibc!TakeTokens
<1>3. funds[c][w.origin] - w.amount \in Nat
      /\ (IF w.origin = c THEN balance[c][w.origin] + w.amount ELSE balance[c][w.origin] - w.amount) \in Nat
  BY <1>1, <1>2
<1> QED BY <1>1, <1>3 DEF Ibc!TakeTokens, Types

\* A receipt or a refund gives no more than is in escrow.
LEMMA GiveTypes ==
  ASSUME Types, NEW c \in Chains, NEW w \in Withdrawals, Ibc!Unescrowable(c, w), Ibc!GiveTokens(c, w)
  PROVE  balance' \in [Chains -> [Chains -> Nat]] /\ funds' \in [Chains -> [Chains -> Nat]]
<1>1. w.origin \in Chains /\ w.amount \in Nat /\ funds[c][w.origin] \in Nat /\ balance[c][w.origin] \in Nat
  BY WithdrawalType DEF Types
<1>2. funds[c][w.origin] + w.amount \in Nat
      /\ (IF w.origin = c THEN balance[c][w.origin] - w.amount ELSE balance[c][w.origin] + w.amount) \in Nat
  BY <1>1 DEF Ibc!Unescrowable
<1> QED BY <1>1, <1>2 DEF Ibc!GiveTokens, Types

-----------------------------------------------------------------------------
(* What the three handlers of a packet do, with their proofs worked out     *)

\* c receives packet p, number i of the other chain, with the outcome s.
Receives(c, i, p, s) ==
    /\ p.received = 0
    /\ height[c] <= p.order.timeoutHeight /\ 2 * height[c] < p.order.timeoutTime
    /\ Turned(Other(c), i, Received(p, height[c], s))
    /\ s => Ibc!Unescrowable(c, p.order) /\ Ibc!GiveTokens(c, p.order)
    /\ ~s => UNCHANGED <<balance, funds>>
    /\ UNCHANGED <<height, consensus>>

\* c takes the acknowledgement of its packet p, number i.
Acknowledges(c, i, p) ==
    /\ p.cleared = 0 /\ p.received # 0
    /\ Turned(c, i, Acknowledged(p, height[c], ~p.success))
    /\ p.success => UNCHANGED <<balance, funds>>
    /\ ~p.success => Ibc!Unescrowable(c, p.order) /\ Ibc!GiveTokens(c, p.order)
    /\ UNCHANGED <<height, consensus>>

\* c takes the timeout of its packet p, number i: the destination is past it,
\* and if it had received the packet, the timeout had not passed at the proof.
TimesOut(c, i, p, t) ==
    /\ p.cleared = 0
    /\ Passed(p.order, height[Other(c)])
    /\ p.received # 0 => ~t
    /\ Turned(c, i, TimedOutPacket(p, height[c], t))
    /\ Ibc!Unescrowable(c, p.order) /\ Ibc!GiveTokens(c, p.order)
    /\ UNCHANGED <<height, consensus>>

\* What the invariant says of one packet.
LEMMA PacketInDomain ==
  ASSUME IbcInv, NEW c \in Chains, NEW i \in DOMAIN packets[c]
  PROVE  packets[c][i] \in PacketType /\ PacketOK(c, packets[c][i])
<1>1. packets[c] \in Seq(PacketType)
  BY DEF IbcInv, Types
<1> QED BY <1>1 DEF IbcInv, Packets

\* RecvPacket is Receives for some outcome.
LEMMA RecvStep ==
  ASSUME IbcInv, NEW c \in Chains, NEW i \in DOMAIN packets[Other(c)], NEW h \in consensus[c],
         Ibc!RecvPacket(c, i, h)
  PROVE  \E s \in BOOLEAN : Receives(c, i, packets[Other(c)][i], s)
<1>1. PICK p : p = packets[Other(c)][i]
  OBVIOUS
<1>2. p \in PacketType /\ p.order.valid \in BOOLEAN
  BY <1>1, OtherChain, PacketInDomain, PacketFields, WithdrawalType
<1>3. PICK s : s = (p.order.valid /\ Ibc!Unescrowable(c, p.order))
  OBVIOUS
<1>4. s \in BOOLEAN
  BY <1>3
<1>5. Turned(Other(c), i, Received(p, height[c], s))
  BY <1>1, <1>3, Zenon DEF Ibc!RecvPacket, Turned, Received, Other
<1>6. /\ p.received = 0
      /\ height[c] <= p.order.timeoutHeight /\ 2 * height[c] < p.order.timeoutTime
  BY <1>1 DEF Ibc!RecvPacket, Ibc!BeforeTimeout, Ibc!Timestamp, Ibc!SeenPacket, Other
<1>7. UNCHANGED <<height, consensus>>
  BY DEF Ibc!RecvPacket
<1>8. IF s THEN Ibc!GiveTokens(c, p.order) ELSE UNCHANGED <<balance, funds>>
  BY <1>1, <1>3, Zenon DEF Ibc!RecvPacket, Other
<1>9. s => Ibc!Unescrowable(c, p.order)
  BY <1>3, Zenon
<1> QED BY <1>1, <1>4, <1>5, <1>6, <1>7, <1>8, <1>9, Zenon DEF Receives

\* Acknowledge is Acknowledges: the proof shows that the packet was received.
LEMMA AckStep ==
  ASSUME IbcInv, NEW c \in Chains, NEW i \in DOMAIN packets[c], NEW h \in consensus[c],
         Ibc!Acknowledge(c, i, h)
  PROVE  Acknowledges(c, i, packets[c][i])
<1>1. PICK p : p = packets[c][i]
  OBVIOUS
<1>2. p.cleared = 0 /\ p.received # 0
  BY <1>1 DEF Ibc!Acknowledge, Ibc!ProvesReceipt
<1>3. Turned(c, i, Acknowledged(p, height[c], ~p.success))
  BY <1>1, Zenon DEF Ibc!Acknowledge, Turned, Acknowledged
<1>4. IF p.success THEN UNCHANGED <<balance, funds>> ELSE Ibc!RefundTokens(c, p.order)
  BY <1>1, Zenon DEF Ibc!Acknowledge
<1>5. UNCHANGED <<height, consensus>>
  BY DEF Ibc!Acknowledge
<1> QED BY <1>1, <1>2, <1>3, <1>4, <1>5, Zenon DEF Acknowledges, Ibc!RefundTokens

\* Timeout is TimesOut: the proof and the client show that the destination is
\* past it.
LEMMA TimeoutStep ==
  ASSUME IbcInv, NEW c \in Chains, NEW i \in DOMAIN packets[c], NEW h \in consensus[c],
         Ibc!Timeout(c, i, h)
  PROVE  \E t \in BOOLEAN : TimesOut(c, i, packets[c][i], t)
<1>1. PICK p : p = packets[c][i]
  OBVIOUS
<1>2. PICK t : t = Ibc!TimedOut(p.order, h, Ibc!Timestamp(h))
  OBVIOUS
<1>3. t \in BOOLEAN
  BY <1>2 DEF Ibc!TimedOut
<1>4. p \in PacketType /\ PacketOK(c, p) /\ p.order \in Withdrawals
  BY <1>1, PacketInDomain, PacketFields
<1>5. p.order.timeoutHeight \in Nat /\ p.order.timeoutTime \in Nat /\ p.received \in Nat /\ h \in Nat
      /\ height[Other(c)] \in Nat
  BY <1>4, PacketFields, WithdrawalType, OtherChain DEF IbcInv, Types
<1>6. h < height[Other(c)] /\ Ibc!LatestHeight(c) \in Nat /\ Ibc!LatestHeight(c) < height[Other(c)]
  BY LatestVerified DEF IbcInv, Clients
<1>7. Passed(p.order, height[Other(c)])
  BY <1>1, <1>5, <1>6 DEF Ibc!Timeout, Ibc!TimedOut, Ibc!Timestamp, Passed
<1>8. p.received # 0 => ~t
  <2>1. SUFFICES ASSUME p.received # 0, t PROVE FALSE
    BY <1>3, Zenon
  <2>2. p.received <= p.order.timeoutHeight /\ 2 * p.received < p.order.timeoutTime
    BY <1>4, <2>1 DEF PacketOK
  <2>3. p.received > h - 1
    BY <1>1, <1>5, <2>1 DEF Ibc!Timeout, Ibc!ProvesReceipt
  <2>4. h > p.order.timeoutHeight \/ 2 * h > p.order.timeoutTime
    BY <1>2, <2>1, Zenon DEF Ibc!TimedOut, Ibc!Timestamp
  <2> QED BY <1>5, <2>2, <2>3, <2>4
<1>9. p.cleared = 0 /\ Ibc!RefundTokens(c, p.order) /\ UNCHANGED <<height, consensus>>
  BY <1>1, Zenon DEF Ibc!Timeout
<1>10. Turned(c, i, TimedOutPacket(p, height[c], t))
  BY <1>1, <1>2, Zenon DEF Ibc!Timeout, Turned, TimedOutPacket
<1> QED BY <1>1, <1>3, <1>7, <1>8, <1>9, <1>10, Zenon DEF TimesOut, Ibc!RefundTokens

-----------------------------------------------------------------------------
(* The steps of the two chains                                              *)

\* What the steps of the composition are to the two chains.
LEMMA Steps ==
  ASSUME IbcInv, [Next]_vars
  PROVE  \/ \E c \in Chains, w \in Withdrawals : Ibc!Withdraw(c, w)
         \/ \E c \in Chains : \E i \in DOMAIN packets[Other(c)], s \in BOOLEAN :
              Receives(c, i, packets[Other(c)][i], s)
         \/ \E c \in Chains : \E i \in DOMAIN packets[c] : Acknowledges(c, i, packets[c][i])
         \/ \E c \in Chains : \E i \in DOMAIN packets[c], t \in BOOLEAN :
              TimesOut(c, i, packets[c][i], t)
         \/ \E c \in Chains : Ibc!EndBlock(c)
         \/ \E c \in Chains, h \in Nat : Ibc!UpdateClient(c, h)
         \/ UNCHANGED ibcVars
<1>1. CASE UNCHANGED vars
  BY <1>1 DEF vars
<1>2. CASE FollowChain
  BY <1>2 DEF FollowChain
<1>3. ASSUME NEW c \in Chains, EndBlock(c) PROVE Ibc!EndBlock(c)
  BY <1>3 DEF EndBlock
<1>4. ASSUME NEW c \in Chains, NEW w \in Withdrawals, Withdraw(c, w) PROVE Ibc!Withdraw(c, w)
  BY <1>4 DEF Withdraw
<1>5. ASSUME NEW c \in Chains, NEW i \in DOMAIN packets[Ibc!Other(c)], NEW h \in consensus[c],
             RecvPacket(c, i, h)
      PROVE  i \in DOMAIN packets[Other(c)]
             /\ \E s \in BOOLEAN : Receives(c, i, packets[Other(c)][i], s)
  <2>1. i \in DOMAIN packets[Other(c)] /\ Ibc!RecvPacket(c, i, h)
    BY <1>5 DEF RecvPacket, Other
  <2> QED BY <2>1, RecvStep
<1>6. ASSUME NEW c \in Chains, Update(c) PROVE \E h \in Nat : Ibc!UpdateClient(c, h)
  BY <1>6 DEF Update, UpdateClient
<1>7. ASSUME NEW c \in Chains, NEW i \in DOMAIN packets[c], NEW h \in consensus[c], Acknowledge(c, i, h)
      PROVE  Acknowledges(c, i, packets[c][i])
  BY <1>7, AckStep DEF Acknowledge
<1>8. ASSUME NEW c \in Chains, NEW i \in DOMAIN packets[c], NEW h \in consensus[c], Timeout(c, i, h)
      PROVE  \E t \in BOOLEAN : TimesOut(c, i, packets[c][i], t)
  BY <1>8, TimeoutStep DEF Timeout
<1> QED BY <1>1, <1>2, <1>3, <1>4, <1>5, <1>6, <1>7, <1>8, Zenon DEF Next, Relay

\* The initial state of the two chains.
LEMMA IbcInit ==
  ASSUME Init
  PROVE  IbcInv
<1>1. /\ height = [c \in Chains |-> 2] /\ consensus = [c \in Chains |-> {1}]
      /\ funds = GenesisFunds /\ packets = [c \in Chains |-> <<>>]
      /\ balance = [c \in Chains |-> [o \in Chains |->
                      GenesisFunds[IF o = c THEN Other(c) ELSE c][o]]]
  BY DEF Init, Ibc!Init, Other
<1>2. balance \in [Chains -> [Chains -> Nat]]
  BY <1>1, OtherChain, FundsAssumption
<1>3. packets \in [Chains -> Seq(PacketType)] /\ Packets
  BY <1>1 DEF Packets
<1>4. Clients
  BY <1>1, OtherChain DEF Clients
<1> QED BY <1>1, <1>2, <1>3, <1>4, FundsAssumption DEF IbcInv, Types

\* A packet that nothing touches stays as it is while heights grow.
LEMMA PacketStays ==
  ASSUME IbcInv, height' \in [Chains -> Nat], \A c \in Chains : height'[c] >= height[c],
         NEW c \in Chains, NEW p \in PacketType, PacketOK(c, p)
  PROVE  PacketOK(c, p)'
<1>1. Other(c) \in Chains /\ Other(c)' = Other(c) /\ p' = p
  BY OtherChain DEF Other, Ibc!Other
<1>2. height[Other(c)] \in Nat /\ height'[Other(c)] \in Nat /\ height'[Other(c)] >= height[Other(c)]
      /\ p.order.timeoutHeight \in Nat /\ p.order.timeoutTime \in Nat
  BY <1>1, PacketFields, WithdrawalType DEF IbcInv, Types
<1>3. Passed(p.order, height[Other(c)]) => Passed(p.order, height'[Other(c)])
  BY <1>2 DEF Passed
<1>4. p.refunded /\ p.received = 0 => Passed(p.order, height'[Other(c)])
  BY <1>3, Zenon DEF PacketOK
<1> QED BY <1>1, <1>4, Zenon DEF PacketOK

\* Clients stay right while heights grow.
LEMMA ClientsStay ==
  ASSUME IbcInv, height' \in [Chains -> Nat], \A c \in Chains : height'[c] >= height[c],
         consensus' = consensus
  PROVE  Clients'
<1>1. ASSUME NEW c \in Chains
      PROVE  /\ consensus'[c] # {}
             /\ \A h \in consensus'[c] : h < height'[Other(c)]
             /\ height'[c] > 0
  <2>1. Other(c) \in Chains /\ height[Other(c)] \in Nat /\ height'[Other(c)] \in Nat
        /\ height[c] \in Nat /\ height'[c] \in Nat /\ consensus[c] \in SUBSET Nat
    BY OtherChain DEF IbcInv, Types
  <2> QED BY <2>1 DEF IbcInv, Clients
<1> QED BY <1>1 DEF Clients, Other, Ibc!Other

\* When one packet turns into q, and q is as it should be, so are all.
LEMMA PacketsKept ==
  ASSUME IbcInv, UNCHANGED height, NEW s \in Chains, NEW i \in DOMAIN packets[s],
         NEW q \in PacketType, Turned(s, i, q), PacketOK(s, q)
  PROVE  Packets'
<1>1. SUFFICES ASSUME NEW c \in Chains, NEW j \in DOMAIN packets'[c]
               PROVE  PacketOK(c, packets[c][j])'
  BY DEF Packets
<1>2. j \in DOMAIN packets[c]
  BY PacketsTurned DEF IbcInv, Types
<1>3. PICK p : p = packets'[c][j]
  OBVIOUS
<1>4. p \in PacketType /\ PacketOK(c, p)
  <2>1. CASE c = s /\ j = i
    <3>1. p = q
      BY <1>3, <2>1, PacketsTurned DEF IbcInv, Types
    <3> QED BY <2>1, <3>1
  <2>2. CASE c # s \/ j # i
    <3>1. p = packets[c][j]
      BY <1>2, <1>3, <2>2, PacketsTurned DEF IbcInv, Types
    <3> QED BY <1>2, <3>1, PacketInDomain
  <2> QED BY <2>1, <2>2
<1>5. height' \in [Chains -> Nat] /\ \A d \in Chains : height'[d] >= height[d]
  BY DEF IbcInv, Types
<1>6. PacketOK(c, p)'
  BY <1>4, <1>5, PacketStays
<1> QED BY <1>3, <1>6 DEF PacketOK

\* Clients stay right while nothing of theirs changes.
LEMMA HeightKept ==
  ASSUME IbcInv, UNCHANGED <<height, consensus>>
  PROVE  /\ height' \in [Chains -> Nat] /\ consensus' \in [Chains -> SUBSET Nat]
         /\ Clients'
<1>1. height' \in [Chains -> Nat] /\ \A d \in Chains : height'[d] >= height[d]
  BY DEF IbcInv, Types
<1> QED BY <1>1, ClientsStay DEF IbcInv, Types

\* A withdrawal keeps the invariant of the two chains.
LEMMA IbcWithdraw ==
  ASSUME IbcInv, NEW c \in Chains, NEW w \in Withdrawals, Ibc!Withdraw(c, w)
  PROVE  IbcInv'
<1>1. w.source = c /\ Ibc!TakeTokens(c, w) /\ UNCHANGED <<height, consensus>>
  BY DEF Ibc!Withdraw
<1>2. PICK q : q = Ibc!Packet(c, w)
  OBVIOUS
<1>3. packets' = [packets EXCEPT ![c] = Append(@, q)]
  BY <1>2 DEF Ibc!Withdraw
<1>4. q \in PacketType /\ PacketOK(c, q)
  BY <1>1, <1>2, NewPacket DEF PacketOK, IbcInv
<1>5. packets \in [Chains -> Seq(PacketType)]
  BY DEF IbcInv, Types
<1>6. Packets'
  <2>1. SUFFICES ASSUME NEW d \in Chains, NEW j \in DOMAIN packets'[d]
                 PROVE  PacketOK(d, packets[d][j])'
    BY DEF Packets
  <2>2. PICK p : p = packets'[d][j]
    OBVIOUS
  <2>3. p \in PacketType /\ PacketOK(d, p)
    <3>1. CASE d = c /\ j = Len(packets[c]) + 1
      BY <1>3, <1>4, <1>5, <2>2, <3>1, PacketsAppended
    <3>2. CASE ~(d = c /\ j = Len(packets[c]) + 1)
      <4>1. j \in DOMAIN packets[d] /\ p = packets[d][j]
        BY <1>3, <1>4, <1>5, <2>2, <3>2, PacketsAppended
      <4> QED BY <4>1, PacketInDomain
    <3> QED BY <3>1, <3>2
  <2>4. height' \in [Chains -> Nat] /\ \A e \in Chains : height'[e] >= height[e]
    BY <1>1 DEF IbcInv, Types
  <2>5. PacketOK(d, p)'
    BY <2>3, <2>4, PacketStays
  <2> QED BY <2>2, <2>5 DEF PacketOK
<1>7. packets' \in [Chains -> Seq(PacketType)]
  BY <1>3, <1>4, <1>5, PacketsAppended
<1>8. balance' \in [Chains -> [Chains -> Nat]] /\ funds' \in [Chains -> [Chains -> Nat]]
  BY <1>1, TakeTypes DEF IbcInv
<1> QED BY <1>1, <1>6, <1>7, <1>8, HeightKept DEF IbcInv, Types

\* Receiving a packet keeps it.
LEMMA IbcReceives ==
  ASSUME IbcInv, NEW c \in Chains, NEW i \in DOMAIN packets[Other(c)], NEW s \in BOOLEAN,
         Receives(c, i, packets[Other(c)][i], s)
  PROVE  IbcInv'
<1>1. PICK p, q, o : p = packets[Other(c)][i] /\ q = Received(p, height[c], s) /\ o = Other(c)
  OBVIOUS
<1>2. /\ o \in Chains /\ Other(o) = c /\ i \in DOMAIN packets[o]
      /\ p \in PacketType /\ PacketOK(o, p) /\ height[c] \in Nat /\ height[c] > 0
  BY <1>1, OtherChain, OtherTwice, PacketInDomain DEF IbcInv, Types, Clients
<1>3. /\ q \in PacketType /\ q.order = p.order /\ q.cleared = p.cleared
      /\ q.refunded = p.refunded /\ q.timely = p.timely /\ q.received = height[c] /\ q.success = s
  BY <1>1, <1>2, ReceivedPacket
<1>4. p.received = 0 /\ height[c] <= p.order.timeoutHeight /\ 2 * height[c] < p.order.timeoutTime
  BY <1>1 DEF Receives
<1>5. ~Passed(p.order, height[c])
  BY <1>2, <1>4, PacketFields, WithdrawalType DEF Passed
<1>6. ~p.refunded
  BY <1>2, <1>4, <1>5 DEF PacketOK
<1>7. p.cleared = 0
  <2>1. ~p.success
    BY <1>2, <1>4 DEF PacketOK
  <2> QED BY <1>2, <1>6, <2>1 DEF PacketOK
<1>8. PacketOK(o, q)
  BY <1>2, <1>3, <1>4, <1>6, <1>7 DEF PacketOK
<1>9. Turned(o, i, q) /\ UNCHANGED <<height, consensus>>
  BY <1>1 DEF Receives
<1>10. balance' \in [Chains -> [Chains -> Nat]] /\ funds' \in [Chains -> [Chains -> Nat]]
  <2>1. CASE s
    BY <1>1, <1>2, <2>1, GiveTypes, PacketFields DEF Receives, IbcInv
  <2>2. CASE ~s
    BY <1>1, <2>2 DEF Receives, IbcInv, Types
  <2> QED BY <2>1, <2>2
<1>11. packets' \in [Chains -> Seq(PacketType)]
  BY <1>2, <1>3, <1>9, PacketsTurned DEF IbcInv, Types
<1>12. Packets'
  BY <1>2, <1>3, <1>8, <1>9, PacketsKept
<1> QED BY <1>9, <1>10, <1>11, <1>12, HeightKept DEF IbcInv, Types

\* Taking an acknowledgement keeps it.
LEMMA IbcAcknowledges ==
  ASSUME IbcInv, NEW c \in Chains, NEW i \in DOMAIN packets[c], Acknowledges(c, i, packets[c][i])
  PROVE  IbcInv'
<1>1. PICK p, r, q : p = packets[c][i] /\ r = (~p.success) /\ q = Acknowledged(p, height[c], r)
  OBVIOUS
<1>2. /\ p \in PacketType /\ PacketOK(c, p) /\ height[c] \in Nat /\ height[c] > 0
  BY <1>1, PacketInDomain DEF IbcInv, Types, Clients
<1>3. r \in BOOLEAN /\ (r <=> ~p.success)
  BY <1>1, Zenon
<1>4. p.cleared = 0 /\ p.received # 0
  BY <1>1 DEF Acknowledges
<1>5. q \in PacketType /\ PacketOK(c, q)
  <2>1. /\ q \in PacketType /\ q.order = p.order /\ q.cleared = height[c]
        /\ q.refunded = r /\ q.timely = p.timely /\ q.received = p.received
        /\ q.success = p.success
    BY <1>1, <1>2, <1>3, AcknowledgedPacket, ZenonT(60)
  <2>2. q.cleared # 0 /\ (q.refunded <=> ~q.success) /\ q.received # 0
    BY <1>2, <1>3, <1>4, <2>1
  <2> QED BY <1>2, <2>1, <2>2, Zenon DEF PacketOK
<1>6. Turned(c, i, q) /\ UNCHANGED <<height, consensus>>
  BY <1>1 DEF Acknowledges
<1>7. balance' \in [Chains -> [Chains -> Nat]] /\ funds' \in [Chains -> [Chains -> Nat]]
  <2>1. CASE ~p.success
    BY <1>1, <1>2, <2>1, GiveTypes, PacketFields DEF Acknowledges, IbcInv
  <2>2. CASE p.success
    BY <1>1, <2>2 DEF Acknowledges, IbcInv, Types
  <2> QED BY <2>1, <2>2
<1>8. packets' \in [Chains -> Seq(PacketType)]
  BY <1>5, <1>6, PacketsTurned DEF IbcInv, Types
<1>9. Packets'
  BY <1>5, <1>6, PacketsKept
<1> QED BY <1>6, <1>7, <1>8, <1>9, HeightKept DEF IbcInv, Types

\* Taking a timeout keeps it.
LEMMA IbcTimesOut ==
  ASSUME IbcInv, NEW c \in Chains, NEW i \in DOMAIN packets[c], NEW t \in BOOLEAN,
         TimesOut(c, i, packets[c][i], t)
  PROVE  IbcInv'
<1>1. PICK p, q : p = packets[c][i] /\ q = TimedOutPacket(p, height[c], t)
  OBVIOUS
<1>2. /\ p \in PacketType /\ PacketOK(c, p) /\ height[c] \in Nat /\ height[c] > 0
  BY <1>1, PacketInDomain DEF IbcInv, Types, Clients
<1>3. /\ q \in PacketType /\ q.order = p.order /\ q.cleared = height[c] /\ q.refunded
      /\ q.timely = t /\ q.received = p.received /\ q.success = p.success
  BY <1>1, <1>2, TimedOutFields
<1>4. Passed(p.order, height[Other(c)]) /\ (p.received # 0 => ~t)
  BY <1>1 DEF TimesOut
<1>5. PacketOK(c, q)
  BY <1>2, <1>3, <1>4 DEF PacketOK
<1>6. Turned(c, i, q) /\ UNCHANGED <<height, consensus>>
  BY <1>1 DEF TimesOut
<1>7. balance' \in [Chains -> [Chains -> Nat]] /\ funds' \in [Chains -> [Chains -> Nat]]
  BY <1>1, <1>2, GiveTypes, PacketFields DEF TimesOut, IbcInv
<1>8. packets' \in [Chains -> Seq(PacketType)]
  BY <1>3, <1>6, PacketsTurned DEF IbcInv, Types
<1>9. Packets'
  BY <1>3, <1>5, <1>6, PacketsKept
<1> QED BY <1>6, <1>7, <1>8, <1>9, HeightKept DEF IbcInv, Types

\* A step that leaves the packets and the tokens alone and lets heights grow.
LEMMA IbcQuiet ==
  ASSUME IbcInv, UNCHANGED <<balance, funds, packets>>, height' \in [Chains -> Nat],
         \A c \in Chains : height'[c] >= height[c], consensus' \in [Chains -> SUBSET Nat], Clients'
  PROVE  IbcInv'
<1>1. Packets'
  <2>1. SUFFICES ASSUME NEW c \in Chains, NEW j \in DOMAIN packets'[c]
                 PROVE  PacketOK(c, packets[c][j])'
    BY DEF Packets
  <2>2. PICK p : p = packets[c][j]
    OBVIOUS
  <2>3. PacketOK(c, p)'
    BY <2>2, PacketInDomain, PacketStays
  <2> QED BY <2>2, <2>3 DEF PacketOK
<1> QED BY <1>1 DEF IbcInv, Types

\* The end of a block keeps it.
LEMMA IbcEndBlock ==
  ASSUME IbcInv, NEW c \in Chains, Ibc!EndBlock(c)
  PROVE  IbcInv'
<1>1. height' = [height EXCEPT ![c] = @ + 1] /\ UNCHANGED <<consensus, balance, funds, packets>>
  BY DEF Ibc!EndBlock
<1>2. height' \in [Chains -> Nat] /\ \A d \in Chains : height'[d] >= height[d]
  BY <1>1 DEF IbcInv, Types
<1>3. Clients' /\ consensus' \in [Chains -> SUBSET Nat]
  BY <1>1, <1>2, ClientsStay DEF IbcInv, Types
<1> QED BY <1>1, <1>2, <1>3, IbcQuiet

\* A client update keeps it.
LEMMA IbcUpdateClient ==
  ASSUME IbcInv, NEW c \in Chains, NEW h \in Nat, Ibc!UpdateClient(c, h)
  PROVE  IbcInv'
<1>1. /\ h < height[Other(c)] /\ consensus' = [consensus EXCEPT ![c] = consensus[c] \cup {h}]
      /\ UNCHANGED <<height, balance, funds, packets>>
  BY DEF Ibc!UpdateClient, Ibc!VerifiedHeights, Other
<1>2. height' \in [Chains -> Nat] /\ \A d \in Chains : height'[d] >= height[d]
  BY <1>1 DEF IbcInv, Types
<1>3. consensus' \in [Chains -> SUBSET Nat]
  BY <1>1 DEF IbcInv, Types
<1>4. ASSUME NEW d \in Chains
      PROVE  /\ consensus'[d] # {} /\ height'[d] > 0
             /\ \A k \in consensus'[d] : k < height'[Other(d)]
  BY <1>1 DEF IbcInv, Types, Clients
<1>5. Clients'
  BY <1>4 DEF Clients, Other, Ibc!Other
<1> QED BY <1>1, <1>2, <1>3, <1>5, IbcQuiet

\* Every step keeps it.
LEMMA IbcStep ==
  ASSUME IbcInv, [Next]_vars
  PROVE  IbcInv'
<1>1. CASE UNCHANGED ibcVars
  <2>1. UNCHANGED <<height, consensus, balance, funds, packets>>
    BY <1>1 DEF ibcVars
  <2>2. height' \in [Chains -> Nat] /\ \A d \in Chains : height'[d] >= height[d]
    BY <2>1 DEF IbcInv, Types
  <2> QED BY <2>1, <2>2, HeightKept, IbcQuiet
<1> QED BY <1>1, Steps, IbcWithdraw, IbcReceives, IbcAcknowledges, IbcTimesOut, IbcEndBlock,
           IbcUpdateClient, Zenon

\* The inductive invariant of the two chains: a packet is received at most once
\* and before its timeout, and refunded only on an error acknowledgement or once
\* its destination is past the timeout (recv_packet, acknowledgement, timeout).
THEOREM IbcInvariant == Spec => []IbcInv
BY IbcInit, IbcStep, PTL DEF Spec

-----------------------------------------------------------------------------
(* The refinement: each packet is a transfer of TransferLedger              *)

\* A packet on its way.
LEMMA StagePending ==
  ASSUME NEW p, ~p.refunded, ~p.success, p.received = 0
  PROVE  Stage(p) = "pending"
BY DEF Stage

\* A packet received with an error.
LEMMA StageRejected ==
  ASSUME NEW p, ~p.refunded, ~p.success, p.received # 0
  PROVE  Stage(p) = "rejected"
BY DEF Stage

\* A packet received, of which the sender does not know.
LEMMA StageDelivered ==
  ASSUME NEW p, ~p.refunded, p.success, p.received # 0, p.cleared = 0
  PROVE  Stage(p) = "delivered"
BY DEF Stage

\* A packet received and acknowledged.
LEMMA StageSettled ==
  ASSUME NEW p, ~p.refunded, p.success, p.received # 0, p.cleared # 0
  PROVE  Stage(p) = "settled"
BY DEF Stage

\* A packet refunded, after an error or a timeout.
LEMMA StageRefunded ==
  ASSUME NEW p, p.refunded, ~p.success
  PROVE  Stage(p) = "refunded"
BY DEF Stage

\* A packet received and refunded as well.
LEMMA StageDisputed ==
  ASSUME NEW p, p.refunded, p.success
  PROVE  Stage(p) = "disputed"
BY DEF Stage

\* The transfers the packets stand for.
Entry(p) == [order |-> p.order, stage |-> Stage(p)]

Transfers(ps) == [c \in Chains |-> [i \in DOMAIN ps[c] |-> Entry(ps[c][i])]]

\* A packet that becomes another moves one entry of the ledger.
LEMMA EntryTurns ==
  ASSUME IbcInv, NEW s \in Chains, NEW i \in DOMAIN packets[s], NEW q \in PacketType, Turned(s, i, q),
         q.order = packets[s][i].order
  PROVE  /\ Transfers(packets') = [Transfers(packets) EXCEPT ![s][i].stage = Stage(q)]
         /\ i \in DOMAIN Transfers(packets)[s]
         /\ Transfers(packets)[s][i].stage = Stage(packets[s][i])
         /\ Transfers(packets)[s][i].order = q.order
<1>1. PICK T, U : T = Transfers(packets) /\ U = Transfers(packets')
  OBVIOUS
<1>2. /\ \A c \in Chains : DOMAIN packets'[c] = DOMAIN packets[c]
      /\ packets'[s][i] = q
      /\ \A c \in Chains : \A j \in DOMAIN packets[c] :
              c # s \/ j # i => packets'[c][j] = packets[c][j]
  BY PacketsTurned DEF IbcInv, Types
<1>3. /\ T = [c \in Chains |-> T[c]] /\ U = [c \in Chains |-> U[c]]
      /\ \A c \in Chains : T[c] = [j \in DOMAIN packets[c] |-> Entry(packets[c][j])]
      /\ \A c \in Chains : U[c] = [j \in DOMAIN packets'[c] |-> Entry(packets'[c][j])]
  BY <1>1, Zenon DEF Transfers
<1>4. \A c \in Chains : c # s => U[c] = T[c]
  BY <1>2, <1>3
<1>5. T[s][i] = Entry(packets[s][i]) /\ U[s][i] = Entry(q)
  BY <1>2, <1>3
<1>6. U[s][i] = [T[s][i] EXCEPT !.stage = Stage(q)]
  BY <1>5 DEF Entry
<1>7. U[s] = [T[s] EXCEPT ![i] = [T[s][i] EXCEPT !.stage = Stage(q)]]
  BY <1>2, <1>3, <1>5, <1>6
<1>8. U = [T EXCEPT ![s][i].stage = Stage(q)]
  BY <1>3, <1>4, <1>7
<1>9. i \in DOMAIN T[s] /\ T[s][i].stage = Stage(packets[s][i]) /\ T[s][i].order = q.order
  BY <1>3, <1>5 DEF Entry
<1> QED BY <1>1, <1>8, <1>9

\* A new packet is a new entry of the ledger.
LEMMA EntryAppended ==
  ASSUME IbcInv, NEW c \in Chains, NEW q \in PacketType,
         packets' = [packets EXCEPT ![c] = Append(@, q)]
  PROVE  Transfers(packets') = [Transfers(packets) EXCEPT ![c] = Append(@, Entry(q))]
<1>1. PICK T, U : T = Transfers(packets) /\ U = Transfers(packets')
  OBVIOUS
<1>2. /\ \A d \in Chains : d # c => packets'[d] = packets[d]
      /\ DOMAIN packets'[c] = DOMAIN packets[c] \cup {Len(packets[c]) + 1}
      /\ packets'[c][Len(packets[c]) + 1] = q
      /\ \A j \in DOMAIN packets[c] : packets'[c][j] = packets[c][j]
  BY PacketsAppended DEF IbcInv, Types
<1>3. /\ T = [d \in Chains |-> T[d]] /\ U = [d \in Chains |-> U[d]]
      /\ \A d \in Chains : T[d] = [j \in DOMAIN packets[d] |-> Entry(packets[d][j])]
      /\ \A d \in Chains : U[d] = [j \in DOMAIN packets'[d] |-> Entry(packets'[d][j])]
  BY <1>1 DEF Transfers
<1>4. \A d \in Chains : d # c => U[d] = T[d]
  BY <1>2, <1>3
<1>5. PICK n : n = Len(packets[c])
  OBVIOUS
<1>6. n \in Nat /\ DOMAIN packets[c] = 1..n /\ DOMAIN packets'[c] = 1..(n + 1)
  <2>1. packets[c] \in Seq(PacketType)
    BY DEF IbcInv, Types
  <2>2. n \in Nat /\ DOMAIN packets[c] = 1..n
    BY <1>5, <2>1
  <2> QED BY <1>2, <1>5, <2>2
<1>7. T[c] \in Seq({Entry(packets[c][j]) : j \in 1..n}) /\ Len(T[c]) = n
  <2>1. PICK S : S = {Entry(packets[c][j]) : j \in 1..n}
    OBVIOUS
  <2>2. T[c] \in [1..n -> S]
    BY <1>3, <1>6, <2>1
  <2>3. T[c] \in Seq(S)
    BY <1>6, <2>2
  <2> QED BY <1>6, <2>1, <2>2, <2>3
<1>8. DOMAIN Append(T[c], Entry(q)) = 1..(n + 1)
      /\ Append(T[c], Entry(q))[n + 1] = Entry(q)
      /\ \A j \in 1..n : Append(T[c], Entry(q))[j] = T[c][j]
  BY <1>6, <1>7, AppendProperties
<1>9. U[c] = Append(T[c], Entry(q))
  <2>1. Append(T[c], Entry(q)) = [j \in 1..(n + 1) |-> Append(T[c], Entry(q))[j]]
    BY <1>7, <1>6
  <2>2. \A j \in 1..(n + 1) : Append(T[c], Entry(q))[j] = U[c][j]
    BY <1>2, <1>3, <1>5, <1>6, <1>8
  <2> QED BY <1>3, <1>6, <2>1, <2>2
<1>10. U = [T EXCEPT ![c] = Append(@, Entry(q))]
  BY <1>3, <1>4, <1>9
<1> QED BY <1>1, <1>10

\* What the handlers change of what users hold.
LEMMA GiveCredits ==
  ASSUME NEW c, NEW w, Ibc!GiveTokens(c, w)
  PROVE  funds' = [funds EXCEPT ![c][w.origin] = @ + w.amount]
BY DEF Ibc!GiveTokens

\* The variables of the ledger, as the refinement maps them.
LEMMA LedgerTransfers ==
  Ledger!ledgerVars = <<funds, Transfers(packets)>>
BY Zenon DEF Ledger!ledgerVars, Transfers, Entry

\* A step of the ledger, in terms of the packets.
LedgerMove(c, i, from, to) ==
    /\ c \in Chains /\ i \in DOMAIN Transfers(packets)[c]
    /\ Transfers(packets)[c][i].stage = from
    /\ Transfers(packets') = [Transfers(packets) EXCEPT ![c][i].stage = to]

\* A withdrawal is a Send of the ledger.
LEMMA LedgerSend ==
  ASSUME IbcInv, NEW c \in Chains, NEW w \in Withdrawals, Ibc!Withdraw(c, w)
  PROVE  Ledger!Next
<1>1. PICK q : q = Ibc!Packet(c, w)
  OBVIOUS
<1>2. /\ q \in PacketType /\ q.order = w /\ q.received = 0 /\ ~q.success /\ ~q.refunded
  BY <1>1, NewPacket DEF IbcInv
<1>3. Entry(q) = [order |-> w, stage |-> "pending"]
  BY <1>2, StagePending DEF Entry
<1>4. packets' = [packets EXCEPT ![c] = Append(@, q)]
  BY <1>1 DEF Ibc!Withdraw
<1>5. Transfers(packets') =
        [Transfers(packets) EXCEPT ![c] = Append(@, [order |-> w, stage |-> "pending"])]
  BY <1>2, <1>3, <1>4, EntryAppended
<1>6. /\ w.source = c /\ w.amount <= funds[c][w.origin]
      /\ funds' = [funds EXCEPT ![c][w.origin] = @ - w.amount]
  BY DEF Ibc!Withdraw, Ibc!TakeTokens
<1>7. Ledger!Send(c, w)
  BY <1>5, <1>6, Zenon DEF Ledger!Send, Transfers, Entry
<1> QED BY <1>7, Zenon DEF Ledger!Next

\* A move in terms of the packets is a move of the ledger.
LEMMA LedgerMoves ==
  ASSUME NEW c \in Chains, NEW i, NEW from, NEW to, LedgerMove(c, i, from, to)
  PROVE  Ledger!Move(c, i, from, to) /\ i \in DOMAIN Transfers(packets)[c]
BY Zenon DEF Ledger!Move, LedgerMove, Transfers, Entry

\* Delivering pays the receiver.
LEMMA LedgerDeliver ==
  ASSUME NEW c \in Chains, NEW d \in Chains \ {c}, NEW i, LedgerMove(c, i, "pending", "delivered"),
         funds' = [funds EXCEPT ![d][Transfers(packets)[c][i].order.origin] =
                     @ + Transfers(packets)[c][i].order.amount]
  PROVE  Ledger!Next
<1>1. Ledger!Move(c, i, "pending", "delivered") /\ i \in DOMAIN Transfers(packets)[c]
  BY LedgerMoves
<1>2. Ledger!Deliver(c, i)
  BY <1>1, Zenon DEF Ledger!Deliver, Ledger!Credit, Transfers, Entry
<1> QED BY <1>1, <1>2, Zenon DEF Ledger!Next, Transfers, Entry

\* Rejecting and settling pay nobody.
LEMMA LedgerQuiet ==
  ASSUME NEW c \in Chains, NEW i, UNCHANGED funds,
         LedgerMove(c, i, "pending", "rejected") \/ LedgerMove(c, i, "delivered", "settled")
  PROVE  Ledger!Next
<1>1. Ledger!Reject(c, i) \/ Ledger!Settle(c, i)
  BY LedgerMoves, Zenon DEF Ledger!Reject, Ledger!Settle
<1>2. i \in DOMAIN Transfers(packets)[c]
  BY Zenon DEF LedgerMove
<1> QED BY <1>1, <1>2, Zenon DEF Ledger!Next, Transfers, Entry

\* Refunding, also in a dispute, pays the sender.
LEMMA LedgerReturn ==
  ASSUME NEW c \in Chains, NEW i,
         \/ LedgerMove(c, i, "pending", "refunded") \/ LedgerMove(c, i, "rejected", "refunded")
         \/ LedgerMove(c, i, "delivered", "disputed"),
         funds' = [funds EXCEPT ![c][Transfers(packets)[c][i].order.origin] =
                     @ + Transfers(packets)[c][i].order.amount]
  PROVE  Ledger!Next
<1>1. Ledger!Credit(c, Transfers(packets)[c][i].order)
  BY Zenon DEF Ledger!Credit
<1>2. Ledger!Refund(c, i) \/ Ledger!Dispute(c, i)
  BY <1>1, LedgerMoves, Zenon DEF Ledger!Refund, Ledger!Dispute, Transfers, Entry
<1>3. i \in DOMAIN Transfers(packets)[c]
  BY Zenon DEF LedgerMove
<1> QED BY <1>2, <1>3, Zenon DEF Ledger!Next, Transfers, Entry

\* Receiving a packet delivers or rejects its transfer.
LEMMA LedgerReceives ==
  ASSUME IbcInv, NEW c \in Chains, NEW i \in DOMAIN packets[Other(c)], NEW s \in BOOLEAN,
         Receives(c, i, packets[Other(c)][i], s)
  PROVE  Ledger!Next
<1>1. PICK p, q, o : p = packets[Other(c)][i] /\ q = Received(p, height[c], s) /\ o = Other(c)
  OBVIOUS
<1>2. /\ o \in Chains /\ c \in Chains \ {o} /\ Other(o) = c /\ i \in DOMAIN packets[o]
      /\ p \in PacketType /\ PacketOK(o, p) /\ height[c] \in Nat /\ height[c] > 0
  BY <1>1, OtherChain, OtherTwice, PacketInDomain DEF IbcInv, Types, Clients
<1>3. /\ q \in PacketType /\ q.order = p.order /\ q.cleared = p.cleared
      /\ q.refunded = p.refunded /\ q.received = height[c] /\ q.success = s
  BY <1>1, <1>2, ReceivedPacket
<1>4. p.received = 0 /\ height[c] <= p.order.timeoutHeight /\ 2 * height[c] < p.order.timeoutTime
      /\ Turned(o, i, q)
  BY <1>1 DEF Receives
<1>5. ~Passed(p.order, height[c])
  BY <1>2, <1>4, PacketFields, WithdrawalType DEF Passed
<1>6. ~p.refunded /\ ~p.success
  BY <1>2, <1>4, <1>5 DEF PacketOK
<1>7. p.cleared = 0 /\ ~q.refunded /\ q.received # 0
  BY <1>2, <1>3, <1>6 DEF PacketOK
<1>8. Stage(p) = "pending"
  BY <1>4, <1>6, StagePending
<1>9. /\ Transfers(packets') = [Transfers(packets) EXCEPT ![o][i].stage = Stage(q)]
      /\ i \in DOMAIN Transfers(packets)[o]
      /\ Transfers(packets)[o][i].stage = Stage(p)
      /\ Transfers(packets)[o][i].order = p.order
  BY <1>1, <1>2, <1>3, <1>4, EntryTurns
<1>10. CASE s
  <2>1. Stage(q) = "delivered"
    BY <1>3, <1>7, <1>10, StageDelivered
  <2>2. LedgerMove(o, i, "pending", "delivered")
    BY <1>2, <1>8, <1>9, <2>1 DEF LedgerMove
  <2>3. funds' = [funds EXCEPT ![c][p.order.origin] = @ + p.order.amount]
    BY <1>1, <1>10, GiveCredits DEF Receives
  <2> QED BY <1>2, <1>9, <2>2, <2>3, LedgerDeliver
<1>11. CASE ~s
  <2>1. Stage(q) = "rejected"
    BY <1>3, <1>7, <1>11, StageRejected
  <2>2. LedgerMove(o, i, "pending", "rejected")
    BY <1>2, <1>8, <1>9, <2>1 DEF LedgerMove
  <2>3. UNCHANGED funds
    BY <1>1, <1>11 DEF Receives
  <2> QED BY <1>2, <2>2, <2>3, LedgerQuiet
<1> QED BY <1>10, <1>11

\* An acknowledgement settles a transfer, or refunds it after an error.
LEMMA LedgerAcknowledges ==
  ASSUME IbcInv, NEW c \in Chains, NEW i \in DOMAIN packets[c], Acknowledges(c, i, packets[c][i])
  PROVE  Ledger!Next
<1>1. PICK p, r, q : p = packets[c][i] /\ r = (~p.success) /\ q = Acknowledged(p, height[c], r)
  OBVIOUS
<1>2. /\ p \in PacketType /\ PacketOK(c, p) /\ height[c] \in Nat /\ height[c] > 0
  BY <1>1, PacketInDomain DEF IbcInv, Types, Clients
<1>3. r \in BOOLEAN /\ (r <=> ~p.success)
  BY <1>1, Zenon
<1>4. p.cleared = 0 /\ p.received # 0 /\ Turned(c, i, q)
  BY <1>1 DEF Acknowledges
<1>5. /\ q \in PacketType /\ q.order = p.order /\ q.cleared = height[c]
      /\ q.refunded = r /\ q.received = p.received /\ q.success = p.success
  BY <1>1, <1>2, <1>3, AcknowledgedPacket, ZenonT(60)
<1>6. ~p.refunded /\ q.cleared # 0
  BY <1>2, <1>4, <1>5 DEF PacketOK
<1>7. /\ Transfers(packets') = [Transfers(packets) EXCEPT ![c][i].stage = Stage(q)]
      /\ i \in DOMAIN Transfers(packets)[c]
      /\ Transfers(packets)[c][i].stage = Stage(p)
      /\ Transfers(packets)[c][i].order = p.order
  BY <1>1, <1>4, <1>5, EntryTurns
<1>8. CASE p.success
  <2>1. Stage(p) = "delivered"
    BY <1>4, <1>6, <1>8, StageDelivered
  <2>2. ~q.refunded /\ q.success /\ q.received # 0
    BY <1>3, <1>4, <1>5, <1>8
  <2>3. Stage(q) = "settled"
    BY <1>6, <2>2, StageSettled
  <2>4. LedgerMove(c, i, "delivered", "settled")
    BY <1>7, <2>1, <2>3 DEF LedgerMove
  <2>5. UNCHANGED funds
    BY <1>1, <1>8 DEF Acknowledges
  <2> QED BY <2>4, <2>5, LedgerQuiet
<1>9. CASE ~p.success
  <2>1. Stage(p) = "rejected"
    BY <1>4, <1>6, <1>9, StageRejected
  <2>2. q.refunded /\ ~q.success
    BY <1>3, <1>5, <1>9
  <2>3. Stage(q) = "refunded"
    BY <2>2, StageRefunded
  <2>4. LedgerMove(c, i, "rejected", "refunded")
    BY <1>7, <2>1, <2>3 DEF LedgerMove
  <2>5. funds' = [funds EXCEPT ![c][p.order.origin] = @ + p.order.amount]
    BY <1>1, <1>9, GiveCredits DEF Acknowledges
  <2> QED BY <1>7, <2>4, <2>5, LedgerReturn
<1> QED BY <1>8, <1>9

\* A timeout refunds a transfer, or disputes one that was delivered.
LEMMA LedgerTimesOut ==
  ASSUME IbcInv, NEW c \in Chains, NEW i \in DOMAIN packets[c], NEW t \in BOOLEAN,
         TimesOut(c, i, packets[c][i], t)
  PROVE  Ledger!Next
<1>1. PICK p, q : p = packets[c][i] /\ q = TimedOutPacket(p, height[c], t)
  OBVIOUS
<1>2. /\ p \in PacketType /\ PacketOK(c, p) /\ height[c] \in Nat /\ height[c] > 0
  BY <1>1, PacketInDomain DEF IbcInv, Types, Clients
<1>3. p.cleared = 0 /\ Turned(c, i, q)
  BY <1>1 DEF TimesOut
<1>4. /\ q \in PacketType /\ q.order = p.order /\ q.cleared = height[c] /\ q.refunded
      /\ q.received = p.received /\ q.success = p.success
  BY <1>1, <1>2, TimedOutFields
<1>5. ~p.refunded
  BY <1>2, <1>3 DEF PacketOK
<1>6. /\ Transfers(packets') = [Transfers(packets) EXCEPT ![c][i].stage = Stage(q)]
      /\ i \in DOMAIN Transfers(packets)[c]
      /\ Transfers(packets)[c][i].stage = Stage(p)
      /\ Transfers(packets)[c][i].order = p.order
  BY <1>1, <1>3, <1>4, EntryTurns
<1>7. funds' = [funds EXCEPT ![c][p.order.origin] = @ + p.order.amount]
  BY <1>1, GiveCredits DEF TimesOut
<1>8. CASE p.success
  <2>1. Stage(p) = "delivered" /\ Stage(q) = "disputed"
    BY <1>2, <1>3, <1>4, <1>5, <1>8, StageDelivered, StageDisputed DEF PacketOK
  <2>2. LedgerMove(c, i, "delivered", "disputed")
    BY <1>6, <2>1 DEF LedgerMove
  <2> QED BY <1>6, <1>7, <2>2, LedgerReturn
<1>9. CASE ~p.success
  <2>1. Stage(q) = "refunded" /\ (Stage(p) = "pending" \/ Stage(p) = "rejected")
    BY <1>4, <1>5, <1>9, StageRefunded, StagePending, StageRejected
  <2>2. LedgerMove(c, i, "pending", "refunded") \/ LedgerMove(c, i, "rejected", "refunded")
    BY <1>6, <2>1 DEF LedgerMove
  <2> QED BY <1>6, <1>7, <2>2, LedgerReturn
<1> QED BY <1>8, <1>9

\* The initial state is one of the ledger.
LEMMA LedgerInit ==
  ASSUME Init
  PROVE  Ledger!Init
<1>1. funds = GenesisFunds /\ packets = [c \in Chains |-> <<>>]
  BY DEF Init, Ibc!Init
<1>2. Transfers(packets) = [c \in Chains |-> <<>>]
  <2>1. \A c \in Chains : [i \in DOMAIN packets[c] |-> Entry(packets[c][i])] = <<>>
    BY <1>1
  <2> QED BY <2>1 DEF Transfers
<1>3. [c \in Chains |-> [i \in DOMAIN packets[c] |->
         [order |-> packets[c][i].order, stage |-> Stage(packets[c][i])]]] = [c \in Chains |-> <<>>]
  BY <1>2, Zenon DEF Transfers, Entry
<1> QED BY <1>1, <1>3, FundsAssumption DEF Ledger!Init

\* Every step is one of the ledger or leaves it alone.
LEMMA LedgerStep ==
  ASSUME IbcInv, [Next]_vars
  PROVE  [Ledger!Next]_(Ledger!ledgerVars)
<1>1. CASE UNCHANGED <<funds, packets>>
  <2>1. UNCHANGED Ledger!ledgerVars
    BY <1>1 DEF Ledger!ledgerVars, Stage
  <2> QED BY <2>1
<1>2. UNCHANGED ibcVars => UNCHANGED <<funds, packets>>
  BY DEF ibcVars
<1>3. \A c \in Chains : Ibc!EndBlock(c) => UNCHANGED <<funds, packets>>
  BY DEF Ibc!EndBlock
<1>4. \A c \in Chains, h \in Nat : Ibc!UpdateClient(c, h) => UNCHANGED <<funds, packets>>
  BY DEF Ibc!UpdateClient
<1> QED BY <1>1, <1>2, <1>3, <1>4, Steps, LedgerSend, LedgerReceives, LedgerAcknowledges,
           LedgerTimesOut, Zenon

\* The two ends implement the ledger: under lost, repeated, delayed and
\* reordered messages every transfer is credited to its receiver at most once
\* and returned to its sender at most once, and what users hold changes by
\* nothing else.
THEOREM LedgerRefined == Spec => LedgerImplemented
<1>1. Init => Ledger!Init
  BY LedgerInit
<1>2. IbcInv /\ [Next]_vars => [Ledger!Next]_(Ledger!ledgerVars)
  BY LedgerStep
<1> QED BY <1>1, <1>2, IbcInvariant, PTL DEF Spec, LedgerImplemented, Ledger!Spec

-----------------------------------------------------------------------------
(* The escrow                                                               *)

\* The sum of a family of integers for each chain.
Total(f) == SumFunction([c \in Chains |-> SumFunction(f[c])])

Finite(f) ==
    \A c \in Chains : IsFiniteSet(DOMAIN f[c]) /\ \A i \in DOMAIN f[c] : f[c][i] \in Int

\* The total over both chains changes by as much as the part of one chain.
LEMMA TotalChanges ==
  ASSUME NEW f, NEW g, Finite(f), NEW s \in Chains, NEW x \in Int,
         \A c \in Chains : c # s => g[c] = f[c],
         SumFunction(g[s]) = SumFunction(f[s]) + x
  PROVE  Total(g) = Total(f) + x /\ Total(f) \in Int
<1>1. PICK F, G : F = [c \in Chains |-> SumFunction(f[c])] /\ G = [c \in Chains |-> SumFunction(g[c])]
  OBVIOUS
<1>2. DOMAIN F = Chains /\ DOMAIN G = Chains
  BY <1>1
<1>3. ASSUME NEW c \in Chains PROVE F[c] \in Int
  <2>1. IsFiniteSet(DOMAIN f[c]) /\ \A i \in DOMAIN f[c] : f[c][i] \in Int
    BY DEF Finite
  <2>2. SumFunctionOnSet(f[c], DOMAIN f[c]) \in Int
    BY <2>1, SumType
  <2> QED BY <1>1, <2>2 DEF SumFunction
<1>4. \A c \in Chains : c # s => G[c] = F[c]
  BY <1>1
<1>5. G[s] = F[s] + x /\ F[s] \in Int
  BY <1>1, <1>3
<1>6. G[s] \in Int
  BY <1>5
<1>7. IsFiniteSet(Chains)
  BY ChainsFinite
<1>8. SumFunctionOnSet(G, Chains) = SumFunctionOnSet(F, Chains) + G[s] - F[s]
  BY <1>3, <1>4, <1>6, <1>7, SumChange
<1>9. SumFunctionOnSet(F, Chains) \in Int
  BY <1>3, <1>7, SumType
<1>10. Total(f) = SumFunctionOnSet(F, Chains) /\ Total(g) = SumFunctionOnSet(G, Chains)
  BY <1>1, <1>2 DEF Total, SumFunction
<1> QED BY <1>5, <1>8, <1>9, <1>10

\* The total changes by as much as one term.
LEMMA TotalTurned ==
  ASSUME NEW f, NEW g, Finite(f), NEW s \in Chains, NEW i \in DOMAIN f[s],
         \A c \in Chains : c # s => g[c] = f[c],
         DOMAIN g[s] = DOMAIN f[s], g[s][i] \in Int,
         \A j \in DOMAIN f[s] : j # i => g[s][j] = f[s][j]
  PROVE  Total(g) = Total(f) + (g[s][i] - f[s][i]) /\ Total(f) \in Int
<1>1. PICK a, b, S : a = f[s] /\ b = g[s] /\ S = DOMAIN f[s]
  OBVIOUS
<1>2. /\ IsFiniteSet(S) /\ \A j \in S : a[j] \in Int
      /\ i \in S /\ b[i] \in Int /\ \A j \in S : j # i => b[j] = a[j]
      /\ DOMAIN a = S /\ DOMAIN b = S
  BY <1>1 DEF Finite
<1>3. SumFunctionOnSet(b, S) = SumFunctionOnSet(a, S) + b[i] - a[i] /\ SumFunctionOnSet(a, S) \in Int
  BY <1>2, SumChange, SumType
<1>4. SumFunction(b) = SumFunctionOnSet(b, S) /\ SumFunction(a) = SumFunctionOnSet(a, S)
  BY <1>2 DEF SumFunction
<1>5. b[i] - a[i] \in Int /\ SumFunction(b) = SumFunction(a) + (b[i] - a[i])
  BY <1>2, <1>3, <1>4
<1> QED BY <1>1, <1>5, TotalChanges

\* The total grows by a new term.
LEMMA TotalAppended ==
  ASSUME NEW f, NEW g, Finite(f), NEW s \in Chains, NEW n, n \notin DOMAIN f[s],
         \A c \in Chains : c # s => g[c] = f[c],
         DOMAIN g[s] = DOMAIN f[s] \cup {n}, g[s][n] \in Int,
         \A j \in DOMAIN f[s] : g[s][j] = f[s][j]
  PROVE  Total(g) = Total(f) + g[s][n] /\ Total(f) \in Int
<1>1. PICK a, b, S : a = f[s] /\ b = g[s] /\ S = DOMAIN f[s]
  OBVIOUS
<1>2. /\ IsFiniteSet(S) /\ n \notin S /\ \A j \in S : a[j] \in Int
      /\ b[n] \in Int /\ \A j \in S : a[j] = b[j]
      /\ DOMAIN a = S /\ DOMAIN b = S \cup {n}
  BY <1>1 DEF Finite
<1>3. \A j \in S \cup {n} : b[j] \in Int
  BY <1>2
<1>4. SumFunctionOnSet(b, S \cup {n}) = SumFunctionOnSet(b, S) + b[n]
  BY <1>2, <1>3, SumAdd
<1>5. SumFunctionOnSet(a, S) = SumFunctionOnSet(b, S)
  BY <1>2, SumSame
<1>6. SumFunction(b) = SumFunction(a) + b[n]
  BY <1>2, <1>4, <1>5 DEF SumFunction
<1> QED BY <1>1, <1>2, <1>6, TotalChanges

\* What packet p counts for of the tokens of o, under way and paid twice.
WayPart(p, o) == IF p.order.origin = o /\ UnderWay(p) THEN p.order.amount ELSE 0
PaidPart(p, o) == IF p.order.origin = o /\ PaidTwice(p) THEN p.order.amount ELSE 0

WayParts(ps, o) == [c \in Chains |-> [i \in DOMAIN ps[c] |-> WayPart(ps[c][i], o)]]
PaidParts(ps, o) == [c \in Chains |-> [i \in DOMAIN ps[c] |-> PaidPart(ps[c][i], o)]]

\* What is under way is a total over the packets.
LEMMA WayTotal ==
  ASSUME NEW o
  PROVE  Amounts(o, UnderWay) = Total(WayParts(packets, o))
<1>1. [c \in Chains |-> SumFunction([i \in DOMAIN packets[c] |-> WayPart(packets[c][i], o)])]
      = [c \in Chains |-> SumFunction(WayParts(packets, o)[c])]
  BY DEF WayParts
<1> QED BY <1>1, Zenon DEF Amounts, Total, WayPart

\* So is what was paid twice.
LEMMA PaidTotal ==
  ASSUME NEW o
  PROVE  Amounts(o, PaidTwice) = Total(PaidParts(packets, o))
<1>1. [c \in Chains |-> SumFunction([i \in DOMAIN packets[c] |-> PaidPart(packets[c][i], o)])]
      = [c \in Chains |-> SumFunction(PaidParts(packets, o)[c])]
  BY DEF PaidParts
<1> QED BY <1>1, Zenon DEF Amounts, Total, PaidPart

\* The same of the next state.
LEMMA WayTotalNext ==
  ASSUME NEW o
  PROVE  Amounts(o, UnderWay)' = Total(WayParts(packets', o))
<1>1. [c \in Chains |-> SumFunction([i \in DOMAIN packets'[c] |-> WayPart(packets'[c][i], o)])]
      = [c \in Chains |-> SumFunction(WayParts(packets', o)[c])]
  BY DEF WayParts
<1> QED BY <1>1, Zenon DEF Amounts, Total, WayPart, UnderWay

\* What was paid twice in the next state.
LEMMA PaidTotalNext ==
  ASSUME NEW o
  PROVE  Amounts(o, PaidTwice)' = Total(PaidParts(packets', o))
<1>1. [c \in Chains |-> SumFunction([i \in DOMAIN packets'[c] |-> PaidPart(packets'[c][i], o)])]
      = [c \in Chains |-> SumFunction(PaidParts(packets', o)[c])]
  BY DEF PaidParts
<1> QED BY <1>1, Zenon DEF Amounts, Total, PaidPart, PaidTwice

\* What a packet counts for is an integer.
LEMMA PartTypes ==
  ASSUME NEW p \in PacketType, NEW o
  PROVE  WayPart(p, o) \in Int /\ PaidPart(p, o) \in Int
BY PacketFields, WithdrawalType DEF WayPart, PaidPart

\* The totals are over finitely many packets.
LEMMA PartsFinite ==
  ASSUME packets \in [Chains -> Seq(PacketType)], NEW o
  PROVE  Finite(WayParts(packets, o)) /\ Finite(PaidParts(packets, o))
<1>1. ASSUME NEW c \in Chains
      PROVE  /\ IsFiniteSet(DOMAIN packets[c])
             /\ \A i \in DOMAIN packets[c] : packets[c][i] \in PacketType
  <2>1. packets[c] \in Seq(PacketType)
    OBVIOUS
  <2>2. DOMAIN packets[c] = 1..Len(packets[c]) /\ Len(packets[c]) \in Nat
        /\ \A i \in DOMAIN packets[c] : packets[c][i] \in PacketType
    BY <2>1
  <2> QED BY <2>2, FS_Interval
<1> QED BY <1>1, PartTypes DEF Finite, WayParts, PaidParts

\* The part of one packet in what is under way.
LEMMA WayPartsAt ==
  ASSUME NEW ps, NEW o, NEW c \in Chains
  PROVE  /\ DOMAIN WayParts(ps, o)[c] = DOMAIN ps[c]
         /\ \A j \in DOMAIN ps[c] : WayParts(ps, o)[c][j] = WayPart(ps[c][j], o)
BY DEF WayParts

\* Same packets, same part under way.
LEMMA WayPartsSame ==
  ASSUME NEW ps, NEW qs, NEW o, NEW c \in Chains, DOMAIN qs[c] = DOMAIN ps[c],
         \A j \in DOMAIN ps[c] : qs[c][j] = ps[c][j]
  PROVE  WayParts(qs, o)[c] = WayParts(ps, o)[c]
<1>1. [j \in DOMAIN qs[c] |-> WayPart(qs[c][j], o)] = [j \in DOMAIN ps[c] |-> WayPart(ps[c][j], o)]
  BY Zenon
<1> QED BY <1>1, Zenon DEF WayParts

\* The part of one packet in what was paid twice.
LEMMA PaidPartsAt ==
  ASSUME NEW ps, NEW o, NEW c \in Chains
  PROVE  /\ DOMAIN PaidParts(ps, o)[c] = DOMAIN ps[c]
         /\ \A j \in DOMAIN ps[c] : PaidParts(ps, o)[c][j] = PaidPart(ps[c][j], o)
BY DEF PaidParts

\* Same packets, same part paid twice.
LEMMA PaidPartsSame ==
  ASSUME NEW ps, NEW qs, NEW o, NEW c \in Chains, DOMAIN qs[c] = DOMAIN ps[c],
         \A j \in DOMAIN ps[c] : qs[c][j] = ps[c][j]
  PROVE  PaidParts(qs, o)[c] = PaidParts(ps, o)[c]
<1>1. [j \in DOMAIN qs[c] |-> PaidPart(qs[c][j], o)] = [j \in DOMAIN ps[c] |-> PaidPart(ps[c][j], o)]
  BY Zenon
<1> QED BY <1>1, Zenon DEF PaidParts

\* ps and qs are the same but for packet i of chain s, which is q in qs, and but
\* for a last packet n of chain c.
Differ(ps, qs, s, i, q) ==
    /\ \A c \in Chains : DOMAIN qs[c] = DOMAIN ps[c]
    /\ qs[s][i] = q
    /\ \A c \in Chains : \A j \in DOMAIN ps[c] : c # s \/ j # i => qs[c][j] = ps[c][j]

Extends(ps, qs, c, n, q) ==
    /\ \A d \in Chains : d # c => qs[d] = ps[d]
    /\ DOMAIN qs[c] = DOMAIN ps[c] \cup {n} /\ n \notin DOMAIN ps[c] /\ qs[c][n] = q
    /\ \A j \in DOMAIN ps[c] : qs[c][j] = ps[c][j]

\* Both totals when one packet becomes another.
LEMMA TotalsTurned ==
  ASSUME NEW ps, NEW qs, NEW s \in Chains, NEW i \in DOMAIN ps[s], NEW q \in PacketType, NEW o,
         Differ(ps, qs, s, i, q),
         Finite(WayParts(ps, o)), Finite(PaidParts(ps, o))
  PROVE  /\ Total(WayParts(qs, o)) = Total(WayParts(ps, o)) + (WayPart(q, o) - WayPart(ps[s][i], o))
         /\ Total(PaidParts(qs, o)) = Total(PaidParts(ps, o)) + (PaidPart(q, o) - PaidPart(ps[s][i], o))
         /\ Total(WayParts(ps, o)) \in Int /\ Total(PaidParts(ps, o)) \in Int
<1>1. WayPart(q, o) \in Int /\ PaidPart(q, o) \in Int
  BY PartTypes
<1>2. /\ Total(WayParts(qs, o)) = Total(WayParts(ps, o)) + (WayPart(q, o) - WayPart(ps[s][i], o))
      /\ Total(WayParts(ps, o)) \in Int
  <2>1. PICK f, g : f = WayParts(ps, o) /\ g = WayParts(qs, o)
    OBVIOUS
  <2>2. \A c \in Chains : c # s => g[c] = f[c]
    BY <2>1, WayPartsSame DEF Differ
  <2>3. DOMAIN f[s] = DOMAIN ps[s] /\ DOMAIN g[s] = DOMAIN qs[s]
    BY <2>1, WayPartsAt
  <2>4. /\ \A j \in DOMAIN ps[s] : f[s][j] = WayPart(ps[s][j], o)
        /\ \A j \in DOMAIN qs[s] : g[s][j] = WayPart(qs[s][j], o)
    BY <2>1, WayPartsAt
  <2>5. /\ i \in DOMAIN f[s] /\ DOMAIN g[s] = DOMAIN f[s]
        /\ g[s][i] = WayPart(q, o) /\ f[s][i] = WayPart(ps[s][i], o)
        /\ \A j \in DOMAIN f[s] : j # i => g[s][j] = f[s][j]
    BY <2>3, <2>4 DEF Differ
  <2> QED BY <1>1, <2>1, <2>2, <2>5, TotalTurned
<1>3. /\ Total(PaidParts(qs, o)) = Total(PaidParts(ps, o)) + (PaidPart(q, o) - PaidPart(ps[s][i], o))
      /\ Total(PaidParts(ps, o)) \in Int
  <2>1. PICK f, g : f = PaidParts(ps, o) /\ g = PaidParts(qs, o)
    OBVIOUS
  <2>2. \A c \in Chains : c # s => g[c] = f[c]
    BY <2>1, PaidPartsSame DEF Differ
  <2>3. DOMAIN f[s] = DOMAIN ps[s] /\ DOMAIN g[s] = DOMAIN qs[s]
    BY <2>1, PaidPartsAt
  <2>4. /\ \A j \in DOMAIN ps[s] : f[s][j] = PaidPart(ps[s][j], o)
        /\ \A j \in DOMAIN qs[s] : g[s][j] = PaidPart(qs[s][j], o)
    BY <2>1, PaidPartsAt
  <2>5. /\ i \in DOMAIN f[s] /\ DOMAIN g[s] = DOMAIN f[s]
        /\ g[s][i] = PaidPart(q, o) /\ f[s][i] = PaidPart(ps[s][i], o)
        /\ \A j \in DOMAIN f[s] : j # i => g[s][j] = f[s][j]
    BY <2>3, <2>4 DEF Differ
  <2> QED BY <1>1, <2>1, <2>2, <2>5, TotalTurned
<1> QED BY <1>2, <1>3

\* Both totals when a packet is added.
LEMMA TotalsAppended ==
  ASSUME NEW ps, NEW qs, NEW c \in Chains, NEW n, NEW q \in PacketType, NEW o,
         Extends(ps, qs, c, n, q),
         Finite(WayParts(ps, o)), Finite(PaidParts(ps, o))
  PROVE  /\ Total(WayParts(qs, o)) = Total(WayParts(ps, o)) + WayPart(q, o)
         /\ Total(PaidParts(qs, o)) = Total(PaidParts(ps, o)) + PaidPart(q, o)
         /\ Total(WayParts(ps, o)) \in Int /\ Total(PaidParts(ps, o)) \in Int
<1>1. WayPart(q, o) \in Int /\ PaidPart(q, o) \in Int
  BY PartTypes
<1>2. /\ Total(WayParts(qs, o)) = Total(WayParts(ps, o)) + WayPart(q, o)
      /\ Total(WayParts(ps, o)) \in Int
  <2>1. PICK f, g : f = WayParts(ps, o) /\ g = WayParts(qs, o)
    OBVIOUS
  <2>2. \A d \in Chains : d # c => g[d] = f[d]
    BY <2>1, WayPartsSame DEF Extends
  <2>3. DOMAIN f[c] = DOMAIN ps[c] /\ DOMAIN g[c] = DOMAIN qs[c]
    BY <2>1, WayPartsAt
  <2>4. /\ \A j \in DOMAIN ps[c] : f[c][j] = WayPart(ps[c][j], o)
        /\ \A j \in DOMAIN qs[c] : g[c][j] = WayPart(qs[c][j], o)
    BY <2>1, WayPartsAt
  <2>5. /\ n \notin DOMAIN f[c] /\ DOMAIN g[c] = DOMAIN f[c] \cup {n} /\ g[c][n] = WayPart(q, o)
        /\ \A j \in DOMAIN f[c] : g[c][j] = f[c][j]
    BY <2>3, <2>4 DEF Extends
  <2> QED BY <1>1, <2>1, <2>2, <2>5, TotalAppended
<1>3. /\ Total(PaidParts(qs, o)) = Total(PaidParts(ps, o)) + PaidPart(q, o)
      /\ Total(PaidParts(ps, o)) \in Int
  <2>1. PICK f, g : f = PaidParts(ps, o) /\ g = PaidParts(qs, o)
    OBVIOUS
  <2>2. \A d \in Chains : d # c => g[d] = f[d]
    BY <2>1, PaidPartsSame DEF Extends
  <2>3. DOMAIN f[c] = DOMAIN ps[c] /\ DOMAIN g[c] = DOMAIN qs[c]
    BY <2>1, PaidPartsAt
  <2>4. /\ \A j \in DOMAIN ps[c] : f[c][j] = PaidPart(ps[c][j], o)
        /\ \A j \in DOMAIN qs[c] : g[c][j] = PaidPart(qs[c][j], o)
    BY <2>1, PaidPartsAt
  <2>5. /\ n \notin DOMAIN f[c] /\ DOMAIN g[c] = DOMAIN f[c] \cup {n} /\ g[c][n] = PaidPart(q, o)
        /\ \A j \in DOMAIN f[c] : g[c][j] = f[c][j]
    BY <2>3, <2>4 DEF Extends
  <2> QED BY <1>1, <2>1, <2>2, <2>5, TotalAppended
<1> QED BY <1>2, <1>3

\* The same, for a step.
LEMMA TokensTurned ==
  ASSUME IbcInv, NEW s \in Chains, NEW i \in DOMAIN packets[s], NEW q \in PacketType, Turned(s, i, q),
         NEW o
  PROVE  /\ Amounts(o, UnderWay)' = Amounts(o, UnderWay) + (WayPart(q, o) - WayPart(packets[s][i], o))
         /\ Amounts(o, PaidTwice)' = Amounts(o, PaidTwice) + (PaidPart(q, o) - PaidPart(packets[s][i], o))
         /\ Amounts(o, UnderWay) \in Int /\ Amounts(o, PaidTwice) \in Int
<1>1. PICK ps, qs : ps = packets /\ qs = packets'
  OBVIOUS
<1>2. Differ(ps, qs, s, i, q)
  BY <1>1, PacketsTurned DEF IbcInv, Types, Differ
<1>3. i \in DOMAIN ps[s] /\ Finite(WayParts(ps, o)) /\ Finite(PaidParts(ps, o))
  BY <1>1, PartsFinite DEF IbcInv, Types
<1>4. /\ Total(WayParts(qs, o)) = Total(WayParts(ps, o)) + (WayPart(q, o) - WayPart(ps[s][i], o))
      /\ Total(PaidParts(qs, o)) = Total(PaidParts(ps, o)) + (PaidPart(q, o) - PaidPart(ps[s][i], o))
      /\ Total(WayParts(ps, o)) \in Int /\ Total(PaidParts(ps, o)) \in Int
  BY <1>2, <1>3, TotalsTurned
<1> QED BY <1>1, <1>4, WayTotal, PaidTotal, WayTotalNext, PaidTotalNext

\* The same, for a withdrawal.
LEMMA TokensAppended ==
  ASSUME IbcInv, NEW c \in Chains, NEW q \in PacketType,
         packets' = [packets EXCEPT ![c] = Append(@, q)], NEW o
  PROVE  /\ Amounts(o, UnderWay)' = Amounts(o, UnderWay) + WayPart(q, o)
         /\ Amounts(o, PaidTwice)' = Amounts(o, PaidTwice) + PaidPart(q, o)
         /\ Amounts(o, UnderWay) \in Int /\ Amounts(o, PaidTwice) \in Int
<1>1. PICK ps, qs, n : ps = packets /\ qs = packets' /\ n = Len(packets[c]) + 1
  OBVIOUS
<1>2. Extends(ps, qs, c, n, q)
  BY <1>1, PacketsAppended DEF IbcInv, Types, Extends
<1>3. Finite(WayParts(ps, o)) /\ Finite(PaidParts(ps, o))
  BY <1>1, PartsFinite DEF IbcInv, Types
<1>4. /\ Total(WayParts(qs, o)) = Total(WayParts(ps, o)) + WayPart(q, o)
      /\ Total(PaidParts(qs, o)) = Total(PaidParts(ps, o)) + PaidPart(q, o)
      /\ Total(WayParts(ps, o)) \in Int /\ Total(PaidParts(ps, o)) \in Int
  BY <1>2, <1>3, TotalsAppended
<1> QED BY <1>1, <1>4, WayTotal, PaidTotal, WayTotalNext, PaidTotalNext

\* The two sides of the escrow of o after tokens came to users of c.
LEMMA GiveEscrow ==
  ASSUME Types, NEW c \in Chains, NEW w \in Withdrawals, Ibc!GiveTokens(c, w), NEW o \in Chains
  PROVE  balance'[o][o] - funds'[Other(o)][o] =
           balance[o][o] - funds[Other(o)][o] - (IF w.origin = o THEN w.amount ELSE 0)
<1>1. w.origin \in Chains /\ w.amount \in Nat /\ Other(o) \in Chains /\ Other(o) # o
      /\ (c = o \/ c = Other(o))
  BY WithdrawalType, OtherChain
<1>2. balance[o][o] \in Nat /\ funds[Other(o)][o] \in Nat
  BY <1>1 DEF Types
<1>3. CASE w.origin # o
  <2>1. balance'[o][o] = balance[o][o] /\ funds'[Other(o)][o] = funds[Other(o)][o]
    BY <1>1, <1>3 DEF Ibc!GiveTokens, Types
  <2> QED BY <1>2, <1>3, <2>1
<1>4. CASE w.origin = o /\ c = o
  <2>1. balance'[o][o] = balance[o][o] - w.amount /\ funds'[Other(o)][o] = funds[Other(o)][o]
    BY <1>1, <1>4 DEF Ibc!GiveTokens, Types
  <2> QED BY <1>1, <1>2, <1>4, <2>1
<1>5. CASE w.origin = o /\ c = Other(o)
  <2>1. balance'[o][o] = balance[o][o] /\ funds'[Other(o)][o] = funds[Other(o)][o] + w.amount
    BY <1>1, <1>5 DEF Ibc!GiveTokens, Types
  <2> QED BY <1>1, <1>2, <1>5, <2>1
<1> QED BY <1>1, <1>3, <1>4, <1>5

\* What a withdrawal does to escrow and vouchers.
LEMMA TakeEscrow ==
  ASSUME Types, NEW c \in Chains, NEW w \in Withdrawals, Ibc!TakeTokens(c, w), NEW o \in Chains
  PROVE  balance'[o][o] - funds'[Other(o)][o] =
           balance[o][o] - funds[Other(o)][o] + (IF w.origin = o THEN w.amount ELSE 0)
<1>1. w.origin \in Chains /\ w.amount \in Nat /\ Other(o) \in Chains /\ Other(o) # o
      /\ (c = o \/ c = Other(o))
  BY WithdrawalType, OtherChain
<1>2. balance[o][o] \in Nat /\ funds[Other(o)][o] \in Nat
  BY <1>1 DEF Types
<1>3. CASE w.origin # o
  <2>1. balance'[o][o] = balance[o][o] /\ funds'[Other(o)][o] = funds[Other(o)][o]
    BY <1>1, <1>3 DEF Ibc!TakeTokens, Types
  <2> QED BY <1>2, <1>3, <2>1
<1>4. CASE w.origin = o /\ c = o
  <2>1. balance'[o][o] = balance[o][o] + w.amount /\ funds'[Other(o)][o] = funds[Other(o)][o]
    BY <1>1, <1>4 DEF Ibc!TakeTokens, Types
  <2> QED BY <1>1, <1>2, <1>4, <2>1
<1>5. CASE w.origin = o /\ c = Other(o)
  <2>1. balance'[o][o] = balance[o][o] /\ funds'[Other(o)][o] = funds[Other(o)][o] - w.amount
    BY <1>1, <1>5 DEF Ibc!TakeTokens, Types
  <2> QED BY <1>1, <1>2, <1>5, <2>1
<1> QED BY <1>1, <1>3, <1>4, <1>5

\* At the start the escrow covers what the other chain holds.
LEMMA EscrowInit ==
  ASSUME Init
  PROVE  EscrowExact
<1>1. SUFFICES ASSUME NEW o \in Chains
               PROVE  balance[o][o] + Amounts(o, PaidTwice)
                        = funds[Ibc!Other(o)][o] + Amounts(o, UnderWay)
  BY DEF EscrowExact
<1>2. packets = [c \in Chains |-> <<>>] /\ balance[o][o] = funds[Other(o)][o]
  BY DEF Init, Ibc!Init, Other
<1>3. ASSUME NEW f, \A c \in Chains : DOMAIN f[c] = {}
      PROVE  Total(f) = 0
  <2>1. PICK F : F = [c \in Chains |-> SumFunction(f[c])]
    OBVIOUS
  <2>2. \A c \in Chains : SumFunction(f[c]) = 0
    BY <1>3, SumEmpty DEF SumFunction
  <2>3. \A c \in Chains : F[c] = 0
    BY <2>1, <2>2
  <2>4. SumFunctionOnSet(F, Chains) = 0
    BY <2>3, ChainsFinite, SumZero
  <2> QED BY <2>1, <2>4 DEF Total, SumFunction
<1>4. \A c \in Chains : DOMAIN WayParts(packets, o)[c] = {} /\ DOMAIN PaidParts(packets, o)[c] = {}
  BY <1>2 DEF WayParts, PaidParts
<1>5. Amounts(o, UnderWay) = 0 /\ Amounts(o, PaidTwice) = 0
  BY <1>3, <1>4, WayTotal, PaidTotal
<1>6. balance[o][o] \in Nat
  BY IbcInit DEF IbcInv, Types
<1> QED BY <1>2, <1>5, <1>6 DEF Other

\* The escrow of one chain, and its state with a step's changes: y of the packets
\* under way, x of those paid twice, z of the difference of escrow and vouchers.
LEMMA EscrowArithmetic ==
  ASSUME NEW b \in Int, NEW f \in Int, NEW p \in Int, NEW w \in Int, b + p = f + w,
         NEW b2 \in Int, NEW f2 \in Int, NEW p2, NEW w2,
         NEW x \in Int, NEW y \in Int, NEW z \in Int,
         p2 = p + x, w2 = w + y, b2 - f2 = b - f + z, x + z = y
  PROVE  b2 + p2 = f2 + w2
OBVIOUS

\* The escrow stays exact if it moves by what one packet counts for.
LEMMA EscrowTurned ==
  ASSUME IbcInv, IbcInv', EscrowExact, NEW s \in Chains, NEW i \in DOMAIN packets[s],
         NEW q \in PacketType, Turned(s, i, q), NEW o \in Chains, NEW z \in Int,
         balance'[o][o] - funds'[Other(o)][o] = balance[o][o] - funds[Other(o)][o] + z,
         PaidPart(q, o) - PaidPart(packets[s][i], o) + z = WayPart(q, o) - WayPart(packets[s][i], o)
  PROVE  balance'[o][o] + Amounts(o, PaidTwice)' = funds'[Other(o)][o] + Amounts(o, UnderWay)'
<1>1. PICK x, y : /\ x = PaidPart(q, o) - PaidPart(packets[s][i], o)
                  /\ y = WayPart(q, o) - WayPart(packets[s][i], o)
  OBVIOUS
<1>2. x \in Int /\ y \in Int
  BY <1>1, PartTypes, PacketInDomain
<1>3. /\ Amounts(o, UnderWay)' = Amounts(o, UnderWay) + y
      /\ Amounts(o, PaidTwice)' = Amounts(o, PaidTwice) + x
      /\ Amounts(o, UnderWay) \in Int /\ Amounts(o, PaidTwice) \in Int
  BY <1>1, TokensTurned
<1>4. balance[o][o] + Amounts(o, PaidTwice) = funds[Other(o)][o] + Amounts(o, UnderWay)
  BY DEF EscrowExact, Other
<1>5. balance[o][o] \in Int /\ funds[Other(o)][o] \in Int
      /\ balance'[o][o] \in Int /\ funds'[Other(o)][o] \in Int
  BY OtherChain DEF IbcInv, Types
<1>6. x + z = y
  BY <1>1
<1> QED BY <1>2, <1>3, <1>4, <1>5, <1>6, EscrowArithmetic

\* The share of a packet in the two sums, by what became of it.
Share(p, o) == IF p.order.origin = o THEN p.order.amount ELSE 0

\* What a packet counts for, by what has become of it.
LEMMA Shares ==
  ASSUME NEW p \in PacketType, NEW o
  PROVE  /\ Share(p, o) \in Int
         /\ ~p.success /\ ~p.refunded => WayPart(p, o) = Share(p, o)
         /\ p.success \/ p.refunded => WayPart(p, o) = 0
         /\ ~p.success \/ ~p.refunded \/ p.timely => PaidPart(p, o) = 0
         /\ p.success /\ p.refunded /\ ~p.timely => PaidPart(p, o) = Share(p, o)
<1>1. p.order.amount \in Nat
  BY PacketFields, WithdrawalType
<1>2. Share(p, o) \in Int
  BY <1>1 DEF Share
<1> QED BY <1>2 DEF Share, WayPart, PaidPart, UnderWay, PaidTwice

\* A withdrawal keeps the escrow exact.
LEMMA EscrowWithdraw ==
  ASSUME IbcInv, IbcInv', EscrowExact, NEW c \in Chains, NEW w \in Withdrawals, Ibc!Withdraw(c, w),
         NEW o \in Chains
  PROVE  balance'[o][o] + Amounts(o, PaidTwice)' = funds'[Other(o)][o] + Amounts(o, UnderWay)'
<1>1. PICK q, z : q = Ibc!Packet(c, w) /\ z = (IF w.origin = o THEN w.amount ELSE 0)
  OBVIOUS
<1>2. q \in PacketType /\ q.order = w /\ ~q.success /\ ~q.refunded
  BY <1>1, NewPacket DEF IbcInv
<1>3. z \in Int /\ z = Share(q, o)
  BY <1>1, <1>2, WithdrawalType DEF Share
<1>4. WayPart(q, o) = z /\ PaidPart(q, o) = 0
  BY <1>2, <1>3, Shares
<1>5. packets' = [packets EXCEPT ![c] = Append(@, q)] /\ Ibc!TakeTokens(c, w)
  BY <1>1 DEF Ibc!Withdraw
<1>6. balance'[o][o] - funds'[Other(o)][o] = balance[o][o] - funds[Other(o)][o] + z
  BY <1>1, <1>5, TakeEscrow DEF IbcInv
<1>7. /\ Amounts(o, UnderWay)' = Amounts(o, UnderWay) + z
      /\ Amounts(o, PaidTwice)' = Amounts(o, PaidTwice) + 0
      /\ Amounts(o, UnderWay) \in Int /\ Amounts(o, PaidTwice) \in Int
  BY <1>2, <1>4, <1>5, TokensAppended
<1>8. balance[o][o] + Amounts(o, PaidTwice) = funds[Other(o)][o] + Amounts(o, UnderWay)
  BY DEF EscrowExact, Other
<1>9. balance[o][o] \in Int /\ funds[Other(o)][o] \in Int
      /\ balance'[o][o] \in Int /\ funds'[Other(o)][o] \in Int
  <2>1. Other(o) \in Chains
    BY OtherChain
  <2>2. balance[o][o] \in Int /\ funds[Other(o)][o] \in Int
    BY <2>1 DEF IbcInv, Types
  <2>3. balance' \in [Chains -> [Chains -> Nat]] /\ funds' \in [Chains -> [Chains -> Nat]]
    BY DEF IbcInv, Types
  <2> QED BY <2>1, <2>2, <2>3
<1>10. 0 \in Int /\ 0 + z = z
  BY <1>3
<1> QED BY <1>3, <1>6, <1>7, <1>8, <1>9, <1>10, EscrowArithmetic

\* A packet that turns without tokens moving, or with tokens coming to users.
LEMMA EscrowUnmoved ==
  ASSUME IbcInv, NEW o \in Chains, UNCHANGED <<balance, funds>>
  PROVE  balance'[o][o] - funds'[Other(o)][o] = balance[o][o] - funds[Other(o)][o] + 0
<1>1. balance[o][o] \in Int /\ funds[Other(o)][o] \in Int
  BY OtherChain DEF IbcInv, Types
<1> QED BY <1>1

\* What a receipt or a refund does to escrow and vouchers.
LEMMA EscrowGiven ==
  ASSUME IbcInv, NEW c \in Chains, NEW p \in PacketType, Ibc!GiveTokens(c, p.order), NEW o \in Chains
  PROVE  /\ 0 - Share(p, o) \in Int
         /\ balance'[o][o] - funds'[Other(o)][o] =
              balance[o][o] - funds[Other(o)][o] + (0 - Share(p, o))
<1>1. balance[o][o] \in Int /\ funds[Other(o)][o] \in Int
  BY OtherChain DEF IbcInv, Types
<1>2. p.order \in Withdrawals /\ Share(p, o) \in Int
  BY PacketFields, Shares
<1>3. balance'[o][o] - funds'[Other(o)][o] =
        balance[o][o] - funds[Other(o)][o] - (IF p.order.origin = o THEN p.order.amount ELSE 0)
  BY <1>2, GiveEscrow DEF IbcInv
<1>4. balance'[o][o] - funds'[Other(o)][o] = balance[o][o] - funds[Other(o)][o] - Share(p, o)
  BY <1>3 DEF Share
<1> QED BY <1>1, <1>2, <1>4

\* Receiving a packet keeps the escrow exact.
LEMMA EscrowReceives ==
  ASSUME IbcInv, IbcInv', EscrowExact, NEW c \in Chains, NEW i \in DOMAIN packets[Other(c)],
         NEW s \in BOOLEAN, Receives(c, i, packets[Other(c)][i], s), NEW o \in Chains
  PROVE  balance'[o][o] + Amounts(o, PaidTwice)' = funds'[Other(o)][o] + Amounts(o, UnderWay)'
<1>1. PICK p, q, d : p = packets[Other(c)][i] /\ q = Received(p, height[c], s) /\ d = Other(c)
  OBVIOUS
<1>2. /\ d \in Chains /\ Other(d) = c /\ i \in DOMAIN packets[d]
      /\ p \in PacketType /\ PacketOK(d, p) /\ height[c] \in Nat
  BY <1>1, OtherChain, OtherTwice, PacketInDomain DEF IbcInv, Types
<1>3. /\ q \in PacketType /\ q.order = p.order /\ q.refunded = p.refunded /\ q.success = s
  BY <1>1, <1>2, ReceivedPacket
<1>4. p.received = 0 /\ height[c] <= p.order.timeoutHeight /\ 2 * height[c] < p.order.timeoutTime
      /\ Turned(d, i, q)
  BY <1>1 DEF Receives
<1>5. ~Passed(p.order, height[c])
  BY <1>2, <1>4, PacketFields, WithdrawalType DEF Passed
<1>6. ~p.refunded /\ ~p.success /\ ~q.refunded
  BY <1>2, <1>3, <1>4, <1>5 DEF PacketOK
<1>7. Share(p, o) \in Int /\ WayPart(p, o) = Share(p, o) /\ PaidPart(p, o) = 0 /\ PaidPart(q, o) = 0
  BY <1>2, <1>3, <1>6, Shares
<1>8. CASE s
  <2>1. WayPart(q, o) = 0
    BY <1>3, <1>8, Shares
  <2>2. Ibc!GiveTokens(c, p.order)
    BY <1>1, <1>8 DEF Receives
  <2>3. /\ 0 - Share(p, o) \in Int
        /\ balance'[o][o] - funds'[Other(o)][o] =
             balance[o][o] - funds[Other(o)][o] + (0 - Share(p, o))
    BY <1>2, <2>2, EscrowGiven
  <2>4. PaidPart(q, o) - PaidPart(packets[d][i], o) + (0 - Share(p, o))
          = WayPart(q, o) - WayPart(packets[d][i], o)
    BY <1>1, <1>7, <2>1
  <2> QED BY <1>2, <1>3, <1>4, <2>3, <2>4, EscrowTurned
<1>9. CASE ~s
  <2>1. WayPart(q, o) = Share(p, o)
    BY <1>3, <1>6, <1>9, Shares DEF Share
  <2>2. balance'[o][o] - funds'[Other(o)][o] = balance[o][o] - funds[Other(o)][o] + 0
    BY <1>1, <1>9, EscrowUnmoved DEF Receives
  <2>3. PaidPart(q, o) - PaidPart(packets[d][i], o) + 0 = WayPart(q, o) - WayPart(packets[d][i], o)
    BY <1>1, <1>7, <2>1
  <2> QED BY <1>2, <1>3, <1>4, <2>2, <2>3, EscrowTurned
<1> QED BY <1>8, <1>9

\* An acknowledgement keeps the escrow exact.
LEMMA EscrowAcknowledges ==
  ASSUME IbcInv, IbcInv', EscrowExact, NEW c \in Chains, NEW i \in DOMAIN packets[c],
         Acknowledges(c, i, packets[c][i]), NEW o \in Chains
  PROVE  balance'[o][o] + Amounts(o, PaidTwice)' = funds'[Other(o)][o] + Amounts(o, UnderWay)'
<1>1. PICK p, r, q : p = packets[c][i] /\ r = (~p.success) /\ q = Acknowledged(p, height[c], r)
  OBVIOUS
<1>2. p \in PacketType /\ PacketOK(c, p) /\ height[c] \in Nat
  BY <1>1, PacketInDomain DEF IbcInv, Types
<1>3. r \in BOOLEAN /\ (r <=> ~p.success)
  BY <1>1, Zenon
<1>4. p.cleared = 0 /\ Turned(c, i, q)
  BY <1>1 DEF Acknowledges
<1>5. q \in PacketType /\ q.order = p.order /\ q.refunded = r /\ q.success = p.success
  BY <1>1, <1>2, <1>3, AcknowledgedPacket
<1>6. ~p.refunded /\ (q.refunded <=> ~p.success) /\ (q.success <=> p.success)
  BY <1>2, <1>3, <1>4, <1>5 DEF PacketOK
<1>7. Share(p, o) \in Int /\ PaidPart(p, o) = 0 /\ PaidPart(q, o) = 0 /\ WayPart(q, o) = 0
  BY <1>2, <1>5, <1>6, Shares
<1>8. CASE p.success
  <2>1. WayPart(p, o) = 0
    BY <1>2, <1>8, Shares
  <2>2. balance'[o][o] - funds'[Other(o)][o] = balance[o][o] - funds[Other(o)][o] + 0
    BY <1>1, <1>8, EscrowUnmoved DEF Acknowledges
  <2>3. PaidPart(q, o) - PaidPart(packets[c][i], o) + 0 = WayPart(q, o) - WayPart(packets[c][i], o)
    BY <1>1, <1>7, <2>1
  <2> QED BY <1>4, <1>5, <2>2, <2>3, EscrowTurned
<1>9. CASE ~p.success
  <2>1. WayPart(p, o) = Share(p, o)
    BY <1>2, <1>6, <1>9, Shares
  <2>2. Ibc!GiveTokens(c, p.order)
    BY <1>1, <1>9 DEF Acknowledges
  <2>3. /\ 0 - Share(p, o) \in Int
        /\ balance'[o][o] - funds'[Other(o)][o] =
             balance[o][o] - funds[Other(o)][o] + (0 - Share(p, o))
    BY <1>2, <2>2, EscrowGiven
  <2>4. PaidPart(q, o) - PaidPart(packets[c][i], o) + (0 - Share(p, o))
          = WayPart(q, o) - WayPart(packets[c][i], o)
    BY <1>1, <1>7, <2>1
  <2> QED BY <1>4, <1>5, <2>3, <2>4, EscrowTurned
<1> QED BY <1>8, <1>9

\* A timeout keeps the escrow exact; a second payment is counted.
LEMMA EscrowTimesOut ==
  ASSUME IbcInv, IbcInv', EscrowExact, NEW c \in Chains, NEW i \in DOMAIN packets[c],
         NEW t \in BOOLEAN, TimesOut(c, i, packets[c][i], t), NEW o \in Chains
  PROVE  balance'[o][o] + Amounts(o, PaidTwice)' = funds'[Other(o)][o] + Amounts(o, UnderWay)'
<1>1. PICK p, q : p = packets[c][i] /\ q = TimedOutPacket(p, height[c], t)
  OBVIOUS
<1>2. p \in PacketType /\ PacketOK(c, p) /\ height[c] \in Nat
  BY <1>1, PacketInDomain DEF IbcInv, Types
<1>3. p.cleared = 0 /\ (p.received # 0 => ~t) /\ Turned(c, i, q) /\ Ibc!GiveTokens(c, p.order)
  BY <1>1 DEF TimesOut
<1>4. /\ q \in PacketType /\ q.order = p.order /\ q.refunded /\ q.success = p.success /\ q.timely = t
  BY <1>1, <1>2, TimedOutFields
<1>5. ~p.refunded /\ (p.success => ~t)
  BY <1>2, <1>3 DEF PacketOK
<1>6. Share(p, o) \in Int /\ PaidPart(p, o) = 0 /\ WayPart(q, o) = 0
  BY <1>2, <1>4, <1>5, Shares
<1>7. /\ 0 - Share(p, o) \in Int
      /\ balance'[o][o] - funds'[Other(o)][o] =
           balance[o][o] - funds[Other(o)][o] + (0 - Share(p, o))
  BY <1>2, <1>3, EscrowGiven
<1>8. PaidPart(q, o) - PaidPart(packets[c][i], o) + (0 - Share(p, o))
        = WayPart(q, o) - WayPart(packets[c][i], o)
  <2>1. CASE p.success
    <3>1. WayPart(p, o) = 0 /\ PaidPart(q, o) = Share(q, o)
      BY <1>2, <1>4, <1>5, <2>1, Shares
    <3>2. Share(q, o) = Share(p, o)
      BY <1>4 DEF Share
    <3> QED BY <1>1, <1>6, <3>1, <3>2
  <2>2. CASE ~p.success
    <3>1. WayPart(p, o) = Share(p, o) /\ PaidPart(q, o) = 0
      BY <1>2, <1>4, <1>5, <2>2, Shares
    <3> QED BY <1>1, <1>6, <3>1
  <2> QED BY <2>1, <2>2
<1> QED BY <1>3, <1>4, <1>7, <1>8, EscrowTurned

\* Every step keeps the escrow exact.
LEMMA EscrowStep ==
  ASSUME IbcInv, IbcInv', EscrowExact, [Next]_vars
  PROVE  EscrowExact'
<1>1. SUFFICES ASSUME NEW o \in Chains
               PROVE  balance'[o][o] + Amounts(o, PaidTwice)' = funds'[Other(o)][o] + Amounts(o, UnderWay)'
  BY DEF EscrowExact, Other, Ibc!Other
<1>2. CASE UNCHANGED <<balance, funds, packets>>
  <2>1. balance[o][o] + Amounts(o, PaidTwice) = funds[Other(o)][o] + Amounts(o, UnderWay)
    BY DEF EscrowExact, Other
  <2>2. Amounts(o, PaidTwice)' = Amounts(o, PaidTwice) /\ Amounts(o, UnderWay)' = Amounts(o, UnderWay)
    BY <1>2, WayTotal, PaidTotal, WayTotalNext, PaidTotalNext
  <2> QED BY <1>2, <2>1, <2>2
<1>3. UNCHANGED ibcVars => UNCHANGED <<balance, funds, packets>>
  BY DEF ibcVars
<1>4. \A c \in Chains : Ibc!EndBlock(c) => UNCHANGED <<balance, funds, packets>>
  BY DEF Ibc!EndBlock
<1>5. \A c \in Chains, h \in Nat : Ibc!UpdateClient(c, h) => UNCHANGED <<balance, funds, packets>>
  BY DEF Ibc!UpdateClient
<1> QED BY <1>2, <1>3, <1>4, <1>5, Steps, EscrowWithdraw, EscrowReceives, EscrowAcknowledges,
           EscrowTimesOut, Zenon

\* What a chain holds in escrow is exactly what the other end has issued
\* vouchers for and what is under way, short only of the packets that were
\* received and then refunded on a timeout that had not passed at the height
\* of its proof.
THEOREM EscrowIsExact == Spec => []EscrowExact
<1>1. Init => EscrowExact
  BY EscrowInit
<1>2. IbcInv /\ IbcInv' /\ EscrowExact /\ [Next]_vars => EscrowExact'
  BY EscrowStep
<1> QED BY <1>1, <1>2, IbcInvariant, PTL DEF Spec

-----------------------------------------------------------------------------
(* The wallet follows its chain                                             *)

Values == [asset : Chains, amount : Nat]

Note == [height : Nat, index : Nat, value : Values]

Position == Nat \X Nat

NullifierType == [note : Note, position : Position]

TreeType == [blocks : Seq(Seq(Note)), kept : SUBSET Note]

RecordType == [note : Note, position : Position, spent : Nat]

DbType == [height : Nat, tree : TreeType, notes : SUBSET RecordType]

BlockType == [notes : Seq(Note), nullifiers : SUBSET NullifierType]

\* What the first h blocks of a chain bs hold.
NotesOf(bs, h) == UNION {{bs[k].notes[j] : j \in DOMAIN bs[k].notes} : k \in 1..h}

SpentOf(bs, h) == {n.note : n \in UNION {bs[k].nullifiers : k \in 1..h}}

SctOf(bs, h) == [k \in 1..h |-> bs[k].notes]

Contents(notes) == {notes[j] : j \in DOMAIN notes}

ViewTypes ==
    /\ blocks \in Seq(BlockType)
    /\ db \in DbType
    /\ tree \in TreeType
    /\ uncommitted \in Nat
    /\ torn \in {"no", "memory", "disk"}

\* Notes carry their positions, and a nullifier is of an earlier block's note at
\* the position it has on the chain.
BlockOK(k, b) ==
    /\ \A j \in DOMAIN b.notes : b.notes[j].height = k /\ b.notes[j].index = j
    /\ \A n \in b.nullifiers : n.note.height < k /\ n.position = <<n.note.height, n.note.index>>

Published == \A k \in DOMAIN blocks : BlockOK(k, blocks[k])

\* The blocks between the heights on disk and in memory are empty, and the block
\* that was scanned is committed.
Heights ==
    /\ db.height <= Synced /\ Synced < Len(blocks)
    /\ phase = "scanned" => Synced + 1 < Len(blocks)
    /\ \A k \in (db.height + 1)..Synced : blocks[k].notes = <<>> /\ blocks[k].nullifiers = {}

PlacedIn(t, r) ==
    /\ r.position[1] \in DOMAIN t
    /\ r.position[2] \in DOMAIN t[r.position[1]]
    /\ t[r.position[1]][r.position[2]] = r.note

\* Both trees hold every recorded note where its record says, even a tree that
\* is ahead of its wallet.
Placed == \A r \in db.notes : PlacedIn(tree.blocks, r) /\ PlacedIn(db.tree.blocks, r)

\* The last block of the tree is the one just scanned.
Top(t, b) ==
    /\ t.blocks # <<>> /\ t.blocks[Len(t.blocks)] = b.notes
    /\ Contents(b.notes) \subseteq t.kept

Scanned == phase = "scanned" => Top(tree, blocks[Synced + 1])

KnownAt(bs, d, h) ==
    /\ {r.note : r \in d.notes} = NotesOf(bs, h)
    /\ \A r \in d.notes : r.spent # 0 => r.note \in SpentOf(bs, h)

Known == KnownAt(blocks, db, Synced)

\* As long as no tree that was ahead has been saved, the disk is right.
DiskAt(bs, d) ==
    /\ d.tree.blocks = SctOf(bs, d.height)
    /\ \A r \in d.notes :
         /\ r.position = <<r.note.height, r.note.index>>
         /\ r.note \in SpentOf(bs, d.height) => r.spent # 0
         /\ r.note \notin SpentOf(bs, d.height) => r.note \in d.tree.kept

Disk == torn # "disk" => DiskAt(blocks, db)

\* Unless an error has left the tree ahead, so is the memory.
MemoryAt(bs, d, t, h, top) ==
    /\ t.blocks = SctOf(bs, top)
    /\ \A r \in d.notes : r.note \notin SpentOf(bs, h) => r.note \in t.kept

Scan == IF phase = "scanned" THEN Synced + 1 ELSE Synced

Memory == torn = "no" => MemoryAt(blocks, db, tree, Synced, Scan)

\* The inductive invariant of the wallet.
ViewInv == ViewTypes /\ Published /\ Heights /\ Placed /\ Scanned /\ Known /\ Disk /\ Memory

\* The notes of the first blocks.
LEMMA InNotes ==
  ASSUME NEW bs, NEW h, NEW x
  PROVE  x \in NotesOf(bs, h) <=> \E k \in 1..h : x \in Contents(bs[k].notes)
BY DEF NotesOf, Contents

\* The notes spent in the first blocks.
LEMMA InSpent ==
  ASSUME NEW bs, NEW h, NEW x
  PROVE  x \in SpentOf(bs, h) <=> \E k \in 1..h : \E n \in bs[k].nullifiers : x = n.note
BY DEF SpentOf

\* They are those of the blocks, and no others.
LEMMA SamePrefix ==
  ASSUME NEW bs, NEW cs, NEW h \in Nat, \A k \in 1..h : cs[k] = bs[k]
  PROVE  /\ NotesOf(cs, h) = NotesOf(bs, h) /\ SpentOf(cs, h) = SpentOf(bs, h)
         /\ SctOf(cs, h) = SctOf(bs, h)
<1>1. \A x : x \in NotesOf(cs, h) <=> x \in NotesOf(bs, h)
  BY InNotes
<1>2. \A x : x \in SpentOf(cs, h) <=> x \in SpentOf(bs, h)
  BY InSpent
<1>3. SctOf(cs, h) = SctOf(bs, h)
  BY DEF SctOf
<1> QED BY <1>1, <1>2, <1>3

\* One more block adds its notes.
LEMMA NextNotes ==
  ASSUME NEW bs, NEW h \in Nat
  PROVE  NotesOf(bs, h + 1) = NotesOf(bs, h) \cup Contents(bs[h + 1].notes)
<1>1. \A x : x \in NotesOf(bs, h + 1) <=> x \in NotesOf(bs, h) \/ x \in Contents(bs[h + 1].notes)
  <2>1. 1..(h + 1) = (1..h) \cup {h + 1}
    OBVIOUS
  <2> QED BY <2>1, InNotes
<1> QED BY <1>1

\* One more block adds its nullifiers.
LEMMA NextSpent ==
  ASSUME NEW bs, NEW h \in Nat, NEW x
  PROVE  x \in SpentOf(bs, h + 1) <=>
           x \in SpentOf(bs, h) \/ \E n \in bs[h + 1].nullifiers : x = n.note
<1>1. 1..(h + 1) = (1..h) \cup {h + 1}
  OBVIOUS
<1> QED BY <1>1, InSpent

\* Empty blocks hold nothing.
LEMMA EmptyBlocks ==
  ASSUME NEW bs, NEW h \in Nat, NEW g \in Nat, h <= g,
         \A k \in (h + 1)..g : bs[k].notes = <<>> /\ bs[k].nullifiers = {}
  PROVE  NotesOf(bs, g) = NotesOf(bs, h) /\ SpentOf(bs, g) = SpentOf(bs, h)
<1>1. ASSUME NEW k \in 1..g, k \notin 1..h PROVE Contents(bs[k].notes) = {} /\ bs[k].nullifiers = {}
  <2>1. k \in (h + 1)..g
    BY <1>1
  <2>2. bs[k].notes = <<>>
    BY <2>1
  <2>3. DOMAIN bs[k].notes = {}
    BY <2>2
  <2> QED BY <2>1, <2>3 DEF Contents
<1>2. 1..h \subseteq 1..g
  OBVIOUS
<1>3. \A x : x \in NotesOf(bs, g) <=> x \in NotesOf(bs, h)
  BY <1>1, <1>2, InNotes
<1>4. \A x : x \in SpentOf(bs, g) <=> x \in SpentOf(bs, h)
  BY <1>1, <1>2, InSpent
<1> QED BY <1>3, <1>4

\* What happens to the blocks and to the wallet.
LEMMA ViewSteps ==
  ASSUME IbcInv, [Next]_vars
  PROVE  \/ \E v \in Values : View!MintNote(v)
         \/ \E r \in db.notes : View!Spend(r)
         \/ View!FinishBlock
         \/ View!Worker
         \/ UNCHANGED viewVars
<1>1. ASSUME NEW c \in Chains, NEW w \in Withdrawals, MintsOn(c, w)
      PROVE  (\E v \in Values : View!MintNote(v)) \/ UNCHANGED viewVars
  <2>1. Value(w) \in Values
    BY WithdrawalType DEF Value, Values
  <2> QED BY <1>1, <2>1 DEF MintsOn
<1>2. CASE UNCHANGED vars
  BY <1>2 DEF vars
<1>3. CASE FollowChain
  BY <1>3 DEF FollowChain
<1>4. ASSUME NEW c \in Chains, EndBlock(c) PROVE View!FinishBlock \/ UNCHANGED viewVars
  BY <1>4 DEF EndBlock
<1>5. ASSUME NEW c \in Chains, NEW w \in Withdrawals, Withdraw(c, w)
      PROVE  (\E r \in db.notes : View!Spend(r)) \/ UNCHANGED viewVars
  BY <1>5 DEF Withdraw
<1>6. ASSUME NEW c \in Chains, Update(c) PROVE UNCHANGED viewVars
  BY <1>6 DEF Update, UpdateClient
<1>7. ASSUME NEW c \in Chains, NEW i \in DOMAIN packets[Ibc!Other(c)], NEW h \in consensus[c],
             RecvPacket(c, i, h)
      PROVE  (\E v \in Values : View!MintNote(v)) \/ UNCHANGED viewVars
  <2>1. packets[Ibc!Other(c)][i].order \in Withdrawals
    BY OtherChain, PacketInDomain, PacketFields DEF Other
  <2> QED BY <1>1, <1>7, <2>1 DEF RecvPacket
<1>8. ASSUME NEW c \in Chains, NEW i \in DOMAIN packets[c], NEW h \in consensus[c],
             Acknowledge(c, i, h) \/ Timeout(c, i, h)
      PROVE  (\E v \in Values : View!MintNote(v)) \/ UNCHANGED viewVars
  <2>1. packets[c][i].order \in Withdrawals
    BY PacketInDomain, PacketFields
  <2> QED BY <1>1, <1>8, <2>1 DEF Acknowledge, Timeout
<1> QED BY <1>2, <1>3, <1>4, <1>5, <1>6, <1>7, <1>8, Zenon DEF Next, Relay

\* The height synced to is a natural.
LEMMA SyncedType ==
  ASSUME ViewTypes
  PROVE  Synced \in Nat /\ db.height \in Nat
BY DEF ViewTypes, Synced, View!LastSyncHeight, DbType

\* The type of one block.
LEMMA BlockAt ==
  ASSUME ViewTypes, NEW k \in DOMAIN blocks
  PROVE  blocks[k] \in BlockType
BY DEF ViewTypes

\* A step of the chain changes the block it is executing or starts a new one.
ChainGrows ==
    /\ blocks' \in Seq(BlockType) /\ Len(blocks') >= Len(blocks)
    /\ \A k \in 1..(Len(blocks) - 1) : blocks'[k] = blocks[k]
    /\ UNCHANGED <<db, tree, uncommitted, phase, torn>>

\* A step of the chain keeps what the wallet has of its past.
LEMMA ChainStep ==
  ASSUME ViewInv, ChainGrows, Published'
  PROVE  ViewInv'
<1>1. PICK h : h = Synced
  OBVIOUS
<1>2. /\ h \in Nat /\ db.height \in Nat /\ Len(blocks) \in Nat /\ Len(blocks') \in Nat
      /\ Len(blocks') >= Len(blocks) /\ db.height <= h /\ h < Len(blocks)
  BY <1>1, SyncedType DEF ViewInv, ViewTypes, Heights, ChainGrows
<1>3. UNCHANGED <<db, tree, uncommitted, phase, torn>> /\ Synced' = h /\ Scan' = Scan
  BY <1>1 DEF ChainGrows, Synced, View!LastSyncHeight, Scan
<1>4. PICK bs, cs, d, t : bs = blocks /\ cs = blocks' /\ d = db /\ t = tree
  OBVIOUS
<1>5. \A k \in 1..(Len(bs) - 1) : cs[k] = bs[k]
  BY <1>4 DEF ChainGrows
<1>6. ASSUME NEW g \in Nat, g < Len(bs)
      PROVE  NotesOf(cs, g) = NotesOf(bs, g) /\ SpentOf(cs, g) = SpentOf(bs, g)
             /\ SctOf(cs, g) = SctOf(bs, g)
  <2>1. \A k \in 1..g : cs[k] = bs[k]
    BY <1>2, <1>4, <1>5, <1>6
  <2> QED BY <2>1, SamePrefix
<1>7. ViewTypes'
  BY <1>3 DEF ViewInv, ViewTypes, ChainGrows
<1>8. Heights'
  <2>1. phase' = "scanned" => Synced' + 1 < Len(blocks')
    BY <1>1, <1>2, <1>3 DEF ViewInv, Heights
  <2>2. ASSUME NEW k \in (db'.height + 1)..Synced'
        PROVE  blocks'[k].notes = <<>> /\ blocks'[k].nullifiers = {}
    <3>1. k \in (db.height + 1)..Synced /\ k \in 1..(Len(blocks) - 1)
      BY <1>1, <1>2, <1>3, <2>2
    <3> QED BY <1>4, <1>5, <3>1 DEF ViewInv, Heights
  <2> QED BY <1>2, <1>3, <2>1, <2>2 DEF Heights
<1>9. Placed'
  BY <1>3 DEF ViewInv, Placed, PlacedIn
<1>10. Scanned'
  <2>1. SUFFICES ASSUME phase' = "scanned" PROVE Top(tree, blocks[Synced + 1])'
    BY DEF Scanned
  <2>2. phase = "scanned" /\ h + 1 < Len(blocks)
    BY <1>1, <1>3, <2>1 DEF ViewInv, Heights
  <2>3. cs[h + 1] = bs[h + 1]
    BY <1>2, <1>4, <1>5, <2>2
  <2>4. Top(t, bs[h + 1])
    BY <1>1, <1>4, <2>2 DEF ViewInv, Scanned
  <2>5. Top(t, cs[h + 1])
    BY <2>3, <2>4
  <2> QED BY <1>3, <1>4, <2>5 DEF Top, Contents
<1>11. Known'
  <2>1. KnownAt(bs, d, h)
    BY <1>1, <1>4 DEF ViewInv, Known
  <2>2. KnownAt(cs, d, h)
    BY <1>2, <1>4, <1>6, <2>1 DEF KnownAt
  <2>3. blocks' = cs /\ db' = d /\ Synced' = h
    BY <1>3, <1>4
  <2>4. {r.note : r \in db'.notes} = NotesOf(blocks', Synced')
    BY <2>2, <2>3, Zenon DEF KnownAt
  <2>5. \A r \in db'.notes : r.spent # 0 => r.note \in SpentOf(blocks', Synced')
    BY <2>2, <2>3 DEF KnownAt
  <2> QED BY <2>4, <2>5, Zenon DEF Known, KnownAt, NotesOf, SpentOf
<1>12. Disk'
  <2>1. SUFFICES ASSUME torn' # "disk" PROVE DiskAt(blocks, db)'
    BY DEF Disk
  <2>2. DiskAt(bs, d)
    BY <1>3, <1>4, <2>1 DEF ViewInv, Disk
  <2>3. d.height \in Nat /\ d.height < Len(bs)
    BY <1>2, <1>4
  <2>4. DiskAt(cs, d)
    BY <1>6, <2>2, <2>3 DEF DiskAt
  <2> QED BY <1>3, <1>4, <2>4 DEF DiskAt, SctOf, SpentOf
<1>13. Memory'
  <2>1. SUFFICES ASSUME torn' = "no" PROVE MemoryAt(blocks, db, tree, Synced, Scan)'
    BY DEF Memory
  <2>2. PICK top : top = Scan
    OBVIOUS
  <2>3. MemoryAt(bs, d, t, h, top)
    BY <1>1, <1>3, <1>4, <2>1, <2>2 DEF ViewInv, Memory
  <2>4. top \in Nat /\ top < Len(bs) /\ h < Len(bs)
    BY <1>1, <1>2, <1>4, <2>2 DEF ViewInv, Heights, Scan
  <2>5. MemoryAt(cs, d, t, h, top)
    BY <1>2, <1>6, <2>3, <2>4 DEF MemoryAt
  <2> QED BY <1>3, <1>4, <2>2, <2>5 DEF MemoryAt, SctOf, SpentOf
<1> QED BY <1>7, <1>8, <1>9, <1>10, <1>11, <1>12, <1>13 DEF ViewInv

\* The last block becomes b, or b is a new one.
LEMMA LastBlockOK ==
  ASSUME ViewInv, NEW b \in BlockType, BlockOK(Len(blocks), b),
         blocks' = [blocks EXCEPT ![Len(blocks)] = b], UNCHANGED <<db, tree, uncommitted, phase, torn>>
  PROVE  ViewInv'
<1>1. blocks \in Seq(BlockType) /\ Len(blocks) \in Nat /\ Len(blocks) > 0
  BY SyncedType DEF ViewInv, ViewTypes, Heights
<1>2. Len(blocks) \in DOMAIN blocks /\ DOMAIN blocks = 1..Len(blocks)
  BY <1>1
<1>3. blocks' \in Seq(BlockType) /\ Len(blocks') = Len(blocks) /\ DOMAIN blocks' = DOMAIN blocks
  BY <1>1, <1>2
<1>4. blocks'[Len(blocks)] = b /\ \A k \in 1..(Len(blocks) - 1) : blocks'[k] = blocks[k]
  <2>1. PICK n : n = Len(blocks)
    OBVIOUS
  <2>2. blocks' = [blocks EXCEPT ![n] = b] /\ n \in DOMAIN blocks /\ DOMAIN blocks = 1..n /\ n \in Nat
    BY <1>1, <1>2, <2>1
  <2>3. \A k \in DOMAIN blocks : blocks'[k] = IF k = n THEN b ELSE blocks[k]
    BY <2>2, Zenon
  <2> QED BY <2>1, <2>2, <2>3
<1>5. ChainGrows
  <2>1. Len(blocks') >= Len(blocks)
    BY <1>1, <1>3
  <2> QED BY <1>3, <1>4, <2>1, Zenon DEF ChainGrows
<1>6. ASSUME NEW k \in DOMAIN blocks' PROVE BlockOK(k, blocks'[k])
  <2>1. CASE k = Len(blocks)
    BY <1>4, <2>1
  <2>2. CASE k # Len(blocks)
    <3>1. k \in DOMAIN blocks /\ blocks'[k] = blocks[k]
      BY <1>1, <1>2, <1>3, <1>4, <2>2
    <3> QED BY <3>1 DEF ViewInv, Published
  <2> QED BY <2>1, <2>2
<1>7. Published'
  BY <1>6 DEF Published, BlockOK
<1> QED BY <1>5, <1>7, ChainStep

\* The end of a block is such a step.
LEMMA ViewFinishBlock ==
  ASSUME ViewInv, View!FinishBlock
  PROVE  ViewInv'
<1>1. PICK b : b = View!EmptyBlock
  OBVIOUS
<1>2. b.notes = <<>> /\ b.nullifiers = {} /\ b \in BlockType
  BY <1>1 DEF View!EmptyBlock, BlockType
<1>3. blocks' = Append(blocks, b) /\ UNCHANGED <<db, tree, uncommitted, phase, torn>>
  BY <1>1 DEF View!FinishBlock, View!workerVars
<1>4. blocks \in Seq(BlockType) /\ Len(blocks) \in Nat /\ DOMAIN blocks = 1..Len(blocks)
  BY DEF ViewInv, ViewTypes
<1>5. /\ blocks' \in Seq(BlockType) /\ Len(blocks') = Len(blocks) + 1
      /\ blocks'[Len(blocks) + 1] = b /\ \A k \in 1..Len(blocks) : blocks'[k] = blocks[k]
      /\ DOMAIN blocks' = 1..(Len(blocks) + 1)
  BY <1>2, <1>3, <1>4
<1>6. ChainGrows
  BY <1>3, <1>4, <1>5 DEF ChainGrows
<1>7. ASSUME NEW k \in DOMAIN blocks' PROVE BlockOK(k, blocks'[k])
  <2>1. CASE k = Len(blocks) + 1
    BY <1>2, <1>5, <2>1 DEF BlockOK
  <2>2. CASE k # Len(blocks) + 1
    <3>1. k \in DOMAIN blocks /\ blocks'[k] = blocks[k]
      BY <1>4, <1>5, <2>2
    <3> QED BY <3>1 DEF ViewInv, Published
  <2> QED BY <2>1, <2>2
<1>8. Published'
  BY <1>7 DEF Published, BlockOK
<1> QED BY <1>6, <1>8, ChainStep

\* So is the creation of a note.
LEMMA ViewMintNote ==
  ASSUME ViewInv, NEW v \in Values, View!MintNote(v)
  PROVE  ViewInv'
<1>1. PICK n, b : n = Len(blocks) /\ b = blocks[n]
  OBVIOUS
<1>2. n \in Nat /\ n \in DOMAIN blocks /\ b \in BlockType /\ BlockOK(n, b)
  <2>1. blocks \in Seq(BlockType) /\ Len(blocks) \in Nat /\ Len(blocks) > 0
    BY SyncedType DEF ViewInv, ViewTypes, Heights
  <2>2. n \in DOMAIN blocks
    BY <1>1, <2>1
  <2> QED BY <1>1, <2>1, <2>2 DEF ViewInv, Published
<1>3. PICK m : m = View!NewNote(n, Len(b.notes) + 1, v)
  OBVIOUS
<1>4. PICK q : q = [b EXCEPT !.notes = Append(@, m)]
  OBVIOUS
<1>5. blocks' = [blocks EXCEPT ![n] = q] /\ UNCHANGED <<db, tree, uncommitted, phase, torn>>
  <2>1. blocks' = [blocks EXCEPT ![View!Executing].notes =
                     Append(@, View!NewNote(View!Executing, Len(@) + 1, v))]
    BY DEF View!MintNote
  <2>2. View!Executing = n
    BY <1>1 DEF View!Executing
  <2>3. blocks' = [blocks EXCEPT ![n] = q]
    BY <1>1, <1>3, <1>4, <2>1, <2>2, Zenon
  <2> QED BY <2>3 DEF View!MintNote, View!workerVars
<1>6. b.notes \in Seq(Note) /\ Len(b.notes) \in Nat /\ DOMAIN b.notes = 1..Len(b.notes)
  BY <1>2 DEF BlockType
<1>7. m \in Note /\ m.height = n /\ m.index = Len(b.notes) + 1
  BY <1>2, <1>3, <1>6 DEF View!NewNote, Note
<1>8. q.notes = Append(b.notes, m) /\ q.nullifiers = b.nullifiers
      /\ q = [notes |-> Append(b.notes, m), nullifiers |-> b.nullifiers]
  BY <1>2, <1>4 DEF BlockType
<1>9. Append(b.notes, m) \in Seq(Note)
  BY <1>6, <1>7
<1>10. q \in BlockType
  BY <1>2, <1>8, <1>9 DEF BlockType
<1>11. ASSUME NEW j \in DOMAIN Append(b.notes, m)
       PROVE  Append(b.notes, m)[j].height = n /\ Append(b.notes, m)[j].index = j
  <2>1. CASE j = Len(b.notes) + 1
    BY <1>6, <1>7, <2>1
  <2>2. CASE j # Len(b.notes) + 1
    <3>1. j \in DOMAIN b.notes /\ Append(b.notes, m)[j] = b.notes[j]
      BY <1>6, <1>7, <1>11, <2>2
    <3> QED BY <1>2, <3>1 DEF BlockOK
  <2> QED BY <2>1, <2>2
<1>12. BlockOK(n, q)
  BY <1>2, <1>8, <1>11 DEF BlockOK
<1> QED BY <1>1, <1>5, <1>10, <1>12, LastBlockOK

\* The nullifier of a spend is that of the note's position on the chain: the
\* wallet's tree is the chain's at an earlier block, and holds the note there.
LEMMA ViewSpend ==
  ASSUME ViewInv, NEW r \in db.notes, View!Spend(r)
  PROVE  ViewInv'
<1>1. PICK n, b, x : n = Len(blocks) /\ b = blocks[n] /\ x = View!Nullifier(r)
  OBVIOUS
<1>2. n \in Nat /\ n \in DOMAIN blocks /\ b \in BlockType /\ BlockOK(n, b)
  <2>1. blocks \in Seq(BlockType) /\ Len(blocks) \in Nat /\ Len(blocks) > 0
    BY SyncedType DEF ViewInv, ViewTypes, Heights
  <2>2. n \in DOMAIN blocks
    BY <1>1, <2>1
  <2> QED BY <1>1, <2>1, <2>2 DEF ViewInv, Published
<1>3. r \in RecordType /\ r.position \in Position
  BY DEF ViewInv, ViewTypes, DbType, RecordType
<1>4. x \in NullifierType /\ x.note = r.note /\ x.position = r.position
  BY <1>1, <1>3 DEF View!Nullifier, NullifierType, RecordType
<1>5. PICK q : q = [b EXCEPT !.nullifiers = @ \cup {x}]
  OBVIOUS
<1>6. blocks' = [blocks EXCEPT ![n] = q] /\ UNCHANGED <<db, tree, uncommitted, phase, torn>>
  <2>1. blocks' = [blocks EXCEPT ![View!Executing].nullifiers = @ \cup {View!Nullifier(r)}]
    BY DEF View!Spend
  <2>2. View!Executing = n
    BY <1>1 DEF View!Executing
  <2>3. blocks' = [blocks EXCEPT ![n] = q]
    BY <1>1, <1>5, <2>1, <2>2, Zenon
  <2> QED BY <2>3 DEF View!Spend, View!workerVars
<1>7. q.notes = b.notes /\ q.nullifiers = b.nullifiers \cup {x}
      /\ q = [notes |-> b.notes, nullifiers |-> b.nullifiers \cup {x}]
  BY <1>2, <1>5 DEF BlockType
<1>8. q \in BlockType
  BY <1>2, <1>4, <1>7 DEF BlockType
<1>9. x.note.height < n /\ x.position = <<x.note.height, x.note.index>>
  <2>1. PICK h \in 1..View!Committed : tree.blocks = View!Sct(h)
    BY DEF View!Spend, View!ClaimedAnchor
  <2>2. h \in Nat /\ h < n
    BY <1>1, <1>2, <2>1 DEF View!Committed, View!Executing
  <2>3. PICK p1, p2 : p1 = r.position[1] /\ p2 = r.position[2]
    OBVIOUS
  <2>4. r.position = <<p1, p2>>
    BY <1>3, <2>3 DEF Position
  <2>5. p1 \in DOMAIN tree.blocks /\ p2 \in DOMAIN tree.blocks[p1] /\ tree.blocks[p1][p2] = r.note
    BY <2>3 DEF ViewInv, Placed, PlacedIn
  <2>6. p1 \in 1..h /\ tree.blocks[p1] = blocks[p1].notes
    BY <2>1, <2>5 DEF View!Sct
  <2>7. p1 \in DOMAIN blocks /\ p1 < n
    BY <1>1, <1>2, <2>2, <2>6 DEF ViewInv, ViewTypes
  <2>8. r.note.height = p1 /\ r.note.index = p2
    BY <2>5, <2>6, <2>7 DEF ViewInv, Published, BlockOK
  <2> QED BY <1>4, <2>4, <2>7, <2>8
<1>10. BlockOK(n, q)
  BY <1>2, <1>7, <1>9 DEF BlockOK
<1> QED BY <1>1, <1>6, <1>8, <1>10, LastBlockOK

\* The parts of the invariant in the next state, from its values there.
LEMMA KnownNext ==
  ASSUME NEW bs, NEW d, NEW h, blocks' = bs, db' = d, Synced' = h, KnownAt(bs, d, h)
  PROVE  Known'
<1>1. {r.note : r \in db'.notes} = NotesOf(blocks', Synced')
  BY Zenon DEF KnownAt
<1>2. \A r \in db'.notes : r.spent # 0 => r.note \in SpentOf(blocks', Synced')
  BY DEF KnownAt
<1> QED BY <1>1, <1>2, Zenon DEF Known, KnownAt, NotesOf, SpentOf

\* What is on disk stays right if it is right for the new values.
LEMMA DiskNext ==
  ASSUME NEW bs, NEW d, blocks' = bs, db' = d, torn' # "disk" => DiskAt(bs, d)
  PROVE  Disk'
<1>1. SUFFICES ASSUME torn' # "disk" PROVE DiskAt(blocks, db)'
  BY DEF Disk
<1>2. DiskAt(bs, d)
  BY <1>1
<1> QED BY <1>2 DEF DiskAt, SctOf, SpentOf

\* So does what is in memory.
LEMMA MemoryNext ==
  ASSUME NEW bs, NEW d, NEW t, NEW h, NEW top, blocks' = bs, db' = d, tree' = t, Synced' = h,
         Scan' = top, torn' = "no" => MemoryAt(bs, d, t, h, top)
  PROVE  Memory'
<1>1. SUFFICES ASSUME torn' = "no" PROVE MemoryAt(blocks, db, tree, Synced, Scan)'
  BY DEF Memory
<1>2. MemoryAt(bs, d, t, h, top)
  BY <1>1
<1> QED BY <1>2 DEF MemoryAt, SctOf, SpentOf

\* So do the heights.
LEMMA HeightsNext ==
  ASSUME NEW bs, NEW d, NEW h, blocks' = bs, db' = d, Synced' = h,
         d.height <= h, h < Len(bs), phase' = "scanned" => h + 1 < Len(bs),
         \A k \in (d.height + 1)..h : bs[k].notes = <<>> /\ bs[k].nullifiers = {}
  PROVE  Heights'
BY DEF Heights

\* A step of the worker that leaves the chain, the disk, the tree and the height
\* alone and does not end in a scan.
LEMMA ViewPhase ==
  ASSUME ViewInv, UNCHANGED <<blocks, db, tree, uncommitted>>, phase' # "scanned",
         torn' \in {"no", "memory", "disk"},
         torn' # "disk" => torn # "disk", torn' = "no" => torn = "no" /\ phase # "scanned"
  PROVE  ViewInv'
<1>1. PICK bs, d, t, h : bs = blocks /\ d = db /\ t = tree /\ h = Synced
  OBVIOUS
<1>2. blocks' = bs /\ db' = d /\ tree' = t /\ Synced' = h /\ Scan' = h
  BY <1>1 DEF Synced, View!LastSyncHeight, Scan
<1>3. ViewTypes' /\ Published' /\ Placed' /\ Scanned'
  BY DEF ViewInv, ViewTypes, Published, BlockOK, Placed, PlacedIn, Scanned
<1>4. Heights'
  BY <1>1, <1>2, HeightsNext DEF ViewInv, Heights
<1>5. Known'
  BY <1>1, <1>2, KnownNext DEF ViewInv, Known
<1>6. torn' # "disk" => DiskAt(bs, d)
  BY <1>1 DEF ViewInv, Disk
<1>7. Disk'
  BY <1>2, <1>6, DiskNext
<1>8. torn' = "no" => MemoryAt(bs, d, t, h, h)
  BY <1>1 DEF ViewInv, Memory, Scan
<1>9. Memory'
  BY <1>2, <1>8, MemoryNext
<1> QED BY <1>3, <1>4, <1>5, <1>7, <1>9 DEF ViewInv

\* Starting to sync changes nothing that is recorded.
LEMMA ViewSyncStep ==
  ASSUME ViewInv, View!Sync
  PROVE  ViewInv'
BY ViewPhase DEF View!Sync, ViewInv, ViewTypes

\* An error leaves disk and tree as they are.
LEMMA ViewError ==
  ASSUME ViewInv, View!Error
  PROVE  ViewInv'
BY ViewPhase DEF View!Error, ViewInv, ViewTypes

\* A restart takes the tree from disk.
LEMMA ViewCrash ==
  ASSUME ViewInv, View!Crash
  PROVE  ViewInv'
<1>1. PICK bs, d, h : bs = blocks /\ d = db /\ h = Synced
  OBVIOUS
<1>2. /\ blocks' = bs /\ db' = d /\ tree' = d.tree /\ uncommitted' = 0 /\ phase' = "syncing"
      /\ torn' = IF torn = "memory" THEN "no" ELSE torn
  BY <1>1 DEF View!Crash
<1>3. Synced' = d.height /\ Scan' = d.height
  BY <1>2 DEF Synced, View!LastSyncHeight, Scan
<1>4. d.height \in Nat /\ h \in Nat /\ d.height <= h /\ h < Len(bs) /\ Len(bs) \in Nat
      /\ \A k \in (d.height + 1)..h : bs[k].notes = <<>> /\ bs[k].nullifiers = {}
  BY <1>1, SyncedType DEF ViewInv, ViewTypes, Heights
<1>5. d.tree \in TreeType
  BY <1>1 DEF ViewInv, ViewTypes, DbType
<1>6. ViewTypes'
  BY <1>1, <1>2, <1>5 DEF ViewInv, ViewTypes
<1>7. Published' /\ Scanned'
  BY <1>1, <1>2 DEF ViewInv, Published, BlockOK, Scanned
<1>8. Placed'
  BY <1>1, <1>2 DEF ViewInv, Placed, PlacedIn
<1>9. Heights'
  <2>1. d.height <= d.height /\ d.height < Len(bs) /\ (d.height + 1)..d.height = {}
    BY <1>4
  <2> QED BY <1>2, <1>3, <2>1, HeightsNext
<1>10. NotesOf(bs, h) = NotesOf(bs, d.height) /\ SpentOf(bs, h) = SpentOf(bs, d.height)
  BY <1>4, EmptyBlocks
<1>11. Known'
  <2>1. KnownAt(bs, d, h)
    BY <1>1 DEF ViewInv, Known
  <2>2. KnownAt(bs, d, d.height)
    BY <1>10, <2>1 DEF KnownAt
  <2> QED BY <1>2, <1>3, <2>2, KnownNext
<1>12. torn' # "disk" => DiskAt(bs, d)
  BY <1>1, <1>2 DEF ViewInv, Disk
<1>13. Disk'
  BY <1>2, <1>12, DiskNext
<1>14. torn' = "no" => MemoryAt(bs, d, d.tree, d.height, d.height)
  BY <1>12 DEF DiskAt, MemoryAt
<1>15. Memory'
  BY <1>2, <1>3, <1>14, MemoryNext
<1> QED BY <1>6, <1>7, <1>8, <1>9, <1>11, <1>13, <1>15 DEF ViewInv

\* The tree with one more block.
LEMMA SctNext ==
  ASSUME NEW bs \in Seq(BlockType), NEW h \in Nat, h + 1 <= Len(bs)
  PROVE  Append(SctOf(bs, h), bs[h + 1].notes) = SctOf(bs, h + 1)
<1>1. \A k \in 1..(h + 1) : bs[k].notes \in Seq(Note)
  <2>1. ASSUME NEW k \in 1..(h + 1) PROVE bs[k] \in BlockType
    BY <2>1
  <2> QED BY <2>1 DEF BlockType
<1>2. SctOf(bs, h) \in Seq(Seq(Note)) /\ Len(SctOf(bs, h)) = h
  BY <1>1 DEF SctOf
<1>3. SctOf(bs, h + 1) \in Seq(Seq(Note)) /\ Len(SctOf(bs, h + 1)) = h + 1
  BY <1>1 DEF SctOf
<1>4. PICK s : s = Append(SctOf(bs, h), bs[h + 1].notes)
  OBVIOUS
<1>5. /\ s \in Seq(Seq(Note)) /\ Len(s) = h + 1 /\ s[h + 1] = bs[h + 1].notes
      /\ \A k \in 1..h : s[k] = SctOf(bs, h)[k]
  BY <1>1, <1>2, <1>4
<1>6. \A k \in 1..(h + 1) : s[k] = SctOf(bs, h + 1)[k]
  BY <1>5 DEF SctOf
<1> QED BY <1>3, <1>4, <1>5, <1>6, SeqEqual

\* Scanning puts the next block in the tree, or tears it if it is there
\* already.
LEMMA ViewScanBlock ==
  ASSUME ViewInv, View!ScanBlock
  PROVE  ViewInv'
<1>1. PICK bs, d, t, h, b : bs = blocks /\ d = db /\ t = tree /\ h = Synced /\ b = blocks[h + 1]
  OBVIOUS
<1>2. View!Expected = h + 1 /\ View!Committed = Len(bs) - 1
  BY <1>1 DEF View!Expected, View!Committed, View!Executing, Synced
<1>3. PICK u : u = [blocks |-> Append(t.blocks, b.notes), kept |-> t.kept \cup Contents(b.notes)]
  OBVIOUS
<1>4. /\ phase = "syncing" /\ h + 1 <= Len(bs) - 1 /\ tree' = u /\ phase' = "scanned"
      /\ blocks' = bs /\ db' = d /\ UNCHANGED <<uncommitted, torn>>
  BY <1>1, <1>2, <1>3 DEF View!ScanBlock, View!ToSet, Contents
<1>5. /\ h \in Nat /\ Len(bs) \in Nat /\ bs \in Seq(BlockType) /\ h + 1 \in DOMAIN bs
      /\ h + 1 < Len(bs) /\ d.height \in Nat /\ d.height <= h
  <2>1. h \in Nat /\ Len(bs) \in Nat /\ bs \in Seq(BlockType) /\ d.height \in Nat /\ d.height <= h
    BY <1>1, SyncedType DEF ViewInv, ViewTypes, Heights
  <2> QED BY <1>4, <2>1
<1>6. b \in BlockType /\ BlockOK(h + 1, b) /\ b.notes \in Seq(Note) /\ Contents(b.notes) \subseteq Note
  <2>1. b \in BlockType /\ b = bs[h + 1]
    BY <1>1, <1>5
  <2>2. b.notes \in Seq(Note)
    BY <2>1 DEF BlockType
  <2>3. Contents(b.notes) \subseteq Note
    BY <2>2 DEF Contents
  <2> QED BY <1>1, <1>5, <2>1, <2>2, <2>3 DEF ViewInv, Published
<1>7. t \in TreeType /\ t.blocks \in Seq(Seq(Note)) /\ t.kept \subseteq Note
  BY <1>1 DEF ViewInv, ViewTypes, TreeType
<1>8. Synced' = h /\ Scan' = h + 1
  BY <1>1, <1>4 DEF Synced, View!LastSyncHeight, Scan
<1>9. PICK s : s = Append(t.blocks, b.notes)
  OBVIOUS
<1>10. /\ s \in Seq(Seq(Note)) /\ Len(s) = Len(t.blocks) + 1 /\ s[Len(s)] = b.notes /\ s # <<>>
       /\ \A k \in DOMAIN t.blocks : k \in DOMAIN s /\ s[k] = t.blocks[k]
  BY <1>6, <1>7, <1>9
<1>11. u.blocks = s /\ u.kept = t.kept \cup Contents(b.notes) /\ u \in TreeType
  BY <1>3, <1>6, <1>7, <1>9, <1>10 DEF TreeType
<1>12. ViewTypes' /\ Published'
  BY <1>1, <1>4, <1>11 DEF ViewInv, ViewTypes, Published, BlockOK
<1>13. Heights'
  BY <1>1, <1>4, <1>5, <1>8, HeightsNext DEF ViewInv, Heights
<1>14. Placed'
  <2>1. ASSUME NEW r \in d.notes PROVE PlacedIn(s, r) /\ PlacedIn(d.tree.blocks, r)
    <3>1. PlacedIn(t.blocks, r) /\ PlacedIn(d.tree.blocks, r)
      BY <1>1 DEF ViewInv, Placed
    <3>2. PlacedIn(s, r)
      BY <1>10, <3>1 DEF PlacedIn
    <3> QED BY <3>1, <3>2
  <2>2. \A r \in db'.notes : PlacedIn(tree'.blocks, r) /\ PlacedIn(db'.tree.blocks, r)
    BY <1>4, <1>11, <2>1
  <2> QED BY <2>2 DEF Placed, PlacedIn
<1>15. Scanned'
  <2>1. Top(u, b)
    BY <1>10, <1>11 DEF Top
  <2>2. tree' = u /\ blocks'[Synced' + 1] = b
    BY <1>1, <1>4, <1>8
  <2> QED BY <2>1, <2>2 DEF Scanned, Top, Contents
<1>16. Known'
  BY <1>1, <1>4, <1>8, KnownNext DEF ViewInv, Known
<1>17. torn' # "disk" => DiskAt(bs, d)
  BY <1>1, <1>4 DEF ViewInv, Disk
<1>18. Disk'
  BY <1>4, <1>17, DiskNext
<1>19. torn' = "no" => MemoryAt(bs, d, u, h, h + 1)
  <2>1. SUFFICES ASSUME torn' = "no" PROVE MemoryAt(bs, d, u, h, h + 1)
    OBVIOUS
  <2>2. MemoryAt(bs, d, t, h, h)
    BY <1>1, <1>4, <2>1 DEF ViewInv, Memory, Scan
  <2>3. s = SctOf(bs, h + 1)
    BY <1>1, <1>5, <1>9, <2>2, SctNext DEF MemoryAt
  <2> QED BY <1>11, <2>2, <2>3 DEF MemoryAt
<1>20. Memory'
  BY <1>4, <1>8, <1>19, MemoryNext
<1> QED BY <1>12, <1>13, <1>14, <1>15, <1>16, <1>18, <1>20 DEF ViewInv

\* An empty block moves the height in memory only.
LEMMA ViewRecordEmpty ==
  ASSUME ViewInv, View!Record, View!RecordEmptyBlock
  PROVE  ViewInv'
<1>1. PICK bs, d, t, h, b : bs = blocks /\ d = db /\ t = tree /\ h = Synced /\ b = blocks[h + 1]
  OBVIOUS
<1>2. View!Expected = h + 1
  BY <1>1 DEF View!Expected, Synced
<1>3. /\ phase = "scanned" /\ phase' = "syncing" /\ blocks' = bs /\ db' = d /\ tree' = t
      /\ uncommitted' = h + 1 /\ torn' = torn /\ b.notes = <<>> /\ b.nullifiers = {}
  BY <1>1, <1>2 DEF View!Record, View!RecordEmptyBlock, View!RequiresScanning
<1>4. /\ h \in Nat /\ Len(bs) \in Nat /\ bs \in Seq(BlockType) /\ h + 1 \in DOMAIN bs
      /\ h + 1 < Len(bs) /\ d.height \in Nat /\ d.height <= h /\ b = bs[h + 1]
  BY <1>1, <1>3, SyncedType DEF ViewInv, ViewTypes, Heights
<1>5. Synced' = h + 1 /\ Scan' = h + 1
  BY <1>3, <1>4 DEF Synced, View!LastSyncHeight, Scan
<1>6. ViewTypes' /\ Published' /\ Placed' /\ Scanned'
  BY <1>1, <1>3, <1>4 DEF ViewInv, ViewTypes, Published, BlockOK, Placed, PlacedIn, Scanned
<1>7. \A k \in (d.height + 1)..(h + 1) : bs[k].notes = <<>> /\ bs[k].nullifiers = {}
  <2>1. \A k \in (d.height + 1)..h : bs[k].notes = <<>> /\ bs[k].nullifiers = {}
    BY <1>1 DEF ViewInv, Heights
  <2> QED BY <1>3, <1>4, <2>1
<1>8. Heights'
  <2>1. d.height <= h + 1
    BY <1>4
  <2> QED BY <1>3, <1>4, <1>5, <1>7, <2>1, HeightsNext
<1>9. NotesOf(bs, h + 1) = NotesOf(bs, h) /\ SpentOf(bs, h + 1) = SpentOf(bs, h)
  <2>1. h <= h + 1 /\ h + 1 \in Nat /\ \A k \in (h + 1)..(h + 1) : k = h + 1
    BY <1>4
  <2>2. \A k \in (h + 1)..(h + 1) : bs[k].notes = <<>> /\ bs[k].nullifiers = {}
    BY <1>3, <1>4, <2>1
  <2> QED BY <1>4, <2>1, <2>2, EmptyBlocks
<1>10. Known'
  <2>1. KnownAt(bs, d, h)
    BY <1>1 DEF ViewInv, Known
  <2>2. KnownAt(bs, d, h + 1)
    BY <1>9, <2>1 DEF KnownAt
  <2> QED BY <1>3, <1>5, <2>2, KnownNext
<1>11. torn' # "disk" => DiskAt(bs, d)
  BY <1>1, <1>3 DEF ViewInv, Disk
<1>12. Disk'
  BY <1>3, <1>11, DiskNext
<1>13. torn' = "no" => MemoryAt(bs, d, t, h + 1, h + 1)
  <2>1. SUFFICES ASSUME torn' = "no" PROVE MemoryAt(bs, d, t, h + 1, h + 1)
    OBVIOUS
  <2>2. MemoryAt(bs, d, t, h, h + 1)
    BY <1>1, <1>3, <2>1 DEF ViewInv, Memory, Scan
  <2> QED BY <1>9, <2>2 DEF MemoryAt
<1>14. Memory'
  BY <1>3, <1>5, <1>13, MemoryNext
<1> QED BY <1>6, <1>8, <1>10, <1>12, <1>14 DEF ViewInv

\* What committing a block writes: b is the block, t the tree, h + 1 its height.
NullifierOf(r) == [note |-> r.note, position |-> r.position]

SpentIn(d, b) == {r \in d.notes : NullifierOf(r) \in b.nullifiers}

NewIn(b, t) ==
    {[note |-> n, position |-> <<Len(t.blocks), n.index>>, spent |-> 0] : n \in Contents(b.notes)}

TreeAfter(d, b, t) == [t EXCEPT !.kept = @ \ {r.note : r \in SpentIn(d, b)}]

NotesAfter(d, b, t, h) ==
    (d.notes \ SpentIn(d, b)) \cup NewIn(b, t) \cup {[r EXCEPT !.spent = h] : r \in SpentIn(d, b)}

DbAfter(d, b, t, h) ==
    [height |-> h, tree |-> TreeAfter(d, b, t), notes |-> NotesAfter(d, b, t, h)]

\* A record after the block was there before and is not spent in it, is of a
\* note of the block, or was spent in it.
LEMMA AfterCases ==
  ASSUME NEW d \in DbType, NEW b, NEW t, NEW h, NEW r \in NotesAfter(d, b, t, h)
  PROVE  \/ r \in d.notes /\ r \notin SpentIn(d, b)
         \/ \E n \in Contents(b.notes) :
              r = [note |-> n, position |-> <<Len(t.blocks), n.index>>, spent |-> 0]
         \/ \E s \in SpentIn(d, b) :
              s \in d.notes /\ r.note = s.note /\ r.position = s.position /\ r.spent = h
<1>1. ASSUME NEW s \in SpentIn(d, b)
      PROVE  s \in RecordType /\ s \in d.notes
  BY DEF SpentIn, DbType
<1>2. ASSUME NEW s \in RecordType
      PROVE  [s EXCEPT !.spent = h].note = s.note /\ [s EXCEPT !.spent = h].position = s.position
             /\ [s EXCEPT !.spent = h].spent = h
  BY DEF RecordType
<1> QED BY <1>1, <1>2 DEF NotesAfter, NewIn

\* The types after a block is recorded.
LEMMA AfterTypes ==
  ASSUME NEW d \in DbType, NEW b \in BlockType, NEW t \in TreeType, NEW h \in Nat
  PROVE  /\ TreeAfter(d, b, t) \in TreeType /\ TreeAfter(d, b, t).blocks = t.blocks
         /\ TreeAfter(d, b, t).kept = t.kept \ {r.note : r \in SpentIn(d, b)}
         /\ NotesAfter(d, b, t, h) \subseteq RecordType
         /\ DbAfter(d, b, t, h) \in DbType
<1>1. /\ TreeAfter(d, b, t) \in TreeType /\ TreeAfter(d, b, t).blocks = t.blocks
      /\ TreeAfter(d, b, t).kept = t.kept \ {r.note : r \in SpentIn(d, b)}
  BY DEF TreeAfter, TreeType
<1>2. \A s \in SpentIn(d, b) : [s EXCEPT !.spent = h] \in RecordType
  BY DEF SpentIn, DbType, RecordType
<1>3. ASSUME NEW n \in Contents(b.notes)
      PROVE  [note |-> n, position |-> <<Len(t.blocks), n.index>>, spent |-> 0] \in RecordType
  <2>1. n \in Note
    BY DEF Contents, BlockType
  <2>2. n.index \in Nat /\ Len(t.blocks) \in Nat
    BY <2>1 DEF Note, TreeType
  <2> QED BY <2>1, <2>2 DEF RecordType, Position
<1>4. NewIn(b, t) \subseteq RecordType
  BY <1>3 DEF NewIn
<1>5. d.notes \subseteq RecordType
  BY DEF DbType
<1>6. NotesAfter(d, b, t, h) \subseteq RecordType
  BY <1>2, <1>4, <1>5 DEF NotesAfter
<1>7. DbAfter(d, b, t, h) \in DbType
  BY <1>1, <1>6 DEF DbAfter, DbType
<1> QED BY <1>1, <1>6, <1>7

\* The records follow the chain by one more block.
LEMMA AfterKnown ==
  ASSUME NEW d \in DbType, NEW bs, NEW h \in Nat, NEW b, b = bs[h + 1], NEW t,
         KnownAt(bs, d, h)
  PROVE  KnownAt(bs, DbAfter(d, b, t, h + 1), h + 1)
<1>1. PICK R : R = NotesAfter(d, b, t, h + 1)
  OBVIOUS
<1>2. DbAfter(d, b, t, h + 1).notes = R
  BY <1>1 DEF DbAfter
<1>3. {r.note : r \in d.notes} = NotesOf(bs, h)
  BY DEF KnownAt
<1>4. NotesOf(bs, h + 1) = NotesOf(bs, h) \cup Contents(b.notes)
  BY NextNotes
<1>5. ASSUME NEW r \in R PROVE r.note \in NotesOf(bs, h + 1)
  BY <1>1, <1>3, <1>4, AfterCases
<1>6. ASSUME NEW x \in NotesOf(bs, h + 1) PROVE \E r \in R : r.note = x
  <2>1. CASE x \in NotesOf(bs, h)
    <3>1. PICK r \in d.notes : r.note = x
      BY <1>3, <2>1
    <3>2. r \in RecordType
      BY DEF DbType
    <3>3. [r EXCEPT !.spent = h + 1].note = x
      BY <3>1, <3>2 DEF RecordType
    <3> QED BY <1>1, <3>1, <3>3 DEF NotesAfter
  <2>2. CASE x \in Contents(b.notes)
    <3>1. PICK r : r = [note |-> x, position |-> <<Len(t.blocks), x.index>>, spent |-> 0]
      OBVIOUS
    <3>2. r.note = x /\ r \in NewIn(b, t)
      BY <2>2, <3>1 DEF NewIn
    <3> QED BY <1>1, <3>2 DEF NotesAfter
  <2> QED BY <1>4, <2>1, <2>2
<1>7. {r.note : r \in R} = NotesOf(bs, h + 1)
  BY <1>5, <1>6
<1>8. ASSUME NEW r \in R, r.spent # 0 PROVE r.note \in SpentOf(bs, h + 1)
  <2>1. CASE r \in d.notes
    BY <1>8, <2>1, NextSpent DEF KnownAt
  <2>2. CASE \E n \in Contents(b.notes) :
               r = [note |-> n, position |-> <<Len(t.blocks), n.index>>, spent |-> 0]
    BY <1>8, <2>2
  <2>3. ASSUME NEW s \in SpentIn(d, b), r.note = s.note PROVE r.note \in SpentOf(bs, h + 1)
    <3>1. NullifierOf(s) \in b.nullifiers /\ NullifierOf(s).note = r.note
      BY <2>3 DEF SpentIn, NullifierOf
    <3> QED BY <3>1, NextSpent
  <2> QED BY <1>1, <2>1, <2>2, <2>3, AfterCases
<1> QED BY <1>2, <1>7, <1>8 DEF KnownAt

\* A note spent by the first h + 1 blocks is of one of the first h.
LEMMA SpentEarlier ==
  ASSUME NEW bs, NEW h \in Nat, \A k \in 1..h : BlockOK(k, bs[k]) /\ bs[k] \in BlockType,
         NEW x \in SpentOf(bs, h)
  PROVE  x.height < h
<1>1. PICK k \in 1..h : \E n \in bs[k].nullifiers : x = n.note
  BY InSpent
<1>2. PICK n \in bs[k].nullifiers : x = n.note
  BY <1>1
<1>3. n.note.height < k
  BY DEF BlockOK
<1>4. n.note.height \in Nat
  BY DEF BlockType, NullifierType, Note
<1> QED BY <1>2, <1>3, <1>4

\* If the disk and the memory were right, the disk is right after the block.
LEMMA AfterDisk ==
  ASSUME NEW d \in DbType, NEW bs \in Seq(BlockType), NEW h \in Nat, h + 1 <= Len(bs),
         NEW b, b = bs[h + 1], NEW t \in TreeType,
         \A k \in 1..(h + 1) : BlockOK(k, bs[k]),
         KnownAt(bs, d, h), DiskAt(bs, d), MemoryAt(bs, d, t, h, h + 1),
         SpentOf(bs, h) = SpentOf(bs, d.height), Contents(b.notes) \subseteq t.kept
  PROVE  DiskAt(bs, DbAfter(d, b, t, h + 1))
<1>1. PICK R, e, u : R = NotesAfter(d, b, t, h + 1) /\ e = DbAfter(d, b, t, h + 1) /\ u = TreeAfter(d, b, t)
  OBVIOUS
<1>2. e.height = h + 1 /\ e.tree = u /\ e.notes = R
  BY <1>1 DEF DbAfter
<1>3. b \in BlockType /\ BlockOK(h + 1, b) /\ \A k \in 1..(h + 1) : bs[k] \in BlockType
  <2>1. \A k \in 1..(h + 1) : k \in DOMAIN bs
    OBVIOUS
  <2>2. \A k \in 1..(h + 1) : bs[k] \in BlockType
    BY <2>1
  <2> QED BY <2>2
<1>4. u.blocks = t.blocks /\ u.kept = t.kept \ {r.note : r \in SpentIn(d, b)}
  BY <1>1, <1>3, AfterTypes
<1>5. u.blocks = SctOf(bs, h + 1)
  BY <1>4 DEF MemoryAt
<1>6. Len(t.blocks) = h + 1
  <2>1. t.blocks = [k \in 1..(h + 1) |-> bs[k].notes] /\ h + 1 \in Nat
    BY DEF MemoryAt, SctOf
  <2>2. DOMAIN t.blocks = 1..(h + 1)
    BY <2>1
  <2>3. t.blocks \in Seq(Seq(Note))
    BY DEF TreeType
  <2>4. DOMAIN t.blocks = 1..Len(t.blocks) /\ Len(t.blocks) \in Nat
    BY <2>3
  <2> QED BY <2>1, <2>2, <2>4
<1>7. \A n \in Contents(b.notes) : n.height = h + 1
  BY <1>3 DEF Contents, BlockOK
<1>8. ASSUME NEW s \in SpentIn(d, b) PROVE s.note \in SpentOf(bs, h + 1)
  <2>1. NullifierOf(s) \in b.nullifiers /\ NullifierOf(s).note = s.note
    BY DEF SpentIn, NullifierOf
  <2> QED BY <2>1, NextSpent
<1>9. ASSUME NEW x \in t.kept, x \notin SpentOf(bs, h + 1) PROVE x \in u.kept
  BY <1>4, <1>8, <1>9
<1>10. ASSUME NEW r \in R
       PROVE  /\ r.position = <<r.note.height, r.note.index>>
              /\ r.note \in SpentOf(bs, h + 1) => r.spent # 0
              /\ r.note \notin SpentOf(bs, h + 1) => r.note \in u.kept
  <2>1. ASSUME r \in d.notes, r \notin SpentIn(d, b)
        PROVE  /\ r.position = <<r.note.height, r.note.index>>
               /\ r.note \in SpentOf(bs, h + 1) => r.spent # 0
               /\ r.note \notin SpentOf(bs, h + 1) => r.note \in u.kept
    <3>1. r.position = <<r.note.height, r.note.index>>
      BY <2>1 DEF DiskAt
    <3>2. r.note \in SpentOf(bs, h) => r.spent # 0
      BY <2>1 DEF DiskAt
    <3>3. ASSUME NEW n \in b.nullifiers, r.note = n.note PROVE FALSE
      <4>1. n.position = r.position
        BY <1>3, <3>1, <3>3 DEF BlockOK
      <4>2. n = [note |-> n.note, position |-> n.position]
        BY <1>3 DEF BlockType, NullifierType
      <4>3. n = NullifierOf(r)
        BY <3>3, <4>1, <4>2 DEF NullifierOf
      <4> QED BY <2>1, <4>3 DEF SpentIn
    <3>4. r.note \in SpentOf(bs, h + 1) => r.spent # 0
      BY <3>2, <3>3, NextSpent
    <3>5. r.note \notin SpentOf(bs, h) => r.note \in t.kept
      BY <2>1 DEF MemoryAt
    <3>6. r.note \notin SpentOf(bs, h + 1) => r.note \in u.kept
      BY <1>9, <3>5, NextSpent
    <3> QED BY <3>1, <3>4, <3>6
  <2>2. ASSUME NEW n \in Contents(b.notes),
               r = [note |-> n, position |-> <<Len(t.blocks), n.index>>, spent |-> 0]
        PROVE  /\ r.position = <<r.note.height, r.note.index>>
               /\ r.note \in SpentOf(bs, h + 1) => r.spent # 0
               /\ r.note \notin SpentOf(bs, h + 1) => r.note \in u.kept
    <3>1. r.note = n /\ r.position = <<Len(t.blocks), n.index>> /\ n.height = h + 1
      BY <1>7, <2>2
    <3>2. n \notin SpentOf(bs, h + 1)
      <4>1. SUFFICES ASSUME n \in SpentOf(bs, h + 1) PROVE FALSE
        OBVIOUS
      <4>2. n.height < h + 1
        BY <1>3, <4>1, SpentEarlier
      <4> QED BY <3>1, <4>2
    <3>3. n \in t.kept
      OBVIOUS
    <3> QED BY <1>6, <1>9, <3>1, <3>2, <3>3
  <2>3. ASSUME NEW s \in SpentIn(d, b), s \in d.notes, r.note = s.note, r.position = s.position,
               r.spent = h + 1
        PROVE  /\ r.position = <<r.note.height, r.note.index>>
               /\ r.note \in SpentOf(bs, h + 1) => r.spent # 0
               /\ r.note \notin SpentOf(bs, h + 1) => r.note \in u.kept
    <3>1. r.position = <<r.note.height, r.note.index>>
      BY <2>3 DEF DiskAt
    <3>2. r.note \in SpentOf(bs, h + 1)
      BY <1>8, <2>3
    <3> QED BY <2>3, <3>1, <3>2
  <2>4. \/ r \in d.notes /\ r \notin SpentIn(d, b)
        \/ \E n \in Contents(b.notes) :
             r = [note |-> n, position |-> <<Len(t.blocks), n.index>>, spent |-> 0]
        \/ \E s \in SpentIn(d, b) :
             s \in d.notes /\ r.note = s.note /\ r.position = s.position /\ r.spent = h + 1
    BY <1>1, AfterCases
  <2> QED BY <2>1, <2>2, <2>3, <2>4, Zenon
<1>11. DiskAt(bs, e)
  BY <1>2, <1>5, <1>10 DEF DiskAt
<1> QED BY <1>1, <1>11

\* Recorded notes have their position in the tree.
LEMMA AfterPlaced ==
  ASSUME NEW d \in DbType, NEW b \in BlockType, NEW t \in TreeType, NEW h \in Nat, BlockOK(h, b),
         Top(t, b), \A r \in d.notes : PlacedIn(t.blocks, r),
         NEW r \in NotesAfter(d, b, t, h)
  PROVE  PlacedIn(t.blocks, r)
<1>1. CASE r \in d.notes
  BY <1>1
<1>2. ASSUME NEW n \in Contents(b.notes),
             r = [note |-> n, position |-> <<Len(t.blocks), n.index>>, spent |-> 0]
      PROVE  PlacedIn(t.blocks, r)
  <2>1. PICK j \in DOMAIN b.notes : n = b.notes[j]
    BY DEF Contents
  <2>2. n.index = j
    BY <2>1 DEF BlockOK
  <2>3. r.position[1] = Len(t.blocks) /\ r.position[2] = j /\ r.note = n
    BY <1>2, <2>2
  <2>4. t.blocks \in Seq(Seq(Note)) /\ t.blocks # <<>>
    BY DEF TreeType, Top
  <2>5. Len(t.blocks) \in DOMAIN t.blocks
    BY <2>4
  <2>6. t.blocks[Len(t.blocks)] = b.notes
    BY DEF Top
  <2> QED BY <2>1, <2>3, <2>5, <2>6 DEF PlacedIn
<1>3. ASSUME NEW s \in SpentIn(d, b), s \in d.notes, r.note = s.note, r.position = s.position
      PROVE  PlacedIn(t.blocks, r)
  BY <1>3 DEF PlacedIn
<1> QED BY <1>1, <1>2, <1>3, AfterCases

\* Recording a block brings disk up to the tree.
LEMMA ViewRecordBlock ==
  ASSUME ViewInv, View!Record, View!RecordBlock
  PROVE  ViewInv'
<1>1. PICK bs, d, t, h, b : bs = blocks /\ d = db /\ t = tree /\ h = Synced /\ b = blocks[h + 1]
  OBVIOUS
<1>2. View!Expected = h + 1
  BY <1>1 DEF View!Expected, Synced
<1>3. PICK u, e : u = TreeAfter(d, b, t) /\ e = DbAfter(d, b, t, h + 1)
  OBVIOUS
<1>4. View!SpentRecords = SpentIn(d, b) /\ View!NewRecords = NewIn(b, t)
  <2>1. View!SpentRecords = SpentIn(d, b)
    BY <1>1, <1>2, Zenon DEF View!SpentRecords, View!Nullifier, SpentIn, NullifierOf
  <2>2. View!NewRecords = NewIn(b, t)
    BY <1>1, <1>2, Zenon DEF View!NewRecords, View!ToSet, NewIn, Contents
  <2> QED BY <2>1, <2>2
<1>5. tree' = u
  BY <1>1, <1>3, <1>4, Zenon DEF View!RecordBlock, TreeAfter
<1>6. db' = e
  <2>1. db' = [height |-> View!Expected, tree |-> tree',
               notes |-> (db.notes \ View!SpentRecords) \cup View!NewRecords
                           \cup {[r EXCEPT !.spent = View!Expected] : r \in View!SpentRecords}]
    BY DEF View!RecordBlock
  <2>2. db' = DbAfter(d, b, t, View!Expected)
    BY <1>1, <1>3, <1>4, <1>5, <2>1, Zenon DEF DbAfter, NotesAfter
  <2> QED BY <1>2, <1>3, <2>2
<1>7. /\ phase = "scanned" /\ phase' = "syncing" /\ blocks' = bs /\ uncommitted' = 0
      /\ torn' = IF torn = "memory" THEN "disk" ELSE torn
  BY <1>1 DEF View!Record, View!RecordBlock, View!ResetUncommitted
<1>8. /\ h \in Nat /\ Len(bs) \in Nat /\ bs \in Seq(BlockType) /\ h + 1 \in DOMAIN bs
      /\ h + 1 < Len(bs) /\ d.height \in Nat /\ d.height <= h /\ b = bs[h + 1]
      /\ d \in DbType /\ t \in TreeType /\ h + 1 \in Nat
  BY <1>1, <1>7, SyncedType DEF ViewInv, ViewTypes, Heights
<1>9. b \in BlockType /\ BlockOK(h + 1, b) /\ Top(t, b)
  <2>1. b \in BlockType
    BY <1>8
  <2> QED BY <1>1, <1>7, <1>8, <2>1 DEF ViewInv, Published, Scanned
<1>10. u \in TreeType /\ u.blocks = t.blocks /\ e \in DbType
  BY <1>3, <1>8, <1>9, AfterTypes
<1>11. e.height = h + 1 /\ e.tree = u /\ e.notes = NotesAfter(d, b, t, h + 1)
  BY <1>3 DEF DbAfter
<1>12. Synced' = h + 1 /\ Scan' = h + 1
  BY <1>6, <1>7, <1>11 DEF Synced, View!LastSyncHeight, Scan
<1>13. ViewTypes' /\ Published' /\ Scanned'
  BY <1>1, <1>5, <1>6, <1>7, <1>10 DEF ViewInv, ViewTypes, Published, BlockOK, Scanned
<1>14. Placed'
  <2>1. \A r \in d.notes : PlacedIn(t.blocks, r)
    BY <1>1 DEF ViewInv, Placed
  <2>2. \A r \in e.notes : PlacedIn(u.blocks, r) /\ PlacedIn(e.tree.blocks, r)
    BY <1>8, <1>9, <1>10, <1>11, <2>1, AfterPlaced
  <2>3. \A r \in db'.notes : PlacedIn(tree'.blocks, r) /\ PlacedIn(db'.tree.blocks, r)
    BY <1>5, <1>6, <2>2
  <2> QED BY <2>3 DEF Placed, PlacedIn
<1>15. Heights'
  <2>1. e.height <= h + 1 /\ (e.height + 1)..(h + 1) = {}
    BY <1>8, <1>11
  <2> QED BY <1>6, <1>7, <1>8, <1>12, <2>1, HeightsNext
<1>16. KnownAt(bs, d, h)
  BY <1>1 DEF ViewInv, Known
<1>17. Known'
  <2>1. KnownAt(bs, e, h + 1)
    BY <1>3, <1>8, <1>16, AfterKnown
  <2> QED BY <1>6, <1>7, <1>12, <2>1, KnownNext
<1>18. torn' # "disk" => DiskAt(bs, e)
  <2>1. SUFFICES ASSUME torn' # "disk" PROVE DiskAt(bs, e)
    OBVIOUS
  <2>2. torn = "no"
    BY <1>7, <2>1 DEF ViewInv, ViewTypes
  <2>3. DiskAt(bs, d) /\ MemoryAt(bs, d, t, h, h + 1)
    BY <1>1, <1>7, <2>2 DEF ViewInv, Disk, Memory, Scan
  <2>4. \A k \in (d.height + 1)..h : bs[k].notes = <<>> /\ bs[k].nullifiers = {}
    BY <1>1 DEF ViewInv, Heights
  <2>5. SpentOf(bs, h) = SpentOf(bs, d.height)
    BY <1>8, <2>4, EmptyBlocks
  <2>6. ASSUME NEW k \in 1..(h + 1) PROVE BlockOK(k, bs[k])
    <3>1. k \in DOMAIN bs
      BY <1>8
    <3> QED BY <1>1, <3>1 DEF ViewInv, Published
  <2>7. h + 1 <= Len(bs) /\ Contents(b.notes) \subseteq t.kept
    BY <1>8, <1>9 DEF Top
  <2> QED BY <1>3, <1>8, <1>16, <2>3, <2>5, <2>6, <2>7, AfterDisk
<1>19. Disk'
  BY <1>6, <1>7, <1>18, DiskNext
<1>20. torn' = "no" => MemoryAt(bs, e, u, h + 1, h + 1)
  BY <1>11, <1>18 DEF DiskAt, MemoryAt
<1>21. Memory'
  BY <1>5, <1>6, <1>7, <1>12, <1>20, MemoryNext
<1> QED BY <1>13, <1>14, <1>15, <1>17, <1>19, <1>21 DEF ViewInv

\* The initial state satisfies the invariant of the wallet.
LEMMA ViewInitially ==
  ASSUME Init
  PROVE  ViewInv
<1>1. PICK g : g = View!GenesisBlock
  OBVIOUS
<1>2. /\ blocks = <<g, View!EmptyBlock>> /\ tree = View!EmptyTree
      /\ db = [height |-> 0, tree |-> View!EmptyTree, notes |-> {}]
      /\ uncommitted = 0 /\ phase = "syncing" /\ torn = "no"
  BY <1>1 DEF Init, View!Init
<1>3. GenesisNotes \in Seq(Values)
  BY NotesAssumption DEF Values
<1>4. g.notes = [i \in DOMAIN GenesisNotes |-> View!NewNote(1, i, GenesisNotes[i])]
      /\ g.nullifiers = {} /\ g = [notes |-> g.notes, nullifiers |-> {}]
  BY <1>1 DEF View!GenesisBlock
<1>5. \A i \in DOMAIN GenesisNotes :
        View!NewNote(1, i, GenesisNotes[i]) \in Note
        /\ View!NewNote(1, i, GenesisNotes[i]).height = 1
        /\ View!NewNote(1, i, GenesisNotes[i]).index = i
  <2>1. \A i \in DOMAIN GenesisNotes : i \in Nat /\ GenesisNotes[i] \in Values
    BY <1>3
  <2> QED BY <2>1 DEF View!NewNote, Note
<1>6. g.notes \in Seq(Note)
  <2>1. DOMAIN GenesisNotes = 1..Len(GenesisNotes) /\ Len(GenesisNotes) \in Nat
    BY <1>3
  <2>2. g.notes \in [1..Len(GenesisNotes) -> Note]
    BY <1>4, <1>5, <2>1
  <2> QED BY <2>1, <2>2
<1>7. g \in BlockType /\ BlockOK(1, g)
  BY <1>4, <1>5, <1>6 DEF BlockType, BlockOK
<1>8. /\ View!EmptyBlock.notes = <<>> /\ View!EmptyBlock.nullifiers = {}
      /\ View!EmptyBlock \in BlockType
  BY DEF View!EmptyBlock, BlockType
<1>9. BlockOK(2, View!EmptyBlock)
  BY <1>8 DEF BlockOK
<1>10. blocks \in Seq(BlockType) /\ Len(blocks) = 2 /\ blocks[1] = g /\ blocks[2] = View!EmptyBlock
  BY <1>2, <1>7, <1>8
<1>11. View!EmptyTree \in TreeType /\ View!EmptyTree.blocks = <<>>
  BY DEF View!EmptyTree, TreeType
<1>12. ViewTypes
  BY <1>2, <1>10, <1>11 DEF ViewTypes, DbType
<1>13. Published
  BY <1>7, <1>9, <1>10 DEF Published
<1>14. Synced = 0 /\ Scan = 0 /\ db.height = 0 /\ db.notes = {} /\ db.tree.blocks = <<>>
       /\ tree.blocks = <<>>
  BY <1>2, <1>11 DEF Synced, View!LastSyncHeight, Scan
<1>15. Heights /\ Placed /\ Scanned
  BY <1>2, <1>10, <1>14 DEF Heights, Placed, Scanned
<1>16. NotesOf(blocks, 0) = {} /\ SctOf(blocks, 0) = <<>>
  BY DEF NotesOf, SctOf
<1>17. Known
  BY <1>14, <1>16 DEF Known, KnownAt
<1>18. Disk /\ Memory
  BY <1>14, <1>16 DEF Disk, DiskAt, Memory, MemoryAt
<1> QED BY <1>12, <1>13, <1>15, <1>17, <1>18 DEF ViewInv

\* A step of the other parts leaves it alone.
LEMMA ViewUnchanged ==
  ASSUME ViewInv, UNCHANGED viewVars
  PROVE  ViewInv'
<1>1. blocks \in Seq(BlockType) /\ Len(blocks) \in Nat
  BY DEF ViewInv, ViewTypes
<1>2. UNCHANGED <<blocks, db, tree, uncommitted, phase, torn>>
  BY DEF viewVars
<1>3. ChainGrows
  BY <1>1, <1>2 DEF ChainGrows
<1>4. Published'
  BY <1>2 DEF ViewInv, Published, BlockOK
<1> QED BY <1>3, <1>4, ChainStep

\* Every step keeps it.
LEMMA ViewStep ==
  ASSUME IbcInv, ViewInv, [Next]_vars
  PROVE  ViewInv'
<1>1. CASE View!Worker
  BY <1>1, ViewSyncStep, ViewScanBlock, ViewRecordEmpty, ViewRecordBlock, ViewError, ViewCrash
     DEF View!Worker, View!Record
<1> QED BY <1>1, ViewSteps, ViewMintNote, ViewSpend, ViewFinishBlock, ViewUnchanged

\* The inductive invariant of the wallet: what SQLite and the tree in memory
\* hold of the chain in every phase of the worker, torn or not.
THEOREM ViewInvariant == Spec => []ViewInv
<1>1. Init => ViewInv
  BY ViewInitially
<1>2. IbcInv /\ ViewInv /\ [Next]_vars => ViewInv'
  BY ViewStep
<1> QED BY <1>1, <1>2, IbcInvariant, PTL DEF Spec

\* It says that records and tree are exact.
LEMMA ViewImpliesExact ==
  ASSUME ViewInv
  PROVE  WalletExact
<1>1. /\ NotesTo(Synced) = NotesOf(blocks, Synced)
      /\ SpentTo(Synced) = SpentOf(blocks, Synced)
  BY Zenon DEF NotesTo, NotesOf, SpentTo, SpentOf, View!Nullifiers
<1>2. \A h : View!Sct(h) = SctOf(blocks, h)
  BY Zenon DEF View!Sct, SctOf
<1>3. {r.note : r \in db.notes} = NotesTo(Synced)
  BY <1>1, Zenon DEF ViewInv, Known, KnownAt
<1>4. {r.note : r \in {s \in db.notes : s.spent # 0}} \subseteq SpentTo(Synced)
  BY <1>1 DEF ViewInv, Known, KnownAt
<1>5. ASSUME torn = "no"
      PROVE  /\ tree.blocks = View!Sct(IF phase = "scanned" THEN Synced + 1 ELSE Synced)
             /\ db.tree.blocks = View!Sct(db.height)
             /\ \A r \in db.notes :
                  IF r.note \in SpentTo(Synced) THEN r.spent # 0 ELSE r.note \in tree.kept
  <2>1. DiskAt(blocks, db) /\ MemoryAt(blocks, db, tree, Synced, Scan)
    BY <1>5 DEF ViewInv, Disk, Memory
  <2>2. PICK bs, h, g : bs = blocks /\ h = Synced /\ g = db.height
    OBVIOUS
  <2>3. h \in Nat /\ g \in Nat /\ g <= h
        /\ \A k \in (g + 1)..h : bs[k].notes = <<>> /\ bs[k].nullifiers = {}
    BY <2>2, SyncedType DEF ViewInv, Heights
  <2>4. SpentOf(bs, h) = SpentOf(bs, g)
    BY <2>3, EmptyBlocks
  <2>5. tree.blocks = View!Sct(IF phase = "scanned" THEN Synced + 1 ELSE Synced)
    BY <1>2, <2>1 DEF MemoryAt, Scan
  <2>6. db.tree.blocks = View!Sct(db.height)
    BY <1>2, <2>1 DEF DiskAt
  <2>7. \A r \in db.notes :
          IF r.note \in SpentTo(Synced) THEN r.spent # 0 ELSE r.note \in tree.kept
    BY <1>1, <2>1, <2>2, <2>4 DEF DiskAt, MemoryAt
  <2> QED BY <2>5, <2>6, <2>7
<1> QED BY <1>3, <1>4, <1>5 DEF WalletExact

\* Through worker errors and crashes the wallet knows every note of the blocks
\* it has synced and takes none for spent that is not; unless an error came
\* between a scan and its record its trees are the chain's, it knows every
\* spend and can witness every unspent note.
THEOREM WalletIsExact == Spec => []WalletExact
BY ViewInvariant, ViewImpliesExact, PTL

=============================================================================
