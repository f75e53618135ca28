------------------------ MODULE DutchAuction_proofs ------------------------
(***************************************************************************)
(* Proofs about DutchAuction: for any auctions, takers, heights, ends and  *)
(* withdrawals, and number of position ids other users take, no trigger is *)
(* missed, no position is left behind but by the withdrawal of an open     *)
(* auction, the value balance is exact and the seller gets the reserve     *)
(* price.                                                                  *)
(***************************************************************************)
EXTENDS DutchAuction, SumTheorems

--------------------------------------------------------------------------
(* The inductive invariant *)

Alive(lp) == lp.state \in {"Opened", "Closed"}

\* TypeOK, except that a balance might be negative: that it is not follows
\* from VcbExact.
Types ==
  /\ auction \in [Auction ->
       [sequence : Int, position : PositionId \cup {NoPosition},
        next_trigger : Nat, input_reserves : Nat, output_reserves : Nat]]
  /\ vcb \in [Asset -> Int]
  /\ positions \in [PositionId ->
       [state : {"Absent", "Opened", "Closed", "Withdrawn"},
        r1 : Nat, r2 : Nat]]
  /\ nft \in [Auction -> Int]
  /\ paid \in [Auction -> [input : Nat, output : Nat]]
  /\ dexEnabled \in BOOLEAN
  /\ stranded \in [Auction -> Nat]
  /\ abandoned \subseteq Auction
  /\ height \in Nat
  /\ phase \in {"deliver", "triggers"}

\* Auction a with state s among positions ps: at most one position of its ids
\* holds anything; it is the current one of an open auction, or was left behind
\* when the auction was withdrawn while open, and then the auction is empty.
LifeInv(a, s, ps, left) ==
  /\ s.sequence >= -1
  /\ s.sequence = -1 =>
       /\ s.input_reserves = 0 /\ s.output_reserves = 0
       /\ \A id \in PositionsOf(a) : ps[id].state = "Absent"
  /\ s.sequence # 0 => s.position = NoPosition
  /\ left => s.sequence >= 1 /\ s.input_reserves = 0 /\ s.output_reserves = 0
  /\ s.position # NoPosition =>
       s.position \in PositionsOf(a) /\ Alive(ps[s.position])
  /\ \A id \in PositionsOf(a) :
       IF Alive(ps[id]) THEN s.position = id \/ left ELSE ps[id].r1 = 0 /\ ps[id].r2 = 0
  /\ \A id, other \in PositionsOf(a) : Alive(ps[id]) /\ Alive(ps[other]) => id = other

TriggerAt(d, k) == d.start_height + StepSize(d) * k

\* An open auction waits for the end of a step that has not passed, and it has
\* used position ids of earlier steps only.
WaitInv(a, s, ps, h) ==
  s.sequence = 0 =>
    \E k \in 1 .. Description[a].step_count :
      /\ s.next_trigger = TriggerAt(Description[a], k)
      /\ s.next_trigger >= h
      /\ \A id \in PositionsOf(a) : ps[id].state # "Absent" => id[2] < k

\* The price at which an amount was sold is at least the reserve price.
Sold(d, kept, got) == got * d.amount >= d.min_output * (d.amount - kept)

\* What a position holds, in units of the output asset times q.
Worth(lp, price) == lp.r1 * price.p + lp.r2 * price.q

PriceOf(id) == Price(Description[id[1]], id[2])

\* The live position, if any, was opened with some reserves R, and is worth no
\* less than that at its own price; what was sold before it was sold at the
\* reserve price or better.
Holds(id, ps, R) ==
  Alive(ps[id]) /\ Worth(ps[id], PriceOf(id)) >= R * PriceOf(id).p

PriceInv(a, s, ps, out, x) ==
  s.sequence >= 0 =>
    \E R \in Nat :
      /\ Sold(Description[a], s.input_reserves + out.input + x + R,
              s.output_reserves + out.output)
      /\ R = 0 \/ \E id \in PositionsOf(a) : Holds(id, ps, R)

AuctionInv(a) ==
  /\ LifeInv(a, auction[a], positions, a \in abandoned)
  /\ WaitInv(a, auction[a], positions, height)
  /\ PriceInv(a, auction[a], positions, paid[a], stranded[a])

\* Ids taken by other users are few, and no auction has used them.
OccupiedInv ==
  /\ occupied \subseteq PositionId
  /\ IsFiniteSet(occupied) /\ Cardinality(occupied) <= MaxOccupied
  /\ \A id \in occupied : positions[id].state = "Absent"

\* An entry is that of an open auction, or the last one of an auction that was
\* withdrawn while open.
TriggerInv(t) ==
  /\ \/ auction[t[1]].sequence = 0 /\ t[2] = auction[t[1]].next_trigger
     \/ t[1] \in abandoned
  /\ t[2] >= height /\ t[2] <= Description[t[1]].end_height
  /\ \A u \in triggers : u[1] = t[1] => u = t

TriggersInv ==
  /\ triggers \subseteq Auction \X Nat
  /\ \A a \in Auction :
       auction[a].sequence = 0 => <<a, auction[a].next_trigger>> \in triggers
  /\ \A t \in triggers : TriggerInv(t)

IInv ==
  /\ Types
  /\ \A a \in Auction : AuctionInv(a)
  /\ OccupiedInv
  /\ TriggersInv
  /\ VcbExact

--------------------------------------------------------------------------
(* Position ids *)

\* The three parts of a position id.
LEMMA IdParts ==
  ASSUME NEW id \in PositionId
  PROVE  /\ id[1] \in Auction
         /\ id[2] \in 0 .. Description[id[1]].step_count - 1
         /\ id[3] \in Attempts
         /\ id = <<id[1], id[2], id[3]>>
<1>1. PICK a \in Auction : id \in {a} \X (0 .. Description[a].step_count - 1) \X Attempts
  BY DEF PositionId
<1>2. id[1] = a
  BY <1>1
<1> QED BY <1>1, <1>2

\* The ids an auction may use at a step.
LEMMA IdOf ==
  ASSUME NEW a \in Auction, NEW step \in 0 .. Description[a].step_count - 1,
         NEW n \in Attempts
  PROVE  <<a, step, n>> \in PositionsOf(a)
<1>1. <<a, step, n>> \in {a} \X (0 .. Description[a].step_count - 1) \X Attempts
  OBVIOUS
<1>2. <<a, step, n>> \in PositionId
  BY <1>1 DEF PositionId
<1> QED BY <1>2 DEF PositionsOf

\* Every position id belongs to one auction.
LEMMA PositionsOfIds ==
  ASSUME NEW id \in PositionId
  PROVE  id[1] \in Auction /\ id \in PositionsOf(id[1])
BY IdParts DEF PositionsOf

\* An auction has finitely many position ids.
LEMMA PositionsOfFinite ==
  ASSUME NEW a \in Auction
  PROVE  IsFiniteSet(PositionsOf(a))
<1> DEFINE steps == 0 .. Description[a].step_count - 1
           pairs == steps \X Attempts
           f == [id \in PositionsOf(a) |-> <<id[2], id[3]>>]
<1>1. Description[a].step_count \in Int /\ MaxOccupied \in Int
  BY DescriptionAssumption, InputsAssumption DEF WellFormed
<1>2. IsFiniteSet(steps) /\ IsFiniteSet(Attempts)
  BY <1>1, FS_Interval DEF Attempts
<1>3. IsFiniteSet(pairs)
  BY <1>2, FS_Product
<1>4. \A id \in PositionsOf(a) :
        id = <<a, id[2], id[3]>> /\ id[2] \in steps /\ id[3] \in Attempts
  BY IdParts DEF PositionsOf
<1>5. f \in [PositionsOf(a) -> pairs]
  BY <1>4
<1>6. \A x, y \in PositionsOf(a) : f[x] = f[y] => x = y
  <2>1. ASSUME NEW x \in PositionsOf(a), NEW y \in PositionsOf(a), f[x] = f[y]
        PROVE  x = y
    <3>1. x[2] = y[2] /\ x[3] = y[3]
      BY <2>1
    <3> QED BY <1>4, <3>1
  <2> QED BY <2>1
<1>7. f \in Injection(PositionsOf(a), pairs)
  <2> HIDE DEF f, pairs
  <2> QED BY <1>5, <1>6 DEF Injection, IsInjective
<1> QED BY <1>3, <1>7, FS_Injection

\* A set of naturals that is not empty has a least element.
LEMMA LeastExists ==
  ASSUME NEW S \in SUBSET Nat, S # {}
  PROVE  \E n \in S : \A m \in S : n <= m
<1> DEFINE T == {k \in Nat : \A j \in 0 .. k : j \notin S}
<1>1. SUFFICES ASSUME \A n \in S : \E m \in S : m < n PROVE FALSE
  OBVIOUS
<1>2. 0 \in T
  BY <1>1
<1>3. \A n \in Nat : n \in T => n + 1 \in T
  BY <1>1
<1>4. \A n \in Nat : n \in T
  <2> HIDE DEF T
  <2> QED BY <1>2, <1>3, NatSetInduction
<1>5. \A n \in Nat : n \in 0 .. n /\ n \notin S
  BY <1>4
<1> QED BY <1>5

\* allocate_position finds an id: the ids of a step that no auction has used
\* are more than other users have taken.
LEMMA FreshIdIsFresh ==
  ASSUME OccupiedInv, NEW a \in Auction, NEW step \in 0 .. Description[a].step_count - 1,
         \A id \in PositionsOf(a) : positions[id].state # "Absent" => id[2] < step
  PROVE  /\ FreshId(a, step) \in PositionsOf(a)
         /\ FreshId(a, step)[2] = step
         /\ FreshId(a, step) \notin occupied
         /\ positions[FreshId(a, step)].state = "Absent"
<1> DEFINE free == {n \in Attempts : ~ Exists(<<a, step, n>>)}
<1>0. MaxOccupied \in Nat /\ Attempts \subseteq Nat
  BY InputsAssumption DEF Attempts
<1>1. ASSUME NEW n \in Attempts
      PROVE  <<a, step, n>> \in PositionsOf(a) /\ positions[<<a, step, n>>].state = "Absent"
  <2>1. <<a, step, n>> \in PositionsOf(a)
    BY IdOf
  <2> QED BY <2>1
<1>2. free # {}
  <2>1. SUFFICES ASSUME free = {} PROVE FALSE
    OBVIOUS
  <2>2. \A n \in Attempts : <<a, step, n>> \in occupied
    BY <1>1, <2>1 DEF Exists
  <2>3. Cardinality(Attempts) = MaxOccupied + 1 /\ IsFiniteSet(Attempts)
    BY <1>0, FS_Interval DEF Attempts
  <2> DEFINE f == [n \in Attempts |-> <<a, step, n>>]
  <2>4. f \in [Attempts -> occupied] /\ \A x, y \in Attempts : f[x] = f[y] => x = y
    BY <2>2
  <2>5. f \in Injection(Attempts, occupied)
    <3> HIDE DEF f
    <3> QED BY <2>4 DEF Injection, IsInjective
  <2>6. Cardinality(Attempts) <= Cardinality(occupied)
    BY <2>5, FS_Injection DEF OccupiedInv
  <2>7. Cardinality(occupied) \in Nat /\ Cardinality(occupied) <= MaxOccupied
    BY FS_CardinalityType DEF OccupiedInv
  <2> QED BY <1>0, <2>3, <2>6, <2>7
<1>3. free \in SUBSET Nat
  BY <1>0
<1>4. \E n \in free : \A m \in free : n <= m
  <2> HIDE DEF free
  <2> QED BY <1>2, <1>3, LeastExists
<1>5. PICK n : n = CHOOSE j \in free : \A m \in free : j <= m
  OBVIOUS
<1>6. n \in free
  <2> HIDE DEF free
  <2> QED BY <1>4, <1>5
<1>7. FreshId(a, step) = <<a, step, n>>
  BY <1>5 DEF FreshId
<1> QED BY <1>1, <1>6, <1>7 DEF Exists

--------------------------------------------------------------------------
(* Trigger heights *)

\* What DescriptionAssumption says of one auction.
LEMMA Described ==
  ASSUME NEW a \in Auction
  PROVE  WellFormed(Description[a])
BY DescriptionAssumption

\* The steps of an auction have a positive size and fill its duration.
LEMMA StepSizes ==
  ASSUME NEW d, WellFormed(d)
  PROVE  /\ StepSize(d) \in Nat \ {0}
         /\ StepSize(d) * d.step_count = d.end_height - d.start_height
<1>1. PICK n : n = d.end_height - d.start_height
  OBVIOUS
<1>2. PICK c : c = d.step_count
  OBVIOUS
<1>3. n \in Nat /\ n > 0 /\ c \in Nat /\ c > 0 /\ n % c = 0
  BY <1>1, <1>2 DEF WellFormed
<1>4. n \div c \in Int /\ n = c * (n \div c) + (n % c)
  BY <1>3
<1>5. n \div c > 0
  BY <1>3, <1>4
<1>6. (n \div c) * c = n
  BY <1>3, <1>4
<1> QED BY <1>1, <1>2, <1>4, <1>5, <1>6 DEF StepSize

\* At the k-th trigger height the step index is k, and the next trigger is the
\* one after it.
LEMMA AtTrigger ==
  ASSUME NEW d, WellFormed(d), NEW k \in 1 .. d.step_count
  PROVE  /\ TriggerAt(d, k) \in Nat
         /\ TriggerAt(d, k) <= d.end_height
         /\ StepIndex(d, TriggerAt(d, k)) = k
         /\ NextTriggerHeight(d, TriggerAt(d, k)) = TriggerAt(d, k + 1)
         /\ TriggerAt(d, k) < TriggerAt(d, k + 1)
<1>1. PICK z : z = StepSize(d)
  OBVIOUS
<1>2. PICK c : c = d.step_count
  OBVIOUS
<1>3. PICK s, e : s = d.start_height /\ e = d.end_height
  OBVIOUS
<1>4. z \in Nat /\ z > 0 /\ z * c = e - s /\ c \in Nat /\ s \in Nat /\ e \in Nat /\ k \in Nat
      /\ k >= 1 /\ k <= c
  BY <1>1, <1>2, <1>3, StepSizes DEF WellFormed
<1>5. PICK w : w = z * k
  OBVIOUS
<1>6. w \in Nat /\ w > 0 /\ w <= z * c
  <2>1. z * k <= z * c
    BY <1>4
  <2>2. z * k > 0 /\ z * k \in Nat
    BY <1>4
  <2> QED BY <1>5, <2>1, <2>2
<1>7. w \div z = k
  <2>1. w = z * k
    BY <1>5
  <2> QED BY <1>4, <1>6, <2>1
<1>8. TriggerAt(d, k) = s + w
  BY <1>1, <1>3, <1>5 DEF TriggerAt
<1>9. z * (k + 1) = w + z
  BY <1>4, <1>5
<1>10. TriggerAt(d, k + 1) = s + (w + z)
  BY <1>1, <1>3, <1>9 DEF TriggerAt
<1>11. DistanceFromStart(d, s + w) = w
  BY <1>3, <1>4, <1>6 DEF DistanceFromStart
<1>12. StepIndex(d, s + w) = k
  BY <1>1, <1>7, <1>11 DEF StepIndex
<1>13. NextTriggerHeight(d, s + w) = s + (w + z)
  BY <1>1, <1>3, <1>9, <1>12 DEF NextTriggerHeight
<1> QED BY <1>3, <1>4, <1>6, <1>8, <1>10, <1>12, <1>13

\* Before the start height the next trigger is the first.
LEMMA FirstTrigger ==
  ASSUME NEW d, WellFormed(d), NEW h \in Nat, h < d.start_height
  PROVE  NextTriggerHeight(d, h) = TriggerAt(d, 1) /\ TriggerAt(d, 1) > h
<1>1. PICK z : z = StepSize(d)
  OBVIOUS
<1>2. z \in Nat /\ z > 0 /\ d.start_height \in Nat
  BY <1>1, StepSizes DEF WellFormed
<1>3. StepIndex(d, h) = 0
  BY <1>1, <1>2 DEF StepIndex, DistanceFromStart
<1> QED BY <1>1, <1>2, <1>3 DEF NextTriggerHeight, TriggerAt

--------------------------------------------------------------------------
(* Prices and trades *)

\* Multiplication by a natural is monotone.
LEMMA Monotone ==
  ASSUME NEW x \in Int, NEW y \in Int, NEW n \in Nat, x <= y
  PROVE  x * n <= y * n /\ n * x <= n * y
OBVIOUS

\* A positive factor can be cancelled.
LEMMA Cancel ==
  ASSUME NEW x \in Int, NEW y \in Int, NEW n \in Nat \ {0}, x * n <= y * n
  PROVE  x <= y
<1>1. SUFFICES ASSUME y + 1 <= x PROVE FALSE
  OBVIOUS
<1>2. (y + 1) * n <= x * n
  BY <1>1, Monotone
<1>3. (y + 1) * n = y * n + n
  OBVIOUS
<1>4. x * n \in Int /\ y * n \in Int
  OBVIOUS
<1> QED BY <1>2, <1>3, <1>4

\* A fill never lowers what the reserves are worth at the price of the position.
LEMMA FillKeepsWorth ==
  ASSUME NEW g \in Nat, NEW t \in Nat, NEW pay \in Nat, NEW q \in Nat \ {0}, NEW p \in Nat \ {0},
         NEW f, f = Fill([give |-> g, take |-> t], pay, q, p)
  PROVE  /\ f.give \in Nat /\ f.take \in Nat
         /\ f.give * p + f.take * q >= g * p + t * q
<1>1. PICK m : m = pay * q
  OBVIOUS
<1>2. PICK n : n = g * p
  OBVIOUS
<1>3. PICK u : u = t * q
  OBVIOUS
<1>4. m \in Nat /\ n \in Nat /\ u \in Nat
  BY <1>1, <1>2, <1>3
<1>5. CASE m <= n
  <2>1. PICK x : x = m \div p
    OBVIOUS
  <2>2. f.give = g - x /\ f.take = t + pay
    BY <1>1, <1>2, <1>5, <2>1 DEF Fill
  <2>3. x \in Nat /\ p * x <= m
    BY <1>4, <2>1
  <2>4. x * p <= g * p
    <3>1. x * p = p * x
      BY <2>3
    <3> QED BY <1>2, <1>4, <1>5, <2>3, <3>1
  <2>5. x <= g
    BY <2>3, <2>4, Cancel
  <2>6. (g - x) * p = n - x * p /\ (t + pay) * q = u + m /\ x * p = p * x /\ x * p \in Nat
    BY <1>1, <1>2, <1>3, <2>3
  <2> QED BY <1>2, <1>3, <1>4, <2>2, <2>3, <2>5, <2>6
<1>6. CASE ~(m <= n)
  <2>1. PICK c : c = CeilDiv(n, q)
    OBVIOUS
  <2>2. f.give = 0 /\ f.take = t + c
    BY <1>1, <1>2, <1>6, <2>1 DEF Fill
  <2>3. c \in Nat /\ q * c >= n
    <3>1. n + q - 1 \in Nat /\ c = (n + q - 1) \div q
      BY <1>4, <2>1 DEF CeilDiv
    <3>2. PICK v : v = n + q - 1
      OBVIOUS
    <3>3. v \in Nat /\ c = v \div q
      BY <3>1, <3>2
    <3>4. c \in Nat /\ q * c + q > v
      BY <3>3
    <3> QED BY <1>4, <3>2, <3>4
  <2>4. (t + c) * q = u + q * c /\ q * c \in Nat
    BY <1>3, <2>3
  <2> QED BY <1>2, <1>3, <1>4, <2>2, <2>3, <2>4
<1> QED BY <1>5, <1>6

\* Every step quotes at least the reserve price.
LEMMA PriceFloor ==
  ASSUME NEW d, WellFormed(d), NEW step \in 0 .. d.step_count - 1
  PROVE  /\ Price(d, step).p \in Nat \ {0} /\ Price(d, step).q \in Nat \ {0}
         /\ Price(d, step).p * d.amount >= d.min_output * Price(d, step).q
<1>1. PICK c, x, n, A : c = d.step_count /\ x = d.max_output /\ n = d.min_output /\ A = d.amount
  OBVIOUS
<1>2. c \in Nat /\ c >= 2 /\ x \in Nat /\ n \in Nat /\ n > 0 /\ x > n /\ A \in Nat /\ A > 0
      /\ step \in Nat /\ step <= c - 1
  BY <1>1 DEF WellFormed
<1>3. PICK k : k = c - step - 1
  OBVIOUS
<1>4. k \in Nat /\ k + step = c - 1
  BY <1>2, <1>3
<1>5. PICK P, Q : P = Price(d, step).p /\ Q = Price(d, step).q
  OBVIOUS
<1>6. P = k * x + step * n /\ Q = (c - 1) * A
  BY <1>1, <1>3, <1>5 DEF Price
<1>7. k * n <= k * x
  BY <1>2, <1>4, Monotone
<1>8. (k + step) * n = k * n + step * n
  BY <1>2, <1>4
<1>9. k * x \in Nat /\ step * n \in Nat /\ k * n \in Nat
  BY <1>2, <1>4
<1>10. P \in Nat /\ P >= (c - 1) * n
  BY <1>4, <1>6, <1>7, <1>8, <1>9
<1>11. (c - 1) * n \in Nat /\ (c - 1) * n > 0 /\ (c - 1) * A \in Nat /\ (c - 1) * A > 0
  BY <1>2
<1>12. P \in Nat \ {0} /\ Q \in Nat \ {0}
  BY <1>6, <1>10, <1>11
<1>13. ((c - 1) * n) * A <= P * A
  BY <1>2, <1>10, <1>11, Monotone
<1>14. ((c - 1) * n) * A = n * ((c - 1) * A)
  BY <1>2
<1> QED BY <1>1, <1>5, <1>6, <1>12, <1>13, <1>14

\* Recovering a position that is worth what it was opened with leaves the
\* auction with the reserve price for all it sold.
LEMMA RecoverSold ==
  ASSUME NEW d, WellFormed(d), NEW step \in 0 .. d.step_count - 1,
         NEW K \in Int, NEW G \in Int, NEW R \in Nat, NEW r1 \in Nat, NEW r2 \in Nat,
         r1 * Price(d, step).p + r2 * Price(d, step).q >= R * Price(d, step).p,
         Sold(d, K + R, G)
  PROVE  Sold(d, K + r1, G + r2)
<1>1. PICK P, Q : P = Price(d, step).p /\ Q = Price(d, step).q
  OBVIOUS
<1>2. PICK n, A : n = d.min_output /\ A = d.amount
  OBVIOUS
<1>3. P \in Nat \ {0} /\ Q \in Nat \ {0} /\ P * A >= n * Q /\ n \in Nat \ {0} /\ A \in Nat \ {0}
  BY <1>1, <1>2, PriceFloor DEF WellFormed
<1>4. PICK x : x = R - r1
  OBVIOUS
<1>5. x \in Int
  BY <1>4
<1>6. x * P <= r2 * Q
  <2>1. x * P = R * P - r1 * P /\ R * P \in Int /\ r1 * P \in Int /\ r2 * Q \in Int
    BY <1>3, <1>4
  <2> QED BY <1>1, <2>1
<1>7. x * n <= r2 * A
  <2>1. CASE x <= 0
    <3>1. x * n <= 0 * n
      BY <1>3, <1>5, <2>1, Monotone
    <3>2. 0 <= r2 * A /\ 0 * n = 0 /\ r2 * A \in Int /\ x * n \in Int
      BY <1>3, <1>5
    <3> QED BY <3>1, <3>2
  <2>2. CASE x > 0
    <3>0. x \in Nat
      BY <1>5, <2>2
    <3>1. (x * P) * A <= (r2 * Q) * A
      <4>1. x * P \in Int /\ r2 * Q \in Int
        BY <1>3, <1>5
      <4> QED BY <1>3, <1>6, <4>1, Monotone
    <3>2. x * (n * Q) <= x * (P * A)
      <4>1. n * Q \in Int /\ P * A \in Int
        BY <1>3
      <4> QED BY <1>3, <3>0, <4>1, Monotone
    <3>3. (x * P) * A = x * (P * A) /\ x * (n * Q) = (x * n) * Q /\ (r2 * Q) * A = (r2 * A) * Q
      BY <1>3, <1>5
    <3>4. (x * n) * Q \in Int /\ x * (P * A) \in Int /\ (r2 * A) * Q \in Int /\ x * n \in Int /\ r2 * A \in Int
      BY <1>3, <1>5
    <3>5. (x * n) * Q <= (r2 * A) * Q
      BY <3>1, <3>2, <3>3, <3>4
    <3> QED BY <1>3, <3>4, <3>5, Cancel
  <2> QED BY <1>5, <2>1, <2>2
<1>8. G * A >= n * (A - (K + R))
  BY <1>2 DEF Sold
<1>9. (G + r2) * A = G * A + r2 * A /\ n * (A - (K + r1)) = n * (A - (K + R)) + x * n
  <2>1. A - (K + r1) = (A - (K + R)) + x /\ A - (K + R) \in Int
    BY <1>3, <1>4
  <2>2. n * ((A - (K + R)) + x) = n * (A - (K + R)) + x * n
    BY <1>3, <1>5, <2>1
  <2> QED BY <1>3, <2>1, <2>2
<1>10. G * A \in Int /\ r2 * A \in Int /\ n * (A - (K + R)) \in Int /\ x * n \in Int
  BY <1>3, <1>5
<1>11. (G + r2) * A >= n * (A - (K + r1))
  BY <1>7, <1>8, <1>9, <1>10
<1> QED BY <1>2, <1>11 DEF Sold

\* A trade with an open position leaves it live, and worth no less.
LEMMA TradeKeepsWorth ==
  ASSUME Types, NEW id \in PositionId, Alive(positions[id]), NEW n \in Int, n # 0,
         NEW lp, lp = Executed(id, n)
  PROVE  /\ lp \in [state : {"Absent", "Opened", "Closed", "Withdrawn"}, r1 : Nat, r2 : Nat]
         /\ Alive(lp)
         /\ Worth(lp, PriceOf(id)) >= Worth(positions[id], PriceOf(id))
<1>1. PICK old : old = positions[id]
  OBVIOUS
<1>2. old \in [state : {"Absent", "Opened", "Closed", "Withdrawn"}, r1 : Nat, r2 : Nat]
  BY <1>1 DEF Types
<1>3. PICK P, Q : P = PriceOf(id).p /\ Q = PriceOf(id).q
  OBVIOUS
<1>4. P \in Nat \ {0} /\ Q \in Nat \ {0}
  BY <1>3, IdParts, Described, PriceFloor DEF PriceOf
<1>5. PICK sale : sale = Fill([give |-> old.r1, take |-> old.r2], n, Q, P)
  OBVIOUS
<1>6. PICK resale : resale = Fill([give |-> old.r2, take |-> old.r1], -n, P, Q)
  OBVIOUS
<1>7. PICK r1, r2 : r1 = (IF n > 0 THEN sale.give ELSE resale.take)
                    /\ r2 = (IF n > 0 THEN sale.take ELSE resale.give)
  OBVIOUS
<1>8. old.r1 \in Nat /\ old.r2 \in Nat
  BY <1>2
<1>9. r1 \in Nat /\ r2 \in Nat /\ r1 * P + r2 * Q >= old.r1 * P + old.r2 * Q
  <2>1. CASE n > 0
    <3>1. sale.give \in Nat /\ sale.take \in Nat
          /\ sale.give * P + sale.take * Q >= old.r1 * P + old.r2 * Q
      BY <1>4, <1>5, <1>8, <2>1, FillKeepsWorth
    <3> QED BY <1>7, <2>1, <3>1
  <2>2. CASE ~(n > 0)
    <3>1. -n \in Nat
      BY <2>2
    <3>2. resale.give \in Nat /\ resale.take \in Nat
          /\ resale.give * Q + resale.take * P >= old.r2 * Q + old.r1 * P
      BY <1>4, <1>6, <1>8, <3>1, FillKeepsWorth
    <3>3. r1 \in Nat /\ r2 \in Nat /\ r2 * Q + r1 * P >= old.r2 * Q + old.r1 * P
      BY <1>7, <2>2, <3>2
    <3>4. r2 * Q \in Int /\ r1 * P \in Int /\ old.r2 * Q \in Int /\ old.r1 * P \in Int
      BY <1>4, <1>8, <3>3
    <3> QED BY <3>3, <3>4
  <2> QED BY <2>1, <2>2
<1>10. lp = IF r1 = old.r1 /\ r2 = old.r2 THEN old
            ELSE [state |-> IF r1 = 0 \/ r2 = 0 THEN "Closed" ELSE "Opened", r1 |-> r1, r2 |-> r2]
  BY <1>1, <1>3, <1>5, <1>6, <1>7 DEF Executed, PriceOf
<1>11. CASE r1 = old.r1 /\ r2 = old.r2
  <2>1. lp = old
    BY <1>10, <1>11
  <2>2. Worth(old, PriceOf(id)) \in Int
    BY <1>3, <1>4, <1>8 DEF Worth
  <2> QED BY <1>1, <1>2, <2>1, <2>2
<1>12. CASE ~(r1 = old.r1 /\ r2 = old.r2)
  <2>1. lp = [state |-> IF r1 = 0 \/ r2 = 0 THEN "Closed" ELSE "Opened", r1 |-> r1, r2 |-> r2]
    BY <1>10, <1>12
  <2>2. lp.r1 = r1 /\ lp.r2 = r2 /\ Alive(lp)
    BY <2>1 DEF Alive
  <2>3. lp \in [state : {"Absent", "Opened", "Closed", "Withdrawn"}, r1 : Nat, r2 : Nat]
    BY <1>9, <2>1
  <2> QED BY <1>1, <1>3, <1>9, <2>2, <2>3 DEF Worth
<1> QED BY <1>11, <1>12

--------------------------------------------------------------------------
(* The value balance *)

\* Changing one term of a sum changes the sum by as much.
LEMMA SumShift ==
  ASSUME NEW f, NEW g, NEW S, IsFiniteSet(S), \A y \in S : f[y] \in Int /\ g[y] \in Int,
         NEW x, \A y \in S : y # x => g[y] = f[y]
  PROVE  /\ SumFunctionOnSet(f, S) \in Int
         /\ SumFunctionOnSet(g, S)
              = SumFunctionOnSet(f, S) + (IF x \in S THEN g[x] - f[x] ELSE 0)
<1>1. SumFunctionOnSet(f, S) \in Int
  BY SumType
<1>2. CASE x \in S
  <2>1. SumFunctionOnSet(g, S) = SumFunctionOnSet(f, S) + g[x] - f[x]
    BY <1>2, SumChange
  <2>2. g[x] \in Int /\ f[x] \in Int
    BY <1>2
  <2> QED BY <1>1, <1>2, <2>1, <2>2
<1>3. CASE x \notin S
  <2>1. SumFunctionOnSet(g, S) = SumFunctionOnSet(f, S)
    BY <1>3, SumSame
  <2> QED BY <1>1, <1>3, <2>1
<1> QED BY <1>2, <1>3

\* Finitely many auctions sell or buy an asset.
LEMMA SellersFinite ==
  ASSUME NEW x
  PROVE  IsFiniteSet(Sellers(x)) /\ IsFiniteSet(Buyers(x))
BY DescriptionAssumption, FS_Subset DEF Sellers, Buyers

\* The balance of an asset is a sum of naturals.
LEMMA VcbNat ==
  ASSUME Types, VcbExact
  PROVE  vcb \in [Asset -> Nat]
<1>1. ASSUME NEW x \in Asset PROVE vcb[x] \in Nat
  <2> DEFINE ins == [a \in Auction |-> auction[a].input_reserves]
             outs == [a \in Auction |-> auction[a].output_reserves]
  <2>1. \A a \in Auction : ins[a] \in Nat /\ outs[a] \in Nat /\ stranded[a] \in Nat
    BY DEF Types
  <2>2. Sellers(x) \subseteq Auction /\ Buyers(x) \subseteq Auction
    BY DEF Sellers, Buyers
  <2>3. vcb[x] = (SumFunctionOnSet(ins, Sellers(x)) + SumFunctionOnSet(outs, Buyers(x)))
                 + SumFunctionOnSet(stranded, Sellers(x))
    BY DEF VcbExact, ReservesOf, StrandedOf
  <2> HIDE DEF ins, outs
  <2>4. /\ SumFunctionOnSet(ins, Sellers(x)) \in Nat
        /\ SumFunctionOnSet(outs, Buyers(x)) \in Nat
        /\ SumFunctionOnSet(stranded, Sellers(x)) \in Nat
    BY <2>1, <2>2, SellersFinite, SumNat
  <2> QED BY <2>3, <2>4
<1> QED BY <1>1 DEF Types

Delta(new, old) == new - old

\* The balance moves as the reserves of auction a and what is stranded do.
BalanceMoves(a) ==
  \A x \in Asset :
    vcb'[x] = vcb[x]
      + (IF x = Description[a].input
         THEN Delta(auction'[a].input_reserves, auction[a].input_reserves)
              + Delta(stranded'[a], stranded[a]) ELSE 0)
      + (IF x = Description[a].output
         THEN Delta(auction'[a].output_reserves, auction[a].output_reserves) ELSE 0)

\* Nothing changes but auction a and its positions.
OnlyAuction(a) ==
  /\ \A b \in Auction : b # a =>
       auction'[b] = auction[b] /\ paid'[b] = paid[b] /\ stranded'[b] = stranded[b]
  /\ \A id \in PositionId : id[1] # a => positions'[id] = positions[id]
  /\ \A b \in Auction : b # a => (b \in abandoned' <=> b \in abandoned)
  /\ height' = height

\* The balance stays exact if it moves by what the one auction that changes
\* takes or gives.
LEMMA VcbStep ==
  ASSUME Types, Types', VcbExact, NEW a \in Auction, OnlyAuction(a), BalanceMoves(a)
  PROVE  VcbExact'
<1>1. SUFFICES ASSUME NEW x \in Asset
               PROVE  vcb'[x] = ReservesOf(x)' + StrandedOf(x)'
  BY DEF VcbExact
<1>2. PICK ins : ins = [b \in Auction |-> auction[b].input_reserves]
  OBVIOUS
<1>3. PICK jns : jns = [b \in Auction |-> auction'[b].input_reserves]
  OBVIOUS
<1>4. PICK outs : outs = [b \in Auction |-> auction[b].output_reserves]
  OBVIOUS
<1>5. PICK puts : puts = [b \in Auction |-> auction'[b].output_reserves]
  OBVIOUS
<1>6. PICK st : st = stranded
  OBVIOUS
<1>7. PICK tt : tt = stranded'
  OBVIOUS
<1>8. \A b \in Auction : ins[b] \in Nat /\ outs[b] \in Nat /\ st[b] \in Nat
                         /\ jns[b] \in Nat /\ puts[b] \in Nat /\ tt[b] \in Nat
  <2>1. \A b \in Auction : ins[b] \in Nat /\ outs[b] \in Nat /\ st[b] \in Nat
    BY <1>2, <1>4, <1>6 DEF Types
  <2>2. \A b \in Auction : jns[b] \in Nat /\ puts[b] \in Nat /\ tt[b] \in Nat
    BY <1>3, <1>5, <1>7 DEF Types
  <2> QED BY <2>1, <2>2
<1>9. \A b \in Auction : b # a => jns[b] = ins[b] /\ puts[b] = outs[b] /\ tt[b] = st[b]
  BY <1>2, <1>3, <1>4, <1>5, <1>6, <1>7 DEF OnlyAuction
<1>10. vcb[x] = (SumFunctionOnSet(ins, Sellers(x)) + SumFunctionOnSet(outs, Buyers(x)))
                + SumFunctionOnSet(st, Sellers(x))
  BY <1>2, <1>4, <1>6 DEF VcbExact, ReservesOf, StrandedOf
<1>11. ReservesOf(x)' + StrandedOf(x)'
         = (SumFunctionOnSet(jns, Sellers(x)) + SumFunctionOnSet(puts, Buyers(x)))
           + SumFunctionOnSet(tt, Sellers(x))
  BY <1>3, <1>5, <1>7 DEF ReservesOf, StrandedOf, Sellers, Buyers
<1>12. Sellers(x) \subseteq Auction /\ Buyers(x) \subseteq Auction
  BY DEF Sellers, Buyers
<1>13. a \in Sellers(x) <=> x = Description[a].input
  BY DEF Sellers
<1>14. a \in Buyers(x) <=> x = Description[a].output
  BY DEF Buyers
<1>15. vcb'[x] = vcb[x]
         + (IF a \in Sellers(x) THEN (jns[a] - ins[a]) + (tt[a] - st[a]) ELSE 0)
         + (IF a \in Buyers(x) THEN puts[a] - outs[a] ELSE 0)
  BY <1>2, <1>3, <1>4, <1>5, <1>6, <1>7, <1>13, <1>14 DEF BalanceMoves, Delta
<1>16. PICK i, j, o, p, s, t :
         /\ i = SumFunctionOnSet(ins, Sellers(x)) /\ j = SumFunctionOnSet(jns, Sellers(x))
         /\ o = SumFunctionOnSet(outs, Buyers(x)) /\ p = SumFunctionOnSet(puts, Buyers(x))
         /\ s = SumFunctionOnSet(st, Sellers(x)) /\ t = SumFunctionOnSet(tt, Sellers(x))
  OBVIOUS
<1>17. i \in Int /\ j = i + (IF a \in Sellers(x) THEN jns[a] - ins[a] ELSE 0)
  <2>1. \A y \in Sellers(x) : ins[y] \in Int /\ jns[y] \in Int
    BY <1>8, <1>12
  <2>2. \A y \in Sellers(x) : y # a => jns[y] = ins[y]
    BY <1>9, <1>12
  <2> QED BY <1>16, <2>1, <2>2, SellersFinite, SumShift
<1>18. s \in Int /\ t = s + (IF a \in Sellers(x) THEN tt[a] - st[a] ELSE 0)
  <2>1. \A y \in Sellers(x) : st[y] \in Int /\ tt[y] \in Int
    BY <1>8, <1>12
  <2>2. \A y \in Sellers(x) : y # a => tt[y] = st[y]
    BY <1>9, <1>12
  <2> QED BY <1>16, <2>1, <2>2, SellersFinite, SumShift
<1>19. o \in Int /\ p = o + (IF a \in Buyers(x) THEN puts[a] - outs[a] ELSE 0)
  <2>1. \A y \in Buyers(x) : outs[y] \in Int /\ puts[y] \in Int
    BY <1>8, <1>12
  <2>2. \A y \in Buyers(x) : y # a => puts[y] = outs[y]
    BY <1>9, <1>12
  <2> QED BY <1>16, <2>1, <2>2, SellersFinite, SumShift
<1>20. jns[a] \in Int /\ ins[a] \in Int /\ tt[a] \in Int /\ st[a] \in Int /\ puts[a] \in Int /\ outs[a] \in Int
  BY <1>8
<1>21. vcb[x] = (i + o) + s /\ ReservesOf(x)' + StrandedOf(x)' = (j + p) + t
  BY <1>10, <1>11, <1>16
<1>22. vcb'[x] = (j + p) + t
  BY <1>15, <1>17, <1>18, <1>19, <1>20, <1>21
<1> QED BY <1>21, <1>22

--------------------------------------------------------------------------
(* Steps of one auction *)

\* The invariant of an auction after a step, from that of its new state.
LEMMA NextAuction ==
  ASSUME NEW a \in Auction, NEW s, NEW ps, NEW h, NEW out, NEW x, NEW left,
         s = auction'[a], ps = positions', h = height', out = paid'[a], x = stranded'[a],
         left = (a \in abandoned'),
         LifeInv(a, s, ps, left), WaitInv(a, s, ps, h), PriceInv(a, s, ps, out, x)
  PROVE  AuctionInv(a)'
<1>1. /\ LifeInv(a, auction'[a], positions', a \in abandoned')
      /\ WaitInv(a, auction'[a], positions', height')
      /\ PriceInv(a, auction'[a], positions', paid'[a], stranded'[a])
  OBVIOUS
<1> QED BY <1>1 DEF AuctionInv, LifeInv, WaitInv, PriceInv, PositionsOf, Alive, Holds

\* The other auctions keep their invariant.
LEMMA OtherKeeps ==
  ASSUME NEW b \in Auction, NEW s, NEW ps, NEW qs, NEW h, NEW out, NEW x, NEW left,
         LifeInv(b, s, ps, left), WaitInv(b, s, ps, h), PriceInv(b, s, ps, out, x),
         \A id \in PositionsOf(b) : qs[id] = ps[id]
  PROVE  LifeInv(b, s, qs, left) /\ WaitInv(b, s, qs, h) /\ PriceInv(b, s, qs, out, x)
<1>1. LifeInv(b, s, qs, left)
  BY DEF LifeInv
<1>2. WaitInv(b, s, qs, h)
  BY DEF WaitInv
<1>3. \A id \in PositionsOf(b), R \in Nat : Holds(id, ps, R) => Holds(id, qs, R)
  BY DEF Holds
<1>4. PriceInv(b, s, qs, out, x)
  BY <1>3 DEF PriceInv
<1> QED BY <1>1, <1>2, <1>4

\* An action on one auction keeps the invariant if it keeps it for that
\* auction.
LEMMA OneStep ==
  ASSUME IInv, NEW a \in Auction, OnlyAuction(a), BalanceMoves(a),
         Types', AuctionInv(a)', OccupiedInv', TriggersInv'
  PROVE  IInv'
<1>1. ASSUME NEW b \in Auction, b # a PROVE AuctionInv(b)'
  <2>1. PICK left : left = (b \in abandoned)
    OBVIOUS
  <2>2. /\ LifeInv(b, auction[b], positions, left) /\ WaitInv(b, auction[b], positions, height)
        /\ PriceInv(b, auction[b], positions, paid[b], stranded[b])
    BY <2>1 DEF IInv, AuctionInv
  <2>3. PICK qs : qs = positions'
    OBVIOUS
  <2>4. \A id \in PositionsOf(b) : qs[id] = positions[id]
    BY <1>1, <2>3 DEF OnlyAuction, PositionsOf
  <2>5. /\ LifeInv(b, auction[b], qs, left) /\ WaitInv(b, auction[b], qs, height)
        /\ PriceInv(b, auction[b], qs, paid[b], stranded[b])
    BY <2>2, <2>4, OtherKeeps
  <2>6. auction'[b] = auction[b] /\ paid'[b] = paid[b] /\ stranded'[b] = stranded[b] /\ height' = height
    BY <1>1 DEF OnlyAuction
  <2>7. left = (b \in abandoned')
    BY <1>1, <2>1 DEF OnlyAuction
  <2> QED BY <2>3, <2>5, <2>6, <2>7, NextAuction
<1>2. \A b \in Auction : AuctionInv(b)'
  BY <1>1
<1>3. VcbExact'
  BY VcbStep DEF IInv
<1> QED BY <1>2, <1>3 DEF IInv

PositionType == [state : {"Absent", "Opened", "Closed", "Withdrawn"}, r1 : Nat, r2 : Nat]

\* close_position_by_id and withdraw_position leave an auction with nothing in
\* the DEX, and touch no position but its own.
LEMMA Recovery ==
  ASSUME Types, NEW a \in Auction, LifeInv(a, auction[a], positions, FALSE),
         NEW ps, ps = PositionsRecovered(a)
  PROVE  /\ ps \in [PositionId -> PositionType]
         /\ \A id \in PositionId : id[1] # a => ps[id] = positions[id]
         /\ \A id \in PositionsOf(a) :
              /\ ~ Alive(ps[id]) /\ ps[id].r1 = 0 /\ ps[id].r2 = 0
              /\ ps[id].state = "Absent" <=> positions[id].state = "Absent"
<1>1. positions \in [PositionId -> PositionType]
  BY DEF Types, PositionType
<1>2. CASE auction[a].position = NoPosition
  <2>1. ps = positions
    BY <1>2 DEF PositionsRecovered
  <2>2. ASSUME NEW id \in PositionsOf(a) PROVE ~ Alive(ps[id]) /\ ps[id].r1 = 0 /\ ps[id].r2 = 0
    <3>1. id # NoPosition
      BY AbsentAssumption DEF PositionsOf
    <3> QED BY <1>2, <2>1, <3>1 DEF LifeInv
  <2> QED BY <1>1, <2>1, <2>2
<1>3. CASE auction[a].position # NoPosition
  <2>1. PICK cur : cur = auction[a].position
    OBVIOUS
  <2>2. PICK lp : lp = [state |-> "Withdrawn", r1 |-> 0, r2 |-> 0]
    OBVIOUS
  <2>3. ps = [positions EXCEPT ![cur] = lp]
    BY <1>3, <2>1, <2>2 DEF PositionsRecovered
  <2>4. cur \in PositionsOf(a) /\ cur \in PositionId /\ cur[1] = a /\ Alive(positions[cur])
    BY <1>3, <2>1 DEF LifeInv, PositionsOf
  <2>5. lp \in PositionType /\ ~ Alive(lp) /\ lp.r1 = 0 /\ lp.r2 = 0 /\ lp.state # "Absent"
    BY <2>2 DEF PositionType, Alive
  <2>6. ps \in [PositionId -> PositionType] /\ ps[cur] = lp
        /\ \A id \in PositionId : id # cur => ps[id] = positions[id]
    BY <1>1, <2>3, <2>4, <2>5
  <2>7. positions[cur].state # "Absent"
    BY <2>4 DEF Alive
  <2>8. ASSUME NEW id \in PositionsOf(a), id # cur
        PROVE  ps[id] = positions[id] /\ ~ Alive(ps[id]) /\ ps[id].r1 = 0 /\ ps[id].r2 = 0
    <3>1. id \in PositionId
      BY DEF PositionsOf
    <3> QED BY <2>1, <2>6, <2>8, <3>1 DEF LifeInv
  <2>9. ASSUME NEW id \in PositionsOf(a)
        PROVE  /\ ~ Alive(ps[id]) /\ ps[id].r1 = 0 /\ ps[id].r2 = 0
               /\ ps[id].state = "Absent" <=> positions[id].state = "Absent"
    <3>1. CASE id = cur
      BY <2>5, <2>6, <2>7, <3>1
    <3>2. CASE id # cur
      BY <2>8, <3>2
    <3> QED BY <3>1, <3>2
  <2> QED BY <2>4, <2>6, <2>9
<1> QED BY <1>2, <1>3

\* Once the live position of an auction is recovered, the seller has the reserve
\* price for everything sold.
LEMMA HeldSold ==
  ASSUME Types, NEW a \in Auction, AuctionInv(a), auction[a].sequence >= 0,
         NEW id \in PositionsOf(a), Alive(positions[id])
  PROVE  /\ positions[id].r1 \in Nat /\ positions[id].r2 \in Nat
         /\ Sold(Description[a],
                 (auction[a].input_reserves + positions[id].r1) + paid[a].input + stranded[a],
                 (auction[a].output_reserves + positions[id].r2) + paid[a].output)
<1>1. PICK s : s = auction[a]
  OBVIOUS
<1>2. PICK pi, po, x : pi = paid[a].input /\ po = paid[a].output /\ x = stranded[a]
  OBVIOUS
<1>3. s.input_reserves \in Nat /\ s.output_reserves \in Nat /\ pi \in Nat /\ po \in Nat /\ x \in Nat
  BY <1>1, <1>2 DEF Types
<1>4. PICK R \in Nat :
        /\ Sold(Description[a], s.input_reserves + pi + x + R, s.output_reserves + po)
        /\ R = 0 \/ \E j \in PositionsOf(a) : Holds(j, positions, R)
  BY <1>1, <1>2 DEF AuctionInv, PriceInv
<1>5. id \in PositionId /\ id[1] = a
  BY DEF PositionsOf
<1>6. PICK r1, r2 : r1 = positions[id].r1 /\ r2 = positions[id].r2
  OBVIOUS
<1>7. r1 \in Nat /\ r2 \in Nat
  BY <1>5, <1>6 DEF Types
<1>8. PriceOf(id) = Price(Description[a], id[2]) /\ id[2] \in 0 .. Description[a].step_count - 1
  BY <1>5, IdParts DEF PriceOf
<1>9. PICK P, Q : P = Price(Description[a], id[2]).p /\ Q = Price(Description[a], id[2]).q
  OBVIOUS
<1>10. P \in Nat /\ Q \in Nat
  BY <1>8, <1>9, Described, PriceFloor
<1>11. r1 * P + r2 * Q >= R * P
  <2>1. CASE R = 0
    <3>1. r1 * P \in Nat /\ r2 * Q \in Nat /\ R * P = 0
      BY <1>7, <1>10, <2>1
    <3> QED BY <3>1
  <2>2. CASE R # 0
    <3>1. PICK j \in PositionsOf(a) : Holds(j, positions, R)
      BY <1>4, <2>2
    <3>2. j = id
      BY <3>1 DEF AuctionInv, LifeInv, Holds
    <3>3. Worth(positions[id], PriceOf(id)) >= R * PriceOf(id).p
      BY <3>1, <3>2 DEF Holds
    <3> QED BY <1>6, <1>8, <1>9, <3>3 DEF Worth
  <2> QED BY <2>1, <2>2
<1>12. PICK K, G : K = s.input_reserves + pi + x /\ G = s.output_reserves + po
  OBVIOUS
<1>13. K \in Int /\ G \in Int /\ Sold(Description[a], K + R, G)
  BY <1>3, <1>4, <1>12
<1>14. Sold(Description[a], K + r1, G + r2)
  BY <1>7, <1>8, <1>9, <1>11, <1>13, Described, RecoverSold
<1>15. K + r1 = (s.input_reserves + r1) + pi + x /\ G + r2 = (s.output_reserves + r2) + po
  BY <1>3, <1>7, <1>12
<1>16. Sold(Description[a], (s.input_reserves + r1) + pi + x, (s.output_reserves + r2) + po)
  BY <1>14, <1>15
<1> QED BY <1>1, <1>2, <1>6, <1>7, <1>16

\* So it has when no position is live.
LEMMA NoneHeldSold ==
  ASSUME Types, NEW a \in Auction, AuctionInv(a), auction[a].sequence >= 0,
         \A id \in PositionsOf(a) : ~ Alive(positions[id])
  PROVE  Sold(Description[a],
              auction[a].input_reserves + paid[a].input + stranded[a],
              auction[a].output_reserves + paid[a].output)
<1>1. PICK k, g : k = auction[a].input_reserves + paid[a].input + stranded[a]
                  /\ g = auction[a].output_reserves + paid[a].output
  OBVIOUS
<1>2. k \in Int
  BY <1>1 DEF Types
<1>3. PICK R \in Nat : Sold(Description[a], k + R, g)
                       /\ (R = 0 \/ \E j \in PositionsOf(a) : Holds(j, positions, R))
  BY <1>1 DEF AuctionInv, PriceInv
<1>4. R = 0
  BY <1>3 DEF Holds
<1>5. k + R = k
  BY <1>2, <1>4
<1> QED BY <1>1, <1>3, <1>5

\* What the recovery brings in, and that the seller then has the reserve price
\* for everything sold.
LEMMA InflowSold ==
  ASSUME Types, NEW a \in Auction, AuctionInv(a), auction[a].sequence >= 0, a \notin abandoned
  PROVE  /\ Inflow(a).r1 \in Nat /\ Inflow(a).r2 \in Nat
         /\ Sold(Description[a],
                 (auction[a].input_reserves + Inflow(a).r1) + paid[a].input + stranded[a],
                 (auction[a].output_reserves + Inflow(a).r2) + paid[a].output)
<1>1. PICK cur : cur = auction[a].position
  OBVIOUS
<1>2. LifeInv(a, auction[a], positions, FALSE)
  BY DEF AuctionInv, LifeInv
<1>3. CASE cur = NoPosition
  <2>1. Inflow(a).r1 = 0 /\ Inflow(a).r2 = 0
    BY <1>1, <1>3 DEF Inflow
  <2>2. \A id \in PositionsOf(a) : ~ Alive(positions[id])
    BY <1>1, <1>2, <1>3, AbsentAssumption DEF LifeInv, PositionsOf
  <2>3. auction[a].input_reserves + 0 = auction[a].input_reserves
        /\ auction[a].output_reserves + 0 = auction[a].output_reserves
    BY DEF Types
  <2>4. Sold(Description[a],
             auction[a].input_reserves + paid[a].input + stranded[a],
             auction[a].output_reserves + paid[a].output)
    BY <2>2, NoneHeldSold
  <2> QED BY <2>1, <2>3, <2>4
<1>4. CASE cur # NoPosition
  <2>1. cur \in PositionsOf(a) /\ Alive(positions[cur])
    BY <1>1, <1>2, <1>4 DEF LifeInv
  <2>2. Inflow(a).r1 = positions[cur].r1 /\ Inflow(a).r2 = positions[cur].r2
    BY <1>1, <1>4 DEF Inflow
  <2> QED BY <2>1, <2>2, HeldSold
<1> QED BY <1>3, <1>4

AuctionType ==
  [sequence : Int, position : PositionId \cup {NoPosition},
   next_trigger : Nat, input_reserves : Nat, output_reserves : Nat]

\* An auction a that is given the new state s.
LEMMA AuctionUpdate ==
  ASSUME Types, NEW a \in Auction, NEW s \in AuctionType, auction' = [auction EXCEPT ![a] = s]
  PROVE  /\ auction' \in [Auction -> AuctionType]
         /\ auction'[a] = s
         /\ \A b \in Auction : b # a => auction'[b] = auction[b]
BY DEF Types, AuctionType

\* An entry of another auction stays as it is, whatever happens to auction a.
OthersKept(a) ==
  \A b \in Auction : b # a =>
    auction'[b] = auction[b] /\ (b \in abandoned' <=> b \in abandoned)

\* The trigger entries when those of auction a are replaced: by none when it is
\* not open, by the one it records when it is.
LEMMA TriggersReplaced ==
  ASSUME TriggersInv, NEW a \in Auction, NEW new \in SUBSET ({a} \X Nat),
         OthersKept(a), height' = height,
         triggers' = {t \in triggers : t[1] # a} \cup new,
         \A t \in new : /\ auction'[a].sequence = 0 /\ t[2] = auction'[a].next_trigger
                        /\ t[2] >= height /\ t[2] <= Description[a].end_height,
         auction'[a].sequence = 0 => <<a, auction'[a].next_trigger>> \in new
  PROVE  TriggersInv'
<1>1. PICK old, now : old = triggers /\ now = triggers'
  OBVIOUS
<1>2. old \subseteq Auction \X Nat /\ now = {t \in old : t[1] # a} \cup new
  BY <1>1 DEF TriggersInv
<1>3. now \subseteq Auction \X Nat
  BY <1>2
<1>4. ASSUME NEW b \in Auction, auction'[b].sequence = 0
      PROVE  <<b, auction'[b].next_trigger>> \in now
  <2>1. CASE b = a
    BY <1>2, <1>4, <2>1
  <2>2. CASE b # a
    <3>1. auction'[b] = auction[b]
      BY <2>2 DEF OthersKept
    <3>2. <<b, auction[b].next_trigger>> \in old
      BY <1>1, <1>4, <3>1 DEF TriggersInv
    <3> QED BY <1>2, <2>2, <3>1, <3>2
  <2> QED BY <2>1, <2>2
<1>5. ASSUME NEW t \in now
      PROVE  /\ \/ auction'[t[1]].sequence = 0 /\ t[2] = auction'[t[1]].next_trigger
                \/ t[1] \in abandoned'
             /\ t[2] >= height /\ t[2] <= Description[t[1]].end_height
             /\ \A u \in now : u[1] = t[1] => u = t
  <2>1. CASE t \in new
    <3>1. t[1] = a /\ t = <<a, t[2]>>
      BY <2>1
    <3>2. t[2] = auction'[a].next_trigger /\ auction'[a].sequence = 0
      BY <2>1
    <3>3. ASSUME NEW u \in now, u[1] = a PROVE u = t
      <4>1. u \in new
        BY <1>2, <3>3
      <4>2. u = <<a, u[2]>> /\ u[2] = auction'[a].next_trigger
        BY <4>1
      <4> QED BY <3>1, <3>2, <4>2
    <3> QED BY <2>1, <3>1, <3>2, <3>3
  <2>2. CASE t \notin new
    <3>1. t \in old /\ t[1] # a /\ t[1] \in Auction
      BY <1>2, <2>2
    <3>2. TriggerInv(t)
      BY <1>1, <3>1 DEF TriggersInv
    <3>3. auction'[t[1]] = auction[t[1]] /\ (t[1] \in abandoned' <=> t[1] \in abandoned)
      BY <3>1 DEF OthersKept
    <3>4. ASSUME NEW u \in now, u[1] = t[1] PROVE u = t
      <4>1. u \in old
        BY <1>2, <3>1, <3>4
      <4> QED BY <1>1, <3>2, <3>4, <4>1 DEF TriggerInv
    <3> QED BY <3>2, <3>3, <3>4 DEF TriggerInv
  <2> QED BY <2>1, <2>2
<1> QED BY <1>1, <1>3, <1>4, <1>5 DEF TriggersInv, TriggerInv

\* Without its own entry, an auction has none.
LEMMA OnlyEntry ==
  ASSUME TriggersInv, NEW a \in Auction, NEW h, <<a, h>> \in triggers
  PROVE  triggers \ {<<a, h>>} = {t \in triggers : t[1] # a}
<1>1. \A t \in triggers : t[1] = a => t = <<a, h>>
  BY DEF TriggersInv, TriggerInv
<1> QED BY <1>1

\* The trigger entries when auction a closes.
LEMMA TriggersClosed ==
  ASSUME TriggersInv, NEW a \in Auction, NEW h, <<a, h>> \in triggers,
         OthersKept(a), height' = height, auction'[a].sequence # 0,
         triggers' = triggers \ {<<a, h>>}
  PROVE  TriggersInv'
<1>1. PICK new : new = {}
  OBVIOUS
<1>2. new \in SUBSET ({a} \X Nat) /\ triggers' = {t \in triggers : t[1] # a} \cup new
  BY <1>1, OnlyEntry
<1>3. \A t \in new : /\ auction'[a].sequence = 0 /\ t[2] = auction'[a].next_trigger
                     /\ t[2] >= height /\ t[2] <= Description[a].end_height
  BY <1>1
<1> QED BY <1>2, <1>3, TriggersReplaced

\* The trigger entries when auction a is open with a new trigger.
LEMMA TriggersMoved ==
  ASSUME TriggersInv, NEW a \in Auction, NEW next \in Nat,
         OthersKept(a), height' = height,
         auction'[a].sequence = 0, auction'[a].next_trigger = next,
         next >= height, next <= Description[a].end_height,
         triggers' = {t \in triggers : t[1] # a} \cup {<<a, next>>}
  PROVE  TriggersInv'
<1>1. PICK new : new = {<<a, next>>}
  OBVIOUS
<1>2. new \in SUBSET ({a} \X Nat) /\ triggers' = {t \in triggers : t[1] # a} \cup new
  BY <1>1
<1>3. \A t \in new : /\ auction'[a].sequence = 0 /\ t[2] = auction'[a].next_trigger
                     /\ t[2] >= height /\ t[2] <= Description[a].end_height
  BY <1>1
<1>4. <<a, auction'[a].next_trigger>> \in new
  BY <1>1
<1> QED BY <1>2, <1>3, <1>4, TriggersReplaced

\* The trigger entries when auction a is withdrawn: if it was open, its entry is
\* left behind.
LEMMA TriggersKept ==
  ASSUME TriggersInv, NEW a \in Auction, OthersKept(a), height' = height, triggers' = triggers,
         auction'[a].sequence # 0, auction[a].sequence = 0 \/ a \in abandoned => a \in abandoned'
  PROVE  TriggersInv'
<1>1. PICK old : old = triggers
  OBVIOUS
<1>2. old \subseteq Auction \X Nat /\ triggers' = old
  BY <1>1 DEF TriggersInv
<1>3. ASSUME NEW b \in Auction, auction'[b].sequence = 0
      PROVE  <<b, auction'[b].next_trigger>> \in old
  BY <1>1, <1>3 DEF OthersKept, TriggersInv
<1>4. ASSUME NEW t \in old
      PROVE  /\ \/ auction'[t[1]].sequence = 0 /\ t[2] = auction'[t[1]].next_trigger
                \/ t[1] \in abandoned'
             /\ t[2] >= height /\ t[2] <= Description[t[1]].end_height
             /\ \A u \in old : u[1] = t[1] => u = t
  <2>1. TriggerInv(t) /\ t[1] \in Auction
    BY <1>1, <1>2 DEF TriggersInv
  <2>2. \/ auction'[t[1]].sequence = 0 /\ t[2] = auction'[t[1]].next_trigger
        \/ t[1] \in abandoned'
    <3>1. CASE t[1] = a
      BY <2>1, <3>1 DEF TriggerInv
    <3>2. CASE t[1] # a
      BY <2>1, <3>2 DEF TriggerInv, OthersKept
    <3> QED BY <3>1, <3>2
  <2> QED BY <1>1, <2>1, <2>2 DEF TriggerInv
<1> QED BY <1>2, <1>3, <1>4 DEF TriggersInv, TriggerInv

\* Steps that touch neither auctions nor entries keep them exact.
LEMMA TriggersUntouched ==
  ASSUME TriggersInv, UNCHANGED <<auction, triggers, abandoned, height>>
  PROVE  TriggersInv'
BY DEF TriggersInv, TriggerInv

\* The two assets of an auction are different.
LEMMA Assets ==
  ASSUME NEW a \in Auction
  PROVE  /\ Description[a].input \in Asset /\ Description[a].output \in Asset
         /\ Description[a].input # Description[a].output
BY Described DEF WellFormed

\* What withdrawing a position adds to the balance.
LEMMA RecoveredBalance ==
  ASSUME Types, NEW a \in Auction, NEW r1 \in Nat, NEW r2 \in Nat,
         Inflow(a).r1 = r1, Inflow(a).r2 = r2, NEW w, w = VcbRecovered(a)
  PROVE  /\ w \in [Asset -> Int]
         /\ \A x \in Asset : w[x] = vcb[x] + (IF x = Description[a].input THEN r1 ELSE 0)
                                           + (IF x = Description[a].output THEN r2 ELSE 0)
<1>1. PICK i, o : i = Description[a].input /\ o = Description[a].output
  OBVIOUS
<1>2. i \in Asset /\ o \in Asset /\ i # o
  BY <1>1, Assets
<1>3. vcb \in [Asset -> Int]
  BY DEF Types
<1>4. PICK v : v = [vcb EXCEPT ![i] = @ + r1]
  OBVIOUS
<1>5. w = [v EXCEPT ![o] = @ + r2]
  BY <1>1, <1>4 DEF VcbRecovered, Credit
<1>6. v \in [Asset -> Int] /\ v[i] = vcb[i] + r1 /\ \A x \in Asset : x # i => v[x] = vcb[x]
  BY <1>2, <1>3, <1>4
<1>7. w \in [Asset -> Int] /\ w[o] = v[o] + r2 /\ \A x \in Asset : x # o => w[x] = v[x]
  BY <1>2, <1>5, <1>6
<1> QED BY <1>1, <1>2, <1>3, <1>6, <1>7

\* execute_dutch_auction when an auction has ended, and end_auction.
LEMMA Closing ==
  ASSUME IInv, NEW a \in Auction, auction[a].sequence = 0,
         auction' = [auction EXCEPT ![a] =
           [sequence |-> 1, position |-> NoPosition, next_trigger |-> 0,
            input_reserves |-> auction[a].input_reserves + Inflow(a).r1,
            output_reserves |-> auction[a].output_reserves + Inflow(a).r2]],
         vcb' = VcbRecovered(a), positions' = PositionsRecovered(a),
         triggers' = triggers \ {<<a, auction[a].next_trigger>>},
         nft' \in [Auction -> Int],
         UNCHANGED <<occupied, paid, dexEnabled, height, phase, stranded, abandoned>>
  PROVE  IInv'
<1> USE DEF IInv
<1>0. a \notin abandoned /\ abandoned' = abandoned /\ LifeInv(a, auction[a], positions, FALSE)
  BY DEF AuctionInv, LifeInv
<1>1. PICK r1, r2 : r1 = Inflow(a).r1 /\ r2 = Inflow(a).r2
  OBVIOUS
<1>2. PICK i, o : i = auction[a].input_reserves /\ o = auction[a].output_reserves
  OBVIOUS
<1>3. PICK s : s = [sequence |-> 1, position |-> NoPosition, next_trigger |-> 0,
                    input_reserves |-> i + r1, output_reserves |-> o + r2]
  OBVIOUS
<1>4. PICK ps : ps = positions'
  OBVIOUS
<1>5. r1 \in Nat /\ r2 \in Nat
      /\ Sold(Description[a], (i + r1) + paid[a].input + stranded[a], (o + r2) + paid[a].output)
  BY <1>0, <1>1, <1>2, InflowSold
<1>6. i \in Nat /\ o \in Nat /\ auction[a] \in AuctionType
  BY <1>2 DEF Types, AuctionType
<1>7. s \in AuctionType /\ s.sequence = 1 /\ s.position = NoPosition
      /\ s.input_reserves = i + r1 /\ s.output_reserves = o + r2
  BY <1>3, <1>5, <1>6 DEF AuctionType
<1>8. auction' = [auction EXCEPT ![a] = s]
  BY <1>1, <1>2, <1>3
<1>9. auction' \in [Auction -> AuctionType] /\ auction'[a] = s
      /\ \A b \in Auction : b # a => auction'[b] = auction[b]
  BY <1>7, <1>8, AuctionUpdate
<1>10. /\ ps \in [PositionId -> PositionType]
       /\ \A id \in PositionId : id[1] # a => ps[id] = positions[id]
       /\ \A id \in PositionsOf(a) :
            /\ ~ Alive(ps[id]) /\ ps[id].r1 = 0 /\ ps[id].r2 = 0
            /\ ps[id].state = "Absent" <=> positions[id].state = "Absent"
  <2>1. Types /\ LifeInv(a, auction[a], positions, FALSE) /\ ps = PositionsRecovered(a)
    BY <1>0, <1>4
  <2> QED BY <2>1, Recovery
<1>11. /\ vcb' \in [Asset -> Int]
       /\ \A x \in Asset : vcb'[x] = vcb[x] + (IF x = Description[a].input THEN r1 ELSE 0)
                                            + (IF x = Description[a].output THEN r2 ELSE 0)
  BY <1>1, <1>5, RecoveredBalance
<1>12. Types'
  BY <1>0, <1>4, <1>9, <1>10, <1>11 DEF Types, AuctionType, PositionType
<1>13. OnlyAuction(a)
  BY <1>0, <1>4, <1>9, <1>10 DEF OnlyAuction
<1>14. BalanceMoves(a)
  <2>1. Delta(auction'[a].input_reserves, auction[a].input_reserves) = r1
        /\ Delta(auction'[a].output_reserves, auction[a].output_reserves) = r2
        /\ Delta(stranded'[a], stranded[a]) = 0
    <3>1. stranded[a] \in Nat /\ stranded'[a] = stranded[a]
      BY DEF Types
    <3> QED BY <1>2, <1>5, <1>6, <1>7, <1>9, <3>1 DEF Delta
  <2>2. r1 + 0 = r1
    BY <1>5
  <2> QED BY <1>11, <2>1, <2>2 DEF BalanceMoves
<1>15. AuctionInv(a)'
  <2>1. LifeInv(a, s, ps, FALSE)
    BY <1>7, <1>10 DEF LifeInv
  <2>2. WaitInv(a, s, ps, height)
    BY <1>7 DEF WaitInv
  <2>3. PriceInv(a, s, ps, paid[a], stranded[a])
    <3>1. stranded[a] \in Nat /\ paid[a].input \in Nat
      BY DEF Types
    <3>2. (i + r1) + paid[a].input + stranded[a] = s.input_reserves + paid[a].input + stranded[a] + 0
      BY <1>5, <1>6, <1>7, <3>1
    <3>3. Sold(Description[a], s.input_reserves + paid[a].input + stranded[a] + 0,
               s.output_reserves + paid[a].output)
      BY <1>5, <1>7, <3>2
    <3> QED BY <1>7, <3>3 DEF PriceInv
  <2>4. FALSE = (a \in abandoned')
    BY <1>0
  <2> QED BY <1>4, <1>9, <2>1, <2>2, <2>3, <2>4, NextAuction
<1>16. OccupiedInv'
  <2>1. ASSUME NEW id \in occupied PROVE ps[id].state = "Absent"
    <3>1. id \in PositionId /\ positions[id].state = "Absent"
      BY DEF OccupiedInv
    <3>2. CASE id[1] = a
      BY <1>10, <3>1, <3>2 DEF PositionsOf
    <3>3. CASE id[1] # a
      BY <1>10, <3>1, <3>3
    <3> QED BY <3>2, <3>3
  <2> QED BY <1>4, <2>1 DEF OccupiedInv
<1>17. TriggersInv'
  <2>1. <<a, auction[a].next_trigger>> \in triggers
    BY DEF TriggersInv
  <2>2. OthersKept(a) /\ auction'[a].sequence # 0
    BY <1>0, <1>7, <1>9 DEF OthersKept
  <2> QED BY <2>1, <2>2, TriggersClosed
<1> QED BY <1>12, <1>13, <1>14, <1>15, <1>16, <1>17, OneStep

\* Scheduling an auction keeps the invariant.
LEMMA StepSchedule ==
  ASSUME IInv, NEW a \in Auction, Schedule(a)
  PROVE  IInv'
<1> USE DEF IInv
<1>1. PICK d : d = Description[a]
  OBVIOUS
<1>2. WellFormed(d)
  BY <1>1, Described
<1>3. d.amount \in Nat /\ d.start_height \in Nat /\ d.min_output \in Nat /\ 1 \in 1 .. d.step_count
  BY <1>2 DEF WellFormed
<1>4. height \in Nat
  BY DEF Types
<1>5. PICK next : next = NextTriggerHeight(d, height)
  OBVIOUS
<1>6. next = TriggerAt(d, 1) /\ next > height /\ next \in Nat
  BY <1>1, <1>2, <1>3, <1>4, <1>5, FirstTrigger, AtTrigger DEF Schedule
<1>7. PICK s : s = [sequence |-> 0, position |-> NoPosition, next_trigger |-> next,
                    input_reserves |-> d.amount, output_reserves |-> 0]
  OBVIOUS
<1>8. s \in AuctionType /\ s.sequence = 0 /\ s.position = NoPosition /\ s.next_trigger = next
      /\ s.input_reserves = d.amount /\ s.output_reserves = 0
  BY <1>3, <1>6, <1>7 DEF AuctionType
<1>9. auction' = [auction EXCEPT ![a] = s] /\ auction[a].sequence = -1
  BY <1>1, <1>5, <1>7 DEF Schedule
<1>10. auction' \in [Auction -> AuctionType] /\ auction'[a] = s
       /\ \A b \in Auction : b # a => auction'[b] = auction[b]
  BY <1>8, <1>9, AuctionUpdate
<1>11. UNCHANGED <<positions, occupied, paid, dexEnabled, height, phase, stranded, abandoned>>
  BY DEF Schedule
<1>12. vcb' = [vcb EXCEPT ![d.input] = @ + d.amount] /\ vcb \in [Asset -> Int] /\ d.input \in Asset
  BY <1>1, Assets DEF Schedule, Credit, Types
<1>13. vcb' \in [Asset -> Int]
       /\ \A x \in Asset : vcb'[x] = vcb[x] + (IF x = d.input THEN d.amount ELSE 0)
  BY <1>3, <1>12
<1>14. nft' \in [Auction -> Int]
  BY DEF Schedule, Types
<1>15. Types'
  BY <1>10, <1>11, <1>13, <1>14 DEF Types, AuctionType
<1>16. OnlyAuction(a)
  BY <1>10, <1>11 DEF OnlyAuction
<1>17. LifeInv(a, auction[a], positions, FALSE) /\ a \notin abandoned
  BY <1>9 DEF AuctionInv, LifeInv
<1>18. BalanceMoves(a)
  <2>1. auction[a].input_reserves = 0 /\ auction[a].output_reserves = 0
    BY <1>9, <1>17 DEF LifeInv
  <2>2. stranded[a] \in Nat
    BY DEF Types
  <2>3. Delta(auction'[a].input_reserves, auction[a].input_reserves) = d.amount
        /\ Delta(auction'[a].output_reserves, auction[a].output_reserves) = 0
        /\ Delta(stranded'[a], stranded[a]) = 0
    BY <1>3, <1>8, <1>10, <1>11, <2>1, <2>2 DEF Delta
  <2>4. d.amount + 0 = d.amount /\ \A x \in Asset : vcb[x] \in Int
    BY <1>3, <1>12
  <2> QED BY <1>1, <1>3, <1>13, <2>3, <2>4 DEF BalanceMoves
<1>19. \A id \in PositionsOf(a) : positions[id].state = "Absent"
  BY <1>9, <1>17 DEF LifeInv
<1>20. AuctionInv(a)'
  <2>1. LifeInv(a, s, positions, FALSE)
    <3>1. \A id \in PositionsOf(a) : ~ Alive(positions[id]) /\ positions[id].r1 = 0 /\ positions[id].r2 = 0
      BY <1>17, <1>19 DEF LifeInv, Alive
    <3> QED BY <1>8, <3>1 DEF LifeInv
  <2>2. WaitInv(a, s, positions, height)
    BY <1>1, <1>3, <1>4, <1>6, <1>8, <1>19 DEF WaitInv
  <2>3. PriceInv(a, s, positions, paid[a], stranded[a])
    <3>1. PICK x, y : x = paid[a].input + stranded[a] /\ y = paid[a].output
      OBVIOUS
    <3>2. paid[a].input \in Nat /\ stranded[a] \in Nat /\ x \in Nat /\ y \in Nat
      BY <3>1 DEF Types
    <3>3. s.input_reserves + paid[a].input + stranded[a] + 0 = d.amount + x
          /\ s.output_reserves + paid[a].output = y
      BY <1>3, <1>8, <3>1, <3>2
    <3>4. d.amount - (d.amount + x) = - x /\ d.min_output * (- x) <= 0 /\ y * d.amount >= 0
      <4>1. d.min_output * x \in Nat /\ d.min_output * (- x) = - (d.min_output * x)
        BY <1>3, <3>2
      <4>2. y * d.amount \in Nat
        BY <1>3, <3>2
      <4> QED BY <1>3, <3>2, <4>1, <4>2
    <3>5. d.min_output * (- x) \in Int /\ y * d.amount \in Int
      BY <1>3, <3>2
    <3>6. Sold(d, d.amount + x, y)
      BY <3>4, <3>5 DEF Sold
    <3>7. Sold(Description[a], s.input_reserves + paid[a].input + stranded[a] + 0,
               s.output_reserves + paid[a].output)
      BY <1>1, <3>3, <3>6
    <3> QED BY <1>8, <3>7 DEF PriceInv
  <2>4. FALSE = (a \in abandoned')
    BY <1>11, <1>17
  <2> QED BY <1>10, <1>11, <2>1, <2>2, <2>3, <2>4, NextAuction
<1>21. OccupiedInv'
  BY <1>11 DEF OccupiedInv
<1>22. TriggersInv'
  <2>1. triggers' = triggers \cup {<<a, next>>}
    BY <1>1, <1>5 DEF Schedule
  <2>2. \A t \in triggers : t[1] # a
    BY <1>9, <1>17 DEF TriggersInv, TriggerInv
  <2>3. triggers' = {t \in triggers : t[1] # a} \cup {<<a, next>>}
    BY <2>1, <2>2
  <2>4. OthersKept(a) /\ height' = height
    BY <1>10, <1>11 DEF OthersKept
  <2>5. next >= height /\ next <= Description[a].end_height
    BY <1>1, <1>2, <1>3, <1>4, <1>6, AtTrigger
  <2> QED BY <1>6, <1>8, <1>10, <2>3, <2>4, <2>5, TriggersMoved
<1> QED BY <1>15, <1>16, <1>18, <1>20, <1>21, <1>22, OneStep

\* Ending an auction keeps the invariant.
LEMMA StepEnd ==
  ASSUME IInv, NEW a \in Auction, End(a)
  PROVE  IInv'
<1> USE DEF IInv
<1>1. nft' \in [Auction -> Int]
  BY DEF End, Types
<1>2. UNCHANGED <<occupied, paid, dexEnabled, height, phase, stranded, abandoned>>
  BY DEF End
<1>3. CASE UNCHANGED <<auction, triggers, vcb, positions>>
  <2>1. Types'
    BY <1>1, <1>2, <1>3 DEF Types
  <2>2. \A b \in Auction : AuctionInv(b)'
    BY <1>2, <1>3 DEF AuctionInv, LifeInv, WaitInv, PriceInv, PositionsOf, Alive, Holds
  <2>3. OccupiedInv' /\ TriggersInv'
    BY <1>2, <1>3, TriggersUntouched DEF OccupiedInv
  <2>4. VcbExact'
    BY <1>2, <1>3 DEF VcbExact, ReservesOf, StrandedOf, Sellers, Buyers
  <2> QED BY <2>1, <2>2, <2>3, <2>4
<1>4. CASE ~ UNCHANGED <<auction, triggers, vcb, positions>>
  <2>1. auction[a].sequence = 0 /\ vcb' = VcbRecovered(a) /\ positions' = PositionsRecovered(a)
        /\ triggers' = triggers \ {<<a, auction[a].next_trigger>>}
    BY <1>4 DEF End, UnsetTrigger
  <2>2. auction' = [auction EXCEPT ![a] =
           [sequence |-> 1, position |-> NoPosition, next_trigger |-> 0,
            input_reserves |-> auction[a].input_reserves + Inflow(a).r1,
            output_reserves |-> auction[a].output_reserves + Inflow(a).r2]]
    BY <1>4 DEF End
  <2> QED BY <1>1, <1>2, <2>1, <2>2, Closing
<1> QED BY <1>3, <1>4

\* Withdrawing an auction, open or not, keeps the invariant.
LEMMA StepWithdraw ==
  ASSUME IInv, NEW a \in Auction, NEW seq \in WithdrawSeqs, Withdraw(a, seq)
  PROVE  IInv'
<1> USE DEF IInv
<1>1. PICK i, o : i = auction[a].input_reserves /\ o = auction[a].output_reserves
  OBVIOUS
<1>2. PICK x, y : x = Description[a].input /\ y = Description[a].output
  OBVIOUS
<1>3. x \in Asset /\ y \in Asset /\ x # y
  BY <1>2, Assets
<1>4. i \in Nat /\ o \in Nat /\ auction[a] \in AuctionType /\ vcb \in [Asset -> Int]
      /\ auction[a].sequence \in Int /\ auction[a].next_trigger \in Nat
  BY <1>1 DEF Types, AuctionType
<1>5. seq \in Nat /\ seq >= 1 /\ auction[a].sequence = seq - 1
  BY <1>4, InputsAssumption DEF Withdraw
<1>6. LifeInv(a, auction[a], positions, a \in abandoned)
  BY DEF AuctionInv
<1>7. auction[a].sequence >= 0 /\ auction[a].sequence # -1
  BY <1>5
<1>8. PICK s : s = Withdrawn(a, seq)
  OBVIOUS
<1>9. s = [sequence |-> seq, position |-> NoPosition, next_trigger |-> 0,
           input_reserves |-> 0, output_reserves |-> 0]
  BY <1>4, <1>8 DEF Withdrawn, AuctionType
<1>10. s \in AuctionType /\ s.sequence = seq /\ s.position = NoPosition
       /\ s.input_reserves = 0 /\ s.output_reserves = 0
  BY <1>5, <1>9 DEF AuctionType
<1>11. s.sequence # 0 /\ s.sequence # -1 /\ s.sequence >= 0
  BY <1>5, <1>10
<1>12. auction' = [auction EXCEPT ![a] = s]
  BY <1>8 DEF Withdraw
<1>13. auction' \in [Auction -> AuctionType] /\ auction'[a] = s
       /\ \A b \in Auction : b # a => auction'[b] = auction[b]
  BY <1>10, <1>12, AuctionUpdate
<1>14. UNCHANGED <<triggers, positions, occupied, dexEnabled, height, phase, stranded>>
  BY DEF Withdraw
<1>29. PICK left : left = (a \in abandoned \/ auction[a].sequence = 0)
  OBVIOUS
<1>30. /\ abandoned' \subseteq Auction /\ left = (a \in abandoned')
       /\ \A b \in Auction : b # a => (b \in abandoned' <=> b \in abandoned)
  <2>1. abandoned' = IF auction[a].sequence = 0 THEN abandoned \cup {a} ELSE abandoned
    BY DEF Withdraw
  <2>2. abandoned \subseteq Auction
    BY DEF Types
  <2> QED BY <1>29, <2>1, <2>2
<1>15. vcb' \in [Asset -> Int]
       /\ \A z \in Asset : vcb'[z] = vcb[z] + (IF z = x THEN - i ELSE 0) + (IF z = y THEN - o ELSE 0)
  <2>1. PICK v : v = [vcb EXCEPT ![x] = @ - i]
    OBVIOUS
  <2>2. vcb' = [v EXCEPT ![y] = @ - o]
    BY <1>1, <1>2, <2>1 DEF Withdraw, Debit
  <2>3. v \in [Asset -> Int] /\ v[x] = vcb[x] - i /\ \A z \in Asset : z # x => v[z] = vcb[z]
    BY <1>3, <1>4, <2>1
  <2>4. vcb' \in [Asset -> Int] /\ vcb'[y] = v[y] - o /\ \A z \in Asset : z # y => vcb'[z] = v[z]
    BY <1>3, <1>4, <2>2, <2>3
  <2> QED BY <1>3, <1>4, <2>3, <2>4
<1>16. nft' \in [Auction -> Int]
  BY <1>5 DEF Withdraw, Types
<1>17. PICK p : p = [input |-> paid[a].input + i, output |-> paid[a].output + o]
  OBVIOUS
<1>18. paid[a] \in [input : Nat, output : Nat] /\ paid[a].input \in Nat /\ paid[a].output \in Nat
       /\ paid \in [Auction -> [input : Nat, output : Nat]]
  BY DEF Types
<1>19. p \in [input : Nat, output : Nat] /\ p.input = paid[a].input + i /\ p.output = paid[a].output + o
  BY <1>4, <1>17, <1>18
<1>20. paid' = [paid EXCEPT ![a] = p]
  BY <1>1, <1>17, <1>18 DEF Withdraw
<1>21. paid' \in [Auction -> [input : Nat, output : Nat]] /\ paid'[a] = p
       /\ \A b \in Auction : b # a => paid'[b] = paid[b]
  BY <1>18, <1>19, <1>20
<1>22. Types'
  BY <1>13, <1>14, <1>15, <1>16, <1>21, <1>30 DEF Types, AuctionType
<1>23. OnlyAuction(a)
  BY <1>13, <1>14, <1>21, <1>30 DEF OnlyAuction
<1>24. stranded[a] \in Nat
  BY DEF Types
<1>25. BalanceMoves(a)
  <2>1. Delta(auction'[a].input_reserves, auction[a].input_reserves) = - i
        /\ Delta(auction'[a].output_reserves, auction[a].output_reserves) = - o
        /\ Delta(stranded'[a], stranded[a]) = 0
    BY <1>1, <1>4, <1>10, <1>13, <1>14, <1>24 DEF Delta
  <2>2. - i + 0 = - i
    BY <1>4
  <2> QED BY <1>2, <1>15, <2>1, <2>2 DEF BalanceMoves
<1>26. AuctionInv(a)'
  <2>1. LifeInv(a, s, positions, left)
    <3>1. ASSUME NEW id \in PositionsOf(a), Alive(positions[id]) PROVE left
      <4>1. CASE a \in abandoned
        BY <1>29, <4>1
      <4>2. CASE a \notin abandoned
        <5>1. auction[a].position = id /\ id # NoPosition
          BY <1>6, <3>1, <4>2, AbsentAssumption DEF LifeInv, PositionsOf
        <5>2. auction[a].sequence = 0
          BY <1>6, <5>1 DEF LifeInv
        <5> QED BY <1>29, <5>2
      <4> QED BY <4>1, <4>2
    <3>2. s.sequence >= -1 /\ s.sequence >= 1
      BY <1>5, <1>10
    <3>3. /\ \A id \in PositionsOf(a) :
               ~ Alive(positions[id]) => positions[id].r1 = 0 /\ positions[id].r2 = 0
          /\ \A id, other \in PositionsOf(a) :
               Alive(positions[id]) /\ Alive(positions[other]) => id = other
      BY <1>6 DEF LifeInv
    <3> QED BY <1>10, <1>11, <3>1, <3>2, <3>3 DEF LifeInv
  <2>2. WaitInv(a, s, positions, height)
    BY <1>11 DEF WaitInv
  <2>3. PriceInv(a, s, positions, p, stranded[a])
    <3>1. PICK R \in Nat :
            /\ Sold(Description[a], i + paid[a].input + stranded[a] + R, o + paid[a].output)
            /\ R = 0 \/ \E id \in PositionsOf(a) : Holds(id, positions, R)
      BY <1>1, <1>7 DEF AuctionInv, PriceInv
    <3>2. s.input_reserves + p.input + stranded[a] + R = i + paid[a].input + stranded[a] + R
          /\ s.output_reserves + p.output = o + paid[a].output
      BY <1>4, <1>10, <1>18, <1>19, <1>24
    <3>3. Sold(Description[a], s.input_reserves + p.input + stranded[a] + R, s.output_reserves + p.output)
      BY <3>1, <3>2
    <3> QED BY <3>1, <3>3 DEF PriceInv
  <2> QED BY <1>13, <1>14, <1>21, <1>30, <2>1, <2>2, <2>3, NextAuction
<1>27. OccupiedInv'
  BY <1>14 DEF OccupiedInv
<1>28. TriggersInv'
  <2>1. OthersKept(a)
    BY <1>13, <1>30 DEF OthersKept
  <2>2. auction'[a].sequence # 0 /\ (auction[a].sequence = 0 \/ a \in abandoned => a \in abandoned')
    BY <1>11, <1>13, <1>29, <1>30
  <2> QED BY <1>14, <2>1, <2>2, TriggersKept
<1> QED BY <1>22, <1>23, <1>25, <1>26, <1>27, <1>28, OneStep

\* execute_dutch_auction at the k-th trigger of an auction that goes on: with a
\* new position id, or with NoPosition when the DEX is disabled.
LEMMA Executing ==
  ASSUME IInv, NEW a \in Auction, Execute(a), ~ Expired(Description[a], height),
         NEW input, input = auction[a].input_reserves + Inflow(a).r1, input # 0
  PROVE  IInv'
<1> USE DEF IInv
<1>1. PICK d : d = Description[a]
  OBVIOUS
<1>2. WellFormed(d)
  BY <1>1, Described
<1>3. auction[a].sequence = 0 /\ auction[a].next_trigger = height /\ a \notin abandoned
      /\ LifeInv(a, auction[a], positions, FALSE)
  <2>1. LifeInv(a, auction[a], positions, a \in abandoned)
    BY DEF AuctionInv
  <2>2. <<a, height>> \in triggers
    BY DEF Execute
  <2>3. \/ auction[a].sequence = 0 /\ auction[a].next_trigger = height
        \/ a \in abandoned
    BY <2>2 DEF TriggersInv, TriggerInv
  <2>4. a \notin abandoned
    <3>1. SUFFICES ASSUME a \in abandoned PROVE FALSE
      OBVIOUS
    <3>2. auction[a].position = NoPosition /\ auction[a].input_reserves = 0
      BY <2>1, <3>1 DEF LifeInv, Types
    <3> QED BY <3>2 DEF Inflow
  <2> QED BY <2>1, <2>3, <2>4 DEF LifeInv
<1>4. PICK k \in 1 .. d.step_count :
        /\ height = TriggerAt(d, k)
        /\ \A id \in PositionsOf(a) : positions[id].state # "Absent" => id[2] < k
  BY <1>1, <1>3 DEF AuctionInv, WaitInv
<1>5. StepIndex(d, height) = k /\ NextTriggerHeight(d, height) = TriggerAt(d, k + 1)
      /\ height \in Nat /\ height < TriggerAt(d, k + 1)
  BY <1>2, <1>4, AtTrigger
<1>6. k \in 0 .. d.step_count - 1 /\ k + 1 \in 1 .. d.step_count /\ k \in Nat
  <2>1. d.step_count \in Nat
    BY <1>2 DEF WellFormed
  <2>2. ~(k >= d.step_count)
    BY <1>1, <1>5 DEF Expired
  <2> QED BY <2>1, <2>2
<1>7. PICK next : next = TriggerAt(d, k + 1)
  OBVIOUS
<1>8. next \in Nat /\ next > height
  BY <1>2, <1>5, <1>6, <1>7, AtTrigger
<1>9. PICK r1, r2 : r1 = Inflow(a).r1 /\ r2 = Inflow(a).r2
  OBVIOUS
<1>10. PICK i, o : i = auction[a].input_reserves /\ o = auction[a].output_reserves
  OBVIOUS
<1>11. r1 \in Nat /\ r2 \in Nat
       /\ Sold(d, (i + r1) + paid[a].input + stranded[a], (o + r2) + paid[a].output)
  <2>1. auction[a].sequence >= 0
    BY <1>3
  <2> QED BY <1>1, <1>3, <1>9, <1>10, <2>1, InflowSold
<1>12. i \in Nat /\ o \in Nat /\ auction[a] \in AuctionType
  BY <1>10 DEF Types, AuctionType
<1>13. input = i + r1 /\ input \in Nat
  BY <1>9, <1>10, <1>11, <1>12
<1>14. PICK w, qs : w = VcbRecovered(a) /\ qs = PositionsRecovered(a)
  OBVIOUS
<1>15. /\ w \in [Asset -> Int]
       /\ \A x \in Asset : w[x] = vcb[x] + (IF x = d.input THEN r1 ELSE 0)
                                         + (IF x = d.output THEN r2 ELSE 0)
  BY <1>1, <1>9, <1>11, <1>14, RecoveredBalance
<1>16. /\ qs \in [PositionId -> PositionType]
       /\ \A id \in PositionId : id[1] # a => qs[id] = positions[id]
       /\ \A id \in PositionsOf(a) :
            /\ ~ Alive(qs[id]) /\ qs[id].r1 = 0 /\ qs[id].r2 = 0
            /\ qs[id].state = "Absent" <=> positions[id].state = "Absent"
  BY <1>3, <1>14, Recovery
<1>17. UNCHANGED <<occupied, nft, paid, dexEnabled, height, phase, abandoned>>
  BY DEF Execute
<1>18. Allocate(a, k, input) /\ triggers' = SetTrigger(a, next)
  BY <1>1, <1>5, <1>7 DEF Execute
<1>19. paid[a].input \in Nat /\ paid[a].output \in Nat /\ stranded[a] \in Nat
       /\ stranded \in [Auction -> Nat] /\ vcb \in [Asset -> Int]
  BY DEF Types
<1>20. d.input \in Asset /\ d.output \in Asset /\ d.input # d.output
  BY <1>1, Assets
<1> DEFINE Allocated(pos, s, ps, st) ==
       /\ s = [auction[a] EXCEPT !.position = pos, !.input_reserves = 0,
                                !.output_reserves = @ + r2, !.next_trigger = next]
       /\ auction' = [auction EXCEPT ![a] = s]
       /\ ps = positions' /\ ps \in [PositionId -> PositionType]
       /\ st = stranded' /\ st \in [Auction -> Nat]
       /\ \A b \in Auction : b # a => st[b] = stranded[b]
       /\ \A id \in PositionId : id # pos => ps[id] = qs[id]
       /\ vcb' \in [Asset -> Int]
       /\ \A x \in Asset :
            vcb'[x] = vcb[x] + (IF x = d.input THEN (- i) + (st[a] - stranded[a]) ELSE 0)
                             + (IF x = d.output THEN r2 ELSE 0)
       /\ pos # NoPosition =>
            /\ pos \in PositionsOf(a) /\ pos[2] = k /\ pos \notin occupied
            /\ ps[pos] = [state |-> "Opened", r1 |-> input, r2 |-> 0] /\ st[a] = stranded[a]
       /\ pos = NoPosition => st[a] = stranded[a] + input
<1>21. ASSUME NEW pos \in PositionId \cup {NoPosition}, NEW s, NEW ps, NEW st,
              Allocated(pos, s, ps, st)
       PROVE  IInv'
  <2>1. s = [sequence |-> 0, position |-> pos, next_trigger |-> next,
             input_reserves |-> 0, output_reserves |-> o + r2]
    BY <1>3, <1>10, <1>12, <1>21 DEF AuctionType
  <2>2. s \in AuctionType /\ s.sequence = 0 /\ s.position = pos /\ s.next_trigger = next
        /\ s.input_reserves = 0 /\ s.output_reserves = o + r2
    BY <1>8, <1>11, <1>12, <2>1 DEF AuctionType
  <2>3. auction' \in [Auction -> AuctionType] /\ auction'[a] = s
        /\ \A b \in Auction : b # a => auction'[b] = auction[b]
    BY <1>21, <2>2, AuctionUpdate
  <2>4. Types'
    BY <1>17, <1>21, <2>3 DEF Types, AuctionType, PositionType
  <2>5. OnlyAuction(a)
    <3>1. ASSUME NEW id \in PositionId, id[1] # a PROVE ps[id] = positions[id]
      <4>1. id # pos
        BY <1>21, <3>1, AbsentAssumption DEF PositionsOf
      <4> QED BY <1>16, <1>21, <3>1, <4>1
    <3> QED BY <1>17, <1>21, <2>3, <3>1 DEF OnlyAuction
  <2>6. BalanceMoves(a)
    <3>1. Delta(auction'[a].input_reserves, auction[a].input_reserves) = - i
          /\ Delta(auction'[a].output_reserves, auction[a].output_reserves) = r2
          /\ Delta(stranded'[a], stranded[a]) = st[a] - stranded[a]
      BY <1>10, <1>11, <1>12, <1>21, <2>2, <2>3 DEF Delta
    <3> QED BY <1>1, <1>21, <3>1 DEF BalanceMoves
  <2>7. \A id \in PositionsOf(a) : id # pos => ps[id] = qs[id]
    BY <1>21 DEF PositionsOf
  <2>8. LifeInv(a, s, ps, FALSE)
    <3>1. pos # NoPosition => Alive(ps[pos])
      BY <1>21 DEF Alive
    <3>2. ASSUME NEW id \in PositionsOf(a)
          PROVE  IF Alive(ps[id]) THEN pos = id ELSE ps[id].r1 = 0 /\ ps[id].r2 = 0
      <4>1. CASE id = pos
        <5>1. pos # NoPosition
          BY <4>1, AbsentAssumption DEF PositionsOf
        <5> QED BY <3>1, <4>1, <5>1
      <4>2. CASE id # pos
        BY <1>16, <2>7, <4>2
      <4> QED BY <4>1, <4>2
    <3>3. ASSUME NEW id \in PositionsOf(a), Alive(ps[id]) PROVE id = pos
      BY <3>2, <3>3
    <3> QED BY <1>21, <2>2, <3>1, <3>2, <3>3 DEF LifeInv
  <2>9. WaitInv(a, s, ps, height)
    <3>1. ASSUME NEW id \in PositionsOf(a), ps[id].state # "Absent" PROVE id[2] < k + 1
      <4>1. id[2] \in Nat
        <5>1. id \in PositionId /\ id[1] = a
          BY DEF PositionsOf
        <5> QED BY <5>1, IdParts
      <4>2. CASE id = pos
        <5>1. pos # NoPosition
          BY <4>2, AbsentAssumption DEF PositionsOf
        <5> QED BY <1>6, <1>21, <4>2, <5>1
      <4>3. CASE id # pos
        <5>1. positions[id].state # "Absent"
          BY <1>16, <2>7, <3>1, <4>3
        <5> QED BY <1>4, <1>6, <4>1, <5>1
      <4> QED BY <4>2, <4>3
    <3>2. s.next_trigger = TriggerAt(d, k + 1) /\ s.next_trigger >= height
      BY <1>5, <1>7, <1>8, <2>2
    <3> QED BY <1>1, <1>6, <3>1, <3>2 DEF WaitInv
  <2>10. PriceInv(a, s, ps, paid[a], st[a])
    <3>1. CASE pos = NoPosition
      <4>1. s.input_reserves + paid[a].input + st[a] + 0 = (i + r1) + paid[a].input + stranded[a]
        BY <1>13, <1>19, <1>21, <2>2, <3>1
      <4>2. Sold(Description[a], s.input_reserves + paid[a].input + st[a] + 0,
                 s.output_reserves + paid[a].output)
        BY <1>1, <1>11, <2>2, <4>1
      <4> QED BY <2>2, <3>1, <4>2 DEF PriceInv
    <3>2. CASE pos # NoPosition
      <4>1. s.input_reserves + paid[a].input + st[a] + input = (i + r1) + paid[a].input + stranded[a]
        BY <1>13, <1>19, <1>21, <2>2, <3>2
      <4>2. Sold(Description[a], s.input_reserves + paid[a].input + st[a] + input,
                 s.output_reserves + paid[a].output)
        BY <1>1, <1>11, <2>2, <4>1
      <4>3. PICK P, Q : P = PriceOf(pos).p /\ Q = PriceOf(pos).q
        OBVIOUS
      <4>4. P \in Nat /\ Q \in Nat
        <5>1. pos \in PositionId
          BY <3>2
        <5> QED BY <4>3, <5>1, IdParts, Described, PriceFloor DEF PriceOf
      <4>5. ps[pos].r1 = input /\ ps[pos].r2 = 0
        BY <1>21, <3>2
      <4>6. Worth(ps[pos], PriceOf(pos)) = input * P + 0 * Q
        BY <4>3, <4>5 DEF Worth
      <4>7. input * P + 0 * Q >= input * P
        BY <1>13, <4>4
      <4>8. Worth(ps[pos], PriceOf(pos)) >= input * PriceOf(pos).p
        BY <4>3, <4>6, <4>7
      <4>9. pos \in PositionsOf(a) /\ Holds(pos, ps, input)
        BY <1>21, <3>2, <4>8 DEF Holds, Alive
      <4> QED BY <1>13, <4>2, <4>9 DEF PriceInv
    <3> QED BY <3>1, <3>2
  <2>14. FALSE = (a \in abandoned')
    BY <1>3, <1>17
  <2>11. AuctionInv(a)'
    BY <1>17, <1>21, <2>3, <2>8, <2>9, <2>10, <2>14, NextAuction
  <2>12. OccupiedInv'
    <3>1. ASSUME NEW id \in occupied PROVE ps[id].state = "Absent"
      <4>1. id \in PositionId /\ positions[id].state = "Absent"
        BY DEF OccupiedInv
      <4>2. id # pos
        BY <1>21, <4>1, AbsentAssumption
      <4>3. ps[id] = qs[id]
        BY <1>21, <4>1, <4>2
      <4>4. CASE id[1] = a
        BY <1>16, <4>1, <4>3, <4>4 DEF PositionsOf
      <4>5. CASE id[1] # a
        BY <1>16, <4>1, <4>3, <4>5
      <4> QED BY <4>4, <4>5
    <3> QED BY <1>17, <1>21, <3>1 DEF OccupiedInv
  <2>13. TriggersInv'
    <3>1. triggers' = (triggers \ {<<a, height>>}) \cup {<<a, next>>} /\ <<a, height>> \in triggers
      BY <1>18 DEF SetTrigger, Execute
    <3>2. triggers \ {<<a, height>>} = {t \in triggers : t[1] # a}
      BY <3>1, OnlyEntry
    <3>3. OthersKept(a)
      BY <1>17, <2>3 DEF OthersKept
    <3>4. next <= Description[a].end_height
      BY <1>1, <1>2, <1>6, <1>7, AtTrigger
    <3>5. next \in Nat /\ next >= height /\ height' = height
      BY <1>8, <1>17 DEF Types
    <3>6. auction'[a].sequence = 0 /\ auction'[a].next_trigger = next
      BY <2>2, <2>3
    <3>7. triggers' = {t \in triggers : t[1] # a} \cup {<<a, next>>}
      BY <3>1, <3>2
    <3> QED BY <3>3, <3>4, <3>5, <3>6, <3>7, TriggersMoved
  <2> QED BY <2>4, <2>5, <2>6, <2>11, <2>12, <2>13, OneStep
<1>22. CASE dexEnabled
  <2>1. PICK id : id = FreshId(a, k)
    OBVIOUS
  <2>2. id \in PositionsOf(a) /\ id[2] = k /\ id \notin occupied /\ positions[id].state = "Absent"
    BY <1>1, <1>4, <1>6, <2>1, FreshIdIsFresh
  <2>3. id \in PositionId /\ id # NoPosition
    BY <2>2, AbsentAssumption DEF PositionsOf
  <2>4. PICK lp : lp = [state |-> "Opened", r1 |-> input, r2 |-> 0]
    OBVIOUS
  <2>5. lp \in PositionType
    BY <1>13, <2>4 DEF PositionType
  <2>6. positions' = [qs EXCEPT ![id] = lp] /\ stranded' = stranded /\ vcb' = [w EXCEPT ![d.input] = @ - input]
    BY <1>1, <1>14, <1>18, <1>22, <2>1, <2>4 DEF Allocate, Debit
  <2>7. PICK ps : ps = positions'
    OBVIOUS
  <2>8. ps \in [PositionId -> PositionType] /\ ps[id] = lp /\ \A j \in PositionId : j # id => ps[j] = qs[j]
    BY <1>16, <2>3, <2>5, <2>6, <2>7
  <2>9. vcb' \in [Asset -> Int]
        /\ vcb'[d.input] = w[d.input] - input /\ \A x \in Asset : x # d.input => vcb'[x] = w[x]
    BY <1>13, <1>15, <1>20, <2>6
  <2>10. \A x \in Asset : vcb'[x] = vcb[x] + (IF x = d.input THEN (- i) + (stranded[a] - stranded[a]) ELSE 0)
                                           + (IF x = d.output THEN r2 ELSE 0)
    BY <1>11, <1>12, <1>13, <1>15, <1>19, <1>20, <2>9
  <2>11. PICK s : s = [auction[a] EXCEPT !.position = id, !.input_reserves = 0,
                         !.output_reserves = @ + r2, !.next_trigger = next]
    OBVIOUS
  <2>12. auction' = [auction EXCEPT ![a] = s]
    <3>1. auction' = [auction EXCEPT ![a] =
            [auction[a] EXCEPT !.position = FreshId(a, k), !.input_reserves = 0,
               !.output_reserves = @ + Inflow(a).r2, !.next_trigger = NextTriggerHeight(Description[a], height)]]
      BY <1>18, <1>22, Zenon DEF Allocate
    <3>2. NextTriggerHeight(Description[a], height) = next
      BY <1>1, <1>5, <1>7
    <3> QED BY <1>9, <2>1, <2>11, <3>1, <3>2, Zenon
  <2>13. PICK st : st = stranded
    OBVIOUS
  <2>14. Allocated(id, s, ps, st)
    BY <1>19, <2>2, <2>3, <2>4, <2>6, <2>7, <2>8, <2>9, <2>10, <2>11, <2>12, <2>13
  <2> HIDE DEF Allocated
  <2> QED BY <1>21, <2>3, <2>14
<1>23. CASE ~ dexEnabled
  <2>1. positions' = qs /\ stranded' = [stranded EXCEPT ![a] = @ + input] /\ vcb' = w
    BY <1>1, <1>14, <1>18, <1>23 DEF Allocate
  <2>2. PICK st : st = stranded'
    OBVIOUS
  <2>3. st \in [Auction -> Nat] /\ st[a] = stranded[a] + input /\ \A b \in Auction : b # a => st[b] = stranded[b]
    BY <1>13, <1>19, <2>1, <2>2
  <2>4. \A x \in Asset : vcb'[x] = vcb[x] + (IF x = d.input THEN (- i) + (st[a] - stranded[a]) ELSE 0)
                                           + (IF x = d.output THEN r2 ELSE 0)
    BY <1>11, <1>12, <1>13, <1>15, <1>19, <1>20, <2>1, <2>3
  <2>5. PICK s : s = [auction[a] EXCEPT !.position = NoPosition, !.input_reserves = 0,
                         !.output_reserves = @ + r2, !.next_trigger = next]
    OBVIOUS
  <2>6. auction' = [auction EXCEPT ![a] = s]
    <3>1. auction' = [auction EXCEPT ![a] =
            [auction[a] EXCEPT !.position = NoPosition, !.input_reserves = 0,
               !.output_reserves = @ + Inflow(a).r2, !.next_trigger = NextTriggerHeight(Description[a], height)]]
      BY <1>18, <1>23, Zenon DEF Allocate
    <3>2. NextTriggerHeight(Description[a], height) = next
      BY <1>1, <1>5, <1>7
    <3> QED BY <1>9, <2>5, <3>1, <3>2, Zenon
  <2>7. PICK ps : ps = positions'
    OBVIOUS
  <2>8. Allocated(NoPosition, s, ps, st)
    BY <1>15, <1>16, <2>1, <2>2, <2>3, <2>4, <2>5, <2>6, <2>7
  <2> HIDE DEF Allocated
  <2> QED BY <1>21, <2>8
<1> QED BY <1>22, <1>23

\* The trigger that was left behind when the auction was withdrawn changes nothing
\* but the sequence of an empty auction.
LEMMA ExecuteAbandoned ==
  ASSUME IInv, NEW a \in Auction, Execute(a), a \in abandoned
  PROVE  IInv'
<1> USE DEF IInv
<1>1. LifeInv(a, auction[a], positions, TRUE)
  BY DEF AuctionInv
<1>2. auction[a].position = NoPosition /\ auction[a].sequence >= 1
      /\ auction[a].input_reserves = 0 /\ auction[a].output_reserves = 0
  BY <1>1 DEF LifeInv, Types
<1>3. Inflow(a).r1 = 0 /\ Inflow(a).r2 = 0
  BY <1>2 DEF Inflow
<1>4. PICK s : s = [sequence |-> 1, position |-> NoPosition, next_trigger |-> 0,
                    input_reserves |-> 0, output_reserves |-> 0]
  OBVIOUS
<1>5. s \in AuctionType /\ s.sequence = 1 /\ s.position = NoPosition
      /\ s.input_reserves = 0 /\ s.output_reserves = 0
  BY <1>4 DEF AuctionType
<1>6. /\ auction' = [auction EXCEPT ![a] =
            [sequence |-> 1, position |-> NoPosition, next_trigger |-> 0,
             input_reserves |-> auction[a].input_reserves + Inflow(a).r1,
             output_reserves |-> auction[a].output_reserves + Inflow(a).r2]]
      /\ vcb' = VcbRecovered(a) /\ positions' = PositionsRecovered(a)
      /\ triggers' = triggers \ {<<a, height>>} /\ stranded' = stranded
  BY <1>2, <1>3 DEF Execute
<1>7. auction' = [auction EXCEPT ![a] = s]
  BY <1>2, <1>3, <1>4, <1>6
<1>8. auction' \in [Auction -> AuctionType] /\ auction'[a] = s
      /\ \A b \in Auction : b # a => auction'[b] = auction[b]
  BY <1>5, <1>7, AuctionUpdate
<1>9. positions' = positions
  BY <1>2, <1>6 DEF PositionsRecovered
<1>10. /\ vcb' \in [Asset -> Int]
       /\ \A x \in Asset : vcb'[x] = vcb[x]
  <2>1. PICK w : w = VcbRecovered(a)
    OBVIOUS
  <2>2. /\ w \in [Asset -> Int]
        /\ \A x \in Asset : w[x] = vcb[x] + (IF x = Description[a].input THEN 0 ELSE 0)
                                          + (IF x = Description[a].output THEN 0 ELSE 0)
    BY <1>3, <2>1, RecoveredBalance
  <2> QED BY <1>6, <2>1, <2>2 DEF Types
<1>11. UNCHANGED <<occupied, nft, paid, dexEnabled, height, phase, abandoned>>
  BY DEF Execute
<1>12. Types'
  BY <1>6, <1>8, <1>9, <1>10, <1>11 DEF Types, AuctionType
<1>13. OnlyAuction(a)
  BY <1>6, <1>8, <1>9, <1>11 DEF OnlyAuction
<1>14. BalanceMoves(a)
  <2>1. Delta(auction'[a].input_reserves, auction[a].input_reserves) = 0
        /\ Delta(auction'[a].output_reserves, auction[a].output_reserves) = 0
        /\ Delta(stranded'[a], stranded[a]) = 0
    BY <1>2, <1>5, <1>6, <1>8 DEF Delta, Types
  <2> QED BY <1>10, <2>1 DEF BalanceMoves, Types
<1>15. AuctionInv(a)'
  <2>1. LifeInv(a, s, positions, TRUE)
    BY <1>1, <1>5 DEF LifeInv
  <2>2. WaitInv(a, s, positions, height)
    BY <1>5 DEF WaitInv
  <2>3. PriceInv(a, s, positions, paid[a], stranded[a])
    <3>1. PriceInv(a, auction[a], positions, paid[a], stranded[a])
      BY DEF AuctionInv
    <3>2. auction[a].sequence >= 0 /\ s.input_reserves = auction[a].input_reserves
          /\ s.output_reserves = auction[a].output_reserves
      BY <1>2, <1>5 DEF Types
    <3>3. PICK R \in Nat :
            /\ Sold(Description[a], auction[a].input_reserves + paid[a].input + stranded[a] + R,
                    auction[a].output_reserves + paid[a].output)
            /\ R = 0 \/ \E id \in PositionsOf(a) : Holds(id, positions, R)
      BY <3>1, <3>2 DEF PriceInv
    <3>4. Sold(Description[a], s.input_reserves + paid[a].input + stranded[a] + R,
               s.output_reserves + paid[a].output)
      BY <3>2, <3>3
    <3> QED BY <3>3, <3>4 DEF PriceInv
  <2>4. TRUE = (a \in abandoned')
    BY <1>11
  <2> QED BY <1>6, <1>8, <1>9, <1>11, <2>1, <2>2, <2>3, <2>4, NextAuction
<1>16. OccupiedInv'
  BY <1>9, <1>11 DEF OccupiedInv
<1>17. TriggersInv'
  <2>1. <<a, height>> \in triggers
    BY DEF Execute
  <2>2. OthersKept(a) /\ auction'[a].sequence # 0
    BY <1>5, <1>8, <1>11 DEF OthersKept
  <2> QED BY <1>6, <1>11, <2>1, <2>2, TriggersClosed
<1> QED BY <1>12, <1>13, <1>14, <1>15, <1>16, <1>17, OneStep

\* A trigger keeps the invariant.
LEMMA StepExecute ==
  ASSUME IInv, NEW a \in Auction, Execute(a)
  PROVE  IInv'
<1>1. PICK input : input = auction[a].input_reserves + Inflow(a).r1
  OBVIOUS
<1>2. CASE ~ Expired(Description[a], height) /\ input # 0
  BY <1>1, <1>2, Executing
<1>3. CASE a \in abandoned
  BY <1>3, ExecuteAbandoned
<1>4. CASE a \notin abandoned /\ (Expired(Description[a], height) \/ input = 0)
  <2>1. auction[a].sequence = 0 /\ auction[a].next_trigger = height
    BY <1>4 DEF Execute, TriggersInv, TriggerInv, IInv
  <2>2. auction' = [auction EXCEPT ![a] =
           [sequence |-> 1, position |-> NoPosition, next_trigger |-> 0,
            input_reserves |-> auction[a].input_reserves + Inflow(a).r1,
            output_reserves |-> auction[a].output_reserves + Inflow(a).r2]]
    BY <1>1, <1>4 DEF Execute
  <2>3. /\ vcb' = VcbRecovered(a) /\ positions' = PositionsRecovered(a)
        /\ triggers' = triggers \ {<<a, auction[a].next_trigger>>}
        /\ UNCHANGED <<occupied, paid, dexEnabled, height, phase, stranded, abandoned>>
    BY <1>1, <1>4, <2>1 DEF Execute
  <2>4. nft' \in [Auction -> Int]
    BY DEF Execute, IInv, Types
  <2> QED BY <2>1, <2>2, <2>3, <2>4, Closing
<1> QED BY <1>2, <1>3, <1>4

--------------------------------------------------------------------------
(* Steps of the rest of the chain *)

\* A step that leaves auctions and positions alone keeps the invariant.
LEMMA StepFrame ==
  ASSUME IInv, UNCHANGED <<auction, triggers, vcb, positions, occupied, nft, paid, height, stranded, abandoned>>,
         dexEnabled' \in BOOLEAN, phase' \in {"deliver", "triggers"}
  PROVE  IInv'
<1> USE DEF IInv
<1>1. Types'
  BY DEF Types
<1>2. \A b \in Auction : AuctionInv(b)'
  BY DEF AuctionInv, LifeInv, WaitInv, PriceInv, PositionsOf, Alive, Holds
<1>3. OccupiedInv' /\ TriggersInv'
  BY TriggersUntouched DEF OccupiedInv
<1>4. VcbExact'
  BY DEF VcbExact, ReservesOf, StrandedOf, Sellers, Buyers
<1> QED BY <1>1, <1>2, <1>3, <1>4

\* So does another user who takes a position id.
LEMMA StepOccupy ==
  ASSUME IInv, NEW id \in PositionId, Occupy(id)
  PROVE  IInv'
<1> USE DEF IInv
<1>1. UNCHANGED <<auction, triggers, vcb, positions, nft, paid, dexEnabled, height, phase, stranded,
                  abandoned>>
  BY DEF Occupy
<1>2. Types'
  BY <1>1 DEF Types
<1>3. \A b \in Auction : AuctionInv(b)'
  BY <1>1 DEF AuctionInv, LifeInv, WaitInv, PriceInv, PositionsOf, Alive, Holds
<1>4. TriggersInv'
  BY <1>1, TriggersUntouched
<1>5. VcbExact'
  BY <1>1 DEF VcbExact, ReservesOf, StrandedOf, Sellers, Buyers
<1>6. OccupiedInv'
  <2>1. occupied' = occupied \cup {id} /\ id \notin occupied /\ positions[id].state = "Absent"
        /\ Cardinality(occupied) < MaxOccupied
    BY DEF Occupy, Exists
  <2>2. IsFiniteSet(occupied') /\ Cardinality(occupied') = Cardinality(occupied) + 1
    BY <2>1, FS_AddElement DEF OccupiedInv
  <2>3. Cardinality(occupied) \in Nat /\ MaxOccupied \in Nat
    BY FS_CardinalityType, InputsAssumption DEF OccupiedInv
  <2>4. Cardinality(occupied') <= MaxOccupied
    BY <2>1, <2>2, <2>3
  <2>5. occupied' \subseteq PositionId /\ \A j \in occupied' : positions'[j].state = "Absent"
    BY <1>1, <2>1 DEF OccupiedInv
  <2> QED BY <2>2, <2>4, <2>5 DEF OccupiedInv
<1> QED BY <1>2, <1>3, <1>4, <1>5, <1>6

\* Trades leave the live positions live and worth no less, and the other
\* positions as they are.
LEMMA TradesKeep ==
  ASSUME NEW b \in Auction, NEW s \in AuctionType, NEW ps \in [PositionId -> PositionType],
         NEW qs \in [PositionId -> PositionType], NEW h \in Nat, NEW out, NEW x,
         NEW left, LifeInv(b, s, ps, left), WaitInv(b, s, ps, h), PriceInv(b, s, ps, out, x),
         s.sequence = 0 => s.next_trigger # h,
         \A id \in PositionId :
           \/ qs[id] = ps[id]
           \/ /\ Alive(ps[id]) /\ Alive(qs[id])
              /\ Worth(qs[id], PriceOf(id)) >= Worth(ps[id], PriceOf(id))
  PROVE  LifeInv(b, s, qs, left) /\ WaitInv(b, s, qs, h + 1) /\ PriceInv(b, s, qs, out, x)
<1>1. \A id \in PositionsOf(b) : id \in PositionId
  BY DEF PositionsOf
<1>2. \A id \in PositionsOf(b) :
        /\ Alive(qs[id]) <=> Alive(ps[id])
        /\ qs[id].state = "Absent" <=> ps[id].state = "Absent"
        /\ ~ Alive(ps[id]) => qs[id] = ps[id]
  BY <1>1 DEF Alive
<1>3. LifeInv(b, s, qs, left)
  BY <1>2 DEF LifeInv
<1>4. WaitInv(b, s, qs, h + 1)
  <2>1. SUFFICES ASSUME s.sequence = 0 PROVE WaitInv(b, s, qs, h + 1)
    BY DEF WaitInv
  <2>2. PICK k \in 1 .. Description[b].step_count :
          /\ s.next_trigger = TriggerAt(Description[b], k)
          /\ s.next_trigger >= h
          /\ \A id \in PositionsOf(b) : ps[id].state # "Absent" => id[2] < k
    BY <2>1 DEF WaitInv
  <2>3. s.next_trigger \in Nat
    BY DEF AuctionType
  <2>4. s.next_trigger >= h + 1
    BY <2>1, <2>2, <2>3
  <2> QED BY <1>2, <2>2, <2>4 DEF WaitInv
<1>5. PriceInv(b, s, qs, out, x)
  <2>1. SUFFICES ASSUME s.sequence >= 0 PROVE PriceInv(b, s, qs, out, x)
    BY DEF PriceInv
  <2>2. PICK R \in Nat :
          /\ Sold(Description[b], s.input_reserves + out.input + x + R, s.output_reserves + out.output)
          /\ R = 0 \/ \E id \in PositionsOf(b) : Holds(id, ps, R)
    BY <2>1 DEF PriceInv
  <2>3. ASSUME NEW id \in PositionsOf(b), Holds(id, ps, R) PROVE Holds(id, qs, R)
    <3>1. id \in PositionId /\ Alive(ps[id]) /\ Alive(qs[id])
      BY <1>1, <1>2, <2>3 DEF Holds
    <3>2. PICK P, Q : P = PriceOf(id).p /\ Q = PriceOf(id).q
      OBVIOUS
    <3>3. P \in Nat /\ Q \in Nat
      BY <3>1, <3>2, IdParts, Described, PriceFloor DEF PriceOf
    <3>4. Worth(ps[id], PriceOf(id)) \in Int /\ Worth(qs[id], PriceOf(id)) \in Int
      <4>1. ps[id].r1 \in Nat /\ ps[id].r2 \in Nat /\ qs[id].r1 \in Nat /\ qs[id].r2 \in Nat
        BY <3>1 DEF PositionType
      <4> QED BY <3>2, <3>3, <4>1 DEF Worth
    <3>5. Worth(qs[id], PriceOf(id)) >= Worth(ps[id], PriceOf(id))
      BY <3>1, <3>4
    <3>6. Worth(ps[id], PriceOf(id)) >= R * PriceOf(id).p /\ R * PriceOf(id).p \in Int
      BY <2>3, <3>2, <3>3 DEF Holds
    <3> QED BY <3>1, <3>4, <3>5, <3>6 DEF Holds
  <2> QED BY <2>2, <2>3 DEF PriceInv
<1> QED BY <1>3, <1>4, <1>5

\* The trades of a block keep the invariant: each is at the price of the
\* position.
LEMMA StepDexEndBlock ==
  ASSUME IInv, NEW taker \in [OpenPositions -> Takers], DexEndBlock(taker)
  PROVE  IInv'
<1> USE DEF IInv
<1>1. UNCHANGED <<auction, triggers, vcb, occupied, nft, paid, dexEnabled, stranded, abandoned>>
      /\ height' = height + 1 /\ phase' = "deliver"
  BY DEF DexEndBlock
<1>2. PICK ps : ps = positions
  OBVIOUS
<1>3. PICK qs : qs = positions'
  OBVIOUS
<1>4. ps \in [PositionId -> PositionType] /\ auction \in [Auction -> AuctionType] /\ height \in Nat
  BY <1>2 DEF Types, PositionType, AuctionType
<1>5. ASSUME NEW id \in PositionId
      PROVE  /\ qs[id] \in PositionType
             /\ \/ qs[id] = ps[id]
                \/ /\ Alive(ps[id]) /\ Alive(qs[id])
                   /\ Worth(qs[id], PriceOf(id)) >= Worth(ps[id], PriceOf(id))
  <2>1. qs[id] = IF id \in OpenPositions /\ taker[id] # 0 THEN Executed(id, taker[id]) ELSE positions[id]
    BY <1>3 DEF DexEndBlock
  <2>2. CASE id \in OpenPositions /\ taker[id] # 0
    <3>1. Alive(positions[id])
      BY <2>2 DEF OpenPositions, Alive
    <3>2. taker[id] \in Int /\ taker[id] # 0
      BY <2>2, InputsAssumption
    <3>3. qs[id] = Executed(id, taker[id])
      BY <2>1, <2>2
    <3>4. qs[id] \in PositionType /\ Alive(qs[id]) /\ Worth(qs[id], PriceOf(id)) >= Worth(positions[id], PriceOf(id))
      BY <3>1, <3>2, <3>3, TradeKeepsWorth DEF PositionType
    <3> QED BY <1>2, <3>1, <3>4
  <2>3. CASE ~(id \in OpenPositions /\ taker[id] # 0)
    BY <1>2, <1>4, <2>1, <2>3
  <2> QED BY <2>2, <2>3
<1>6. qs \in [PositionId -> PositionType]
  <2>1. qs = [id \in PositionId |->
                IF id \in OpenPositions /\ taker[id] # 0 THEN Executed(id, taker[id]) ELSE positions[id]]
    BY <1>3 DEF DexEndBlock
  <2>2. DOMAIN qs = PositionId /\ qs = [id \in PositionId |-> qs[id]]
    BY <2>1, Zenon
  <2> QED BY <1>5, <2>2
<1>7. Types'
  BY <1>1, <1>3, <1>4, <1>6 DEF Types, PositionType
<1>8. ASSUME NEW b \in Auction PROVE AuctionInv(b)'
  <2>1. PICK s, h, out, x, left : /\ s = auction[b] /\ h = height /\ out = paid[b] /\ x = stranded[b]
                                 /\ left = (b \in abandoned)
    OBVIOUS
  <2>2. LifeInv(b, s, ps, left) /\ WaitInv(b, s, ps, h) /\ PriceInv(b, s, ps, out, x)
    BY <1>2, <2>1 DEF AuctionInv
  <2>3. s.sequence = 0 => s.next_trigger # h
    <3>1. <<b, h>> \notin triggers
      BY <2>1 DEF DexEndBlock
    <3> QED BY <2>1, <3>1 DEF TriggersInv
  <2>4. s \in AuctionType /\ h \in Nat
    BY <1>4, <2>1
  <2>5. LifeInv(b, s, qs, left) /\ WaitInv(b, s, qs, h + 1) /\ PriceInv(b, s, qs, out, x)
    BY <1>4, <1>5, <1>6, <2>2, <2>3, <2>4, TradesKeep
  <2>6. s = auction'[b] /\ h + 1 = height' /\ out = paid'[b] /\ x = stranded'[b] /\ left = (b \in abandoned')
    BY <1>1, <2>1
  <2> QED BY <1>3, <2>5, <2>6, NextAuction
<1>9. OccupiedInv'
  <2>1. ASSUME NEW id \in occupied PROVE qs[id].state = "Absent"
    <3>1. id \in PositionId /\ ps[id].state = "Absent"
      BY <1>2 DEF OccupiedInv
    <3> QED BY <1>5, <3>1 DEF Alive
  <2> QED BY <1>1, <1>3, <2>1 DEF OccupiedInv
<1>10. TriggersInv'
  <2>1. ASSUME NEW t \in triggers PROVE t[2] >= height + 1
    <3>1. t = <<t[1], t[2]>> /\ t[1] \in Auction /\ t[2] \in Nat /\ t[2] >= height
      BY DEF TriggersInv, TriggerInv
    <3>2. t[2] # height
      BY <3>1 DEF DexEndBlock
    <3> QED BY <1>4, <3>1, <3>2
  <2> QED BY <1>1, <2>1 DEF TriggersInv, TriggerInv
<1>11. VcbExact'
  BY <1>1 DEF VcbExact, ReservesOf, StrandedOf, Sellers, Buyers
<1> QED BY <1>7, <1>8, <1>9, <1>10, <1>11

--------------------------------------------------------------------------
(* Theorems *)

\* The initial state satisfies the invariant.
LEMMA Initial == Init => IInv
<1> SUFFICES ASSUME Init PROVE IInv
  OBVIOUS
<1>1. \A a \in Auction : auction[a] = Unscheduled /\ stranded[a] = 0 /\ a \notin abandoned
  BY DEF Init
<1>2. Types
  BY DEF Init, Types, Unscheduled, NoPositionYet
<1>3. ASSUME NEW a \in Auction PROVE AuctionInv(a)
  <2>1. auction[a].sequence = -1 /\ auction[a].position = NoPosition
        /\ auction[a].input_reserves = 0 /\ auction[a].output_reserves = 0
    BY <1>1 DEF Unscheduled
  <2>2. \A id \in PositionsOf(a) : positions[id] = NoPositionYet
    BY DEF Init, PositionsOf
  <2>3. \A id \in PositionsOf(a) : positions[id].state = "Absent" /\ ~ Alive(positions[id])
                                   /\ positions[id].r1 = 0 /\ positions[id].r2 = 0
    BY <2>2 DEF NoPositionYet, Alive
  <2>4. LifeInv(a, auction[a], positions, FALSE)
    BY <2>1, <2>3 DEF LifeInv
  <2>5. WaitInv(a, auction[a], positions, height)
    BY <2>1 DEF WaitInv
  <2>6. PriceInv(a, auction[a], positions, paid[a], stranded[a])
    BY <2>1 DEF PriceInv
  <2> QED BY <1>1, <2>4, <2>5, <2>6 DEF AuctionInv, LifeInv
<1>4. OccupiedInv
  BY FS_EmptySet, InputsAssumption DEF Init, OccupiedInv
<1>5. TriggersInv
  <2>1. \A b \in Auction : auction[b].sequence # 0
    BY <1>1 DEF Unscheduled
  <2> QED BY <2>1 DEF Init, TriggersInv
<1>6. VcbExact
  <2>1. ASSUME NEW x \in Asset PROVE vcb[x] = ReservesOf(x) + StrandedOf(x)
    <3>1. PICK ins, outs : ins = [a \in Auction |-> auction[a].input_reserves]
                           /\ outs = [a \in Auction |-> auction[a].output_reserves]
      OBVIOUS
    <3>2. \A a \in Auction : ins[a] = 0 /\ outs[a] = 0 /\ stranded[a] = 0
      BY <1>1, <3>1 DEF Unscheduled
    <3>3. Sellers(x) \subseteq Auction /\ Buyers(x) \subseteq Auction
      BY DEF Sellers, Buyers
    <3>4. /\ SumFunctionOnSet(ins, Sellers(x)) = 0 /\ SumFunctionOnSet(outs, Buyers(x)) = 0
          /\ SumFunctionOnSet(stranded, Sellers(x)) = 0
      BY <3>2, <3>3, SellersFinite, SumZero
    <3>5. vcb[x] = 0
      BY DEF Init
    <3>6. ReservesOf(x) = 0 + 0 /\ StrandedOf(x) = 0
      BY <3>1, <3>4 DEF ReservesOf, StrandedOf
    <3> QED BY <3>5, <3>6
  <2> QED BY <2>1 DEF VcbExact
<1> QED BY <1>2, <1>3, <1>4, <1>5, <1>6 DEF IInv

\* Every step keeps the invariant.
LEMMA Inductive ==
  ASSUME IInv, [Next]_vars
  PROVE  IInv'
<1>1. ASSUME NEW a \in Auction, Schedule(a) PROVE IInv'
  BY <1>1, StepSchedule
<1>2. ASSUME NEW a \in Auction, End(a) PROVE IInv'
  BY <1>2, StepEnd
<1>3. ASSUME NEW a \in Auction, NEW seq \in WithdrawSeqs, Withdraw(a, seq) PROVE IInv'
  BY <1>3, StepWithdraw
<1>4. ASSUME NEW a \in Auction, Execute(a) PROVE IInv'
  BY <1>4, StepExecute
<1>5. ASSUME NEW a \in Auction, NEW n \in Attempts, NEW step \in 1 .. Description[a].step_count - 1,
             Occupy(<<a, step, n>>)
      PROVE  IInv'
  <2>1. Description[a].step_count \in Nat
    BY Described DEF WellFormed
  <2>2. step \in 0 .. Description[a].step_count - 1
    BY <2>1
  <2>3. <<a, step, n>> \in PositionId
    BY <2>2, IdOf DEF PositionsOf
  <2> QED BY <1>5, <2>3, StepOccupy
<1>6. ASSUME NEW on \in DexSettings, SwitchDex(on) PROVE IInv'
  <2>1. UNCHANGED <<auction, triggers, vcb, positions, occupied, nft, paid, height, stranded, abandoned>>
    BY <1>6 DEF SwitchDex
  <2>2. dexEnabled' \in BOOLEAN
    BY <1>6, SettingsAssumption DEF SwitchDex
  <2>3. phase' \in {"deliver", "triggers"}
    BY <1>6 DEF SwitchDex, IInv, Types
  <2> QED BY <2>1, <2>2, <2>3, StepFrame
<1>7. ASSUME EndTransactions PROVE IInv'
  <2>1. UNCHANGED <<auction, triggers, vcb, positions, occupied, nft, paid, height, stranded, abandoned>>
    BY <1>7 DEF EndTransactions
  <2>2. dexEnabled' \in BOOLEAN
    BY <1>7 DEF EndTransactions, IInv, Types
  <2>3. phase' \in {"deliver", "triggers"}
    BY <1>7 DEF EndTransactions
  <2> QED BY <2>1, <2>2, <2>3, StepFrame
<1>8. ASSUME NEW taker \in [OpenPositions -> Takers], DexEndBlock(taker) PROVE IInv'
  BY <1>8, StepDexEndBlock
<1>9. ASSUME UNCHANGED vars PROVE IInv'
  <2>1. UNCHANGED <<auction, triggers, vcb, positions, occupied, nft, paid, height, stranded, abandoned>>
    BY <1>9 DEF vars
  <2>2. dexEnabled' \in BOOLEAN
    BY <1>9 DEF vars, IInv, Types
  <2>3. phase' \in {"deliver", "triggers"}
    BY <1>9 DEF vars, IInv, Types
  <2> QED BY <2>1, <2>2, <2>3, StepFrame
<1> QED BY <1>1, <1>2, <1>3, <1>4, <1>5, <1>6, <1>7, <1>8, <1>9 DEF Next

\* The invariant, whatever clients, takers, other users and governance do.
THEOREM Invariant == Spec => []IInv
<1>1. Init => IInv
  BY Initial
<1>2. IInv /\ [Next]_vars => IInv'
  BY Inductive
<1> QED BY <1>1, <1>2, PTL DEF Spec

\* The stored values keep their types; no balance of the circuit breaker is
\* ever negative, so no debit of it fails.
THEOREM TypeCorrect == Spec => []TypeOK
<1>1. IInv => TypeOK
  <2> SUFFICES ASSUME IInv PROVE TypeOK
    OBVIOUS
  <2>1. vcb \in [Asset -> Nat]
    BY VcbNat DEF IInv
  <2>2. triggers \subseteq Auction \X Nat
    BY DEF IInv, TriggersInv
  <2>3. occupied \subseteq PositionId
    BY DEF IInv, OccupiedInv
  <2> QED BY <2>1, <2>2, <2>3 DEF TypeOK, IInv, Types
<1> QED BY <1>1, Invariant, PTL

\* The circuit breaker tracks exactly what the auctions own, however triggers,
\* ends, withdrawals (of open auctions too) and a DEX that is switched off
\* interleave.
THEOREM VcbIsExact == Spec => []VcbExact
<1>1. IInv => VcbExact
  BY DEF IInv
<1> QED BY <1>1, Invariant, PTL

\* Every open auction waits for exactly one trigger, which has not passed and
\* is no later than its end; the one entry that an auction withdrawn while open
\* leaves behind fires in time too, and finds nothing.
THEOREM TriggersAreExact == Spec => []TriggersExact
<1>1. IInv => TriggersExact
  <2> SUFFICES ASSUME IInv PROVE TriggersExact
    OBVIOUS
  <2>1. \A t \in triggers : TriggerInv(t)
    BY DEF IInv, TriggersInv
  <2>2. ASSUME NEW a \in abandoned
        PROVE  /\ auction[a].sequence >= 1
               /\ auction[a].input_reserves = 0 /\ auction[a].output_reserves = 0
    BY DEF IInv, Types, AuctionInv, LifeInv
  <2> QED BY <2>1, <2>2 DEF TriggersExact, TriggerInv, IInv, TriggersInv
<1> QED BY <1>1, Invariant, PTL

\* An auction has at most one position that holds funds and knows it, unless it
\* was withdrawn while open; and allocate_position always finds an id that
\* nobody has: open_position cannot fail inside its expect.
THEOREM PositionsAreTracked == Spec => []PositionsTracked
<1>1. IInv => PositionsTracked
  <2> SUFFICES ASSUME IInv PROVE PositionsTracked
    OBVIOUS
  <2>1. ASSUME NEW id \in PositionId, Live(id)
        PROVE  /\ id[1] \in Auction /\ id \in PositionsOf(id[1]) /\ Alive(positions[id])
               /\ auction[id[1]].position = id \/ id[1] \in abandoned
               /\ id \notin occupied
    <3>1. id[1] \in Auction /\ id \in PositionsOf(id[1]) /\ Alive(positions[id])
      BY <2>1, PositionsOfIds DEF Live, Alive
    <3>2. auction[id[1]].position = id \/ id[1] \in abandoned
      BY <3>1 DEF IInv, AuctionInv, LifeInv
    <3>3. id \notin occupied
      BY <3>1 DEF IInv, OccupiedInv, Alive
    <3> QED BY <3>1, <3>2, <3>3
  <2>2. ASSUME NEW id \in PositionId, NEW other \in PositionId, Live(id), Live(other), id[1] = other[1]
        PROVE  id = other
    <3>1. id \in PositionsOf(id[1]) /\ other \in PositionsOf(id[1]) /\ id[1] \in Auction
          /\ Alive(positions[id]) /\ Alive(positions[other])
      BY <2>1, <2>2
    <3> QED BY <3>1 DEF IInv, AuctionInv, LifeInv
  <2>3. ASSUME NEW a \in Auction, auction[a].position # NoPosition
        PROVE  auction[a].sequence = 0 /\ auction[a].position \in PositionId /\ Live(auction[a].position)
    BY <2>3 DEF IInv, AuctionInv, LifeInv, PositionsOf, Live, Alive
  <2> QED BY <2>1, <2>2, <2>3 DEF PositionsTracked
<1> QED BY <1>1, Invariant, PTL

\* All that the positions of an auction hold is in the live one.
LEMMA HeldInLive ==
  ASSUME IInv, NEW a \in Auction, NEW id \in PositionsOf(a), Alive(positions[id])
  PROVE  InputIn(PositionsOf(a)) = positions[id].r1 /\ OutputIn(PositionsOf(a)) = positions[id].r2
<1>1. PICK S : S = PositionsOf(a)
  OBVIOUS
<1>2. IsFiniteSet(S) /\ S \subseteq PositionId /\ id \in S
  BY <1>1, PositionsOfFinite DEF PositionsOf
<1>3. PICK f, g : f = [j \in S |-> positions[j].r1] /\ g = [j \in S |-> positions[j].r2]
  OBVIOUS
<1>4. InputIn(PositionsOf(a)) = SumFunctionOnSet(f, S) /\ OutputIn(PositionsOf(a)) = SumFunctionOnSet(g, S)
  BY <1>1, <1>3 DEF InputIn, OutputIn
<1>5. \A j \in S : f[j] \in Nat /\ g[j] \in Nat /\ f[j] = positions[j].r1 /\ g[j] = positions[j].r2
  BY <1>2, <1>3 DEF IInv, Types
<1>6. \A j \in S : j # id => f[j] = 0 /\ g[j] = 0
  BY <1>1, <1>5 DEF IInv, AuctionInv, LifeInv
<1>7. IsFiniteSet(S \ {id}) /\ \A j \in S \ {id} : f[j] = 0 /\ g[j] = 0
  BY <1>2, <1>6, FS_Subset
<1>8. SumFunctionOnSet(f, S \ {id}) = 0 /\ SumFunctionOnSet(g, S \ {id}) = 0
  BY <1>7, SumZero
<1>9. \A j \in S : f[j] \in Int /\ g[j] \in Int
  BY <1>5
<1>10. SumFunctionOnSet(f, S) = f[id] + 0 /\ SumFunctionOnSet(g, S) = g[id] + 0
  <2>1. SumFunctionOnSet(f, S) = f[id] + SumFunctionOnSet(f, S \ {id})
    BY <1>2, <1>9, SumRemove
  <2>2. SumFunctionOnSet(g, S) = g[id] + SumFunctionOnSet(g, S \ {id})
    BY <1>2, <1>9, SumRemove
  <2> QED BY <1>8, <2>1, <2>2
<1>11. f[id] + 0 = positions[id].r1 /\ g[id] + 0 = positions[id].r2
  BY <1>2, <1>5
<1> QED BY <1>4, <1>10, <1>11

\* Without a live position they hold nothing.
LEMMA NoneHeld ==
  ASSUME IInv, NEW a \in Auction, \A id \in PositionsOf(a) : ~ Alive(positions[id])
  PROVE  InputIn(PositionsOf(a)) = 0 /\ OutputIn(PositionsOf(a)) = 0
<1>1. PICK S, f, g : S = PositionsOf(a)
                     /\ f = [j \in S |-> positions[j].r1] /\ g = [j \in S |-> positions[j].r2]
  OBVIOUS
<1>2. IsFiniteSet(S) /\ \A j \in S : f[j] = 0 /\ g[j] = 0
  BY <1>1, PositionsOfFinite DEF IInv, AuctionInv, LifeInv
<1>3. SumFunctionOnSet(f, S) = 0 /\ SumFunctionOnSet(g, S) = 0
  BY <1>2, SumZero
<1> QED BY <1>1, <1>3 DEF InputIn, OutputIn

\* Whatever part of the input was sold brought in the reserve price or more,
\* over any steps, fills in either direction, recoveries and withdrawals, of
\* open auctions too: the rounding of every fill favours the seller.
THEOREM ReservePriceKept == Spec => []ReservePrice
<1>1. IInv => ReservePrice
  <2> SUFFICES ASSUME IInv, NEW a \in Auction, auction[a].sequence >= 0
      PROVE  (auction[a].output_reserves + OutputIn(PositionsOf(a)) + paid[a].output) * Description[a].amount
               >= Description[a].min_output *
                    (Description[a].amount
                      - (auction[a].input_reserves + InputIn(PositionsOf(a)) + paid[a].input + stranded[a]))
    BY DEF ReservePrice
  <2>1. CASE \E id \in PositionsOf(a) : Alive(positions[id])
    <3>1. PICK id \in PositionsOf(a) : Alive(positions[id])
      BY <2>1
    <3>2. Sold(Description[a],
               (auction[a].input_reserves + positions[id].r1) + paid[a].input + stranded[a],
               (auction[a].output_reserves + positions[id].r2) + paid[a].output)
      BY <3>1, HeldSold DEF IInv
    <3>3. Sold(Description[a],
               auction[a].input_reserves + InputIn(PositionsOf(a)) + paid[a].input + stranded[a],
               auction[a].output_reserves + OutputIn(PositionsOf(a)) + paid[a].output)
      BY <3>1, <3>2, HeldInLive
    <3> QED BY <3>3 DEF Sold
  <2>2. CASE \A id \in PositionsOf(a) : ~ Alive(positions[id])
    <3>1. Sold(Description[a], auction[a].input_reserves + paid[a].input + stranded[a],
               auction[a].output_reserves + paid[a].output)
      BY <2>2, NoneHeldSold DEF IInv
    <3>2. InputIn(PositionsOf(a)) = 0 /\ OutputIn(PositionsOf(a)) = 0
      BY <2>2, NoneHeld
    <3>3. auction[a].input_reserves + 0 = auction[a].input_reserves
          /\ auction[a].output_reserves + 0 = auction[a].output_reserves
      BY DEF IInv, Types
    <3> QED BY <3>1, <3>2, <3>3 DEF Sold
  <2> QED BY <2>1, <2>2
<1> QED BY <1>1, Invariant, PTL

=============================================================================
